------------------------ MODULE ChatLifecycleProofs -------------------------
(***************************************************************************)
(* What ChatLifecycle guarantees for any number of callers, adapters and   *)
(* shutdowns.                                                              *)
(***************************************************************************)
EXTENDS ChatLifecycle, TLAPS

USE LifecycleAssumption DEF Inits, None

LEMMA InitInv ==
  Init => IndInv
<1> SUFFICES ASSUME Init PROVE IndInv
  OBVIOUS
<1>1. TypeOK
  <2>1. /\ phase \in [Inits -> Phases]
        /\ child \in [Inits -> [Adapters -> {"none", "running", "done", "failed"}]]
    BY DEF Init, Phases
  <2>2. /\ request \in [Callers -> {"idle", "awaiting", "handled", "failed", "cancelled"}]
        /\ awaits \in [Callers -> Inits \cup {None}]
    BY DEF Init
  <2>3. initTask \in Inits \cup {None} /\ up \subseteq Adapters /\ closing \subseteq Adapters
    BY DEF Init
  <2>4. shutdowns \in 0..MaxShutdowns
    BY DEF Init
  <2> QED
    BY <2>1, <2>2, <2>3, <2>4 DEF Init, TypeOK
<1>2. PhasesAgree /\ AwaitsBegun /\ CurrentBegun /\ Standing
  BY DEF Init, PhasesAgree, AwaitsBegun, CurrentBegun, Standing
<1>3. \A i \in Inits : ~Running(i)
  BY DEF Init, Running
<1> QED
  BY <1>1, <1>2, <1>3 DEF Init, IndInv, RunningIsCurrent, ClosingDown

-----------------------------------------------------------------------------
(***************************************************************************)
(* Callers                                                                 *)
(***************************************************************************)

LEMMA CallEarlyInv ==
  ASSUME IndInv, NEW c \in Callers, CallEarly(c)
  PROVE  IndInv'
<1>1. TypeOK /\ UNCHANGED <<connected, up, closing, shutting, shutdowns, initialized, child>> /\ ~initialized
  BY DEF CallEarly, IndInv, NewInit, inits
<1>2. CASE initTask = None
  <2>1. PICK i \in Unused : NewInit(i) /\ Await(c, i)
    BY <1>2 DEF CallEarly
  <2>2. i \in Inits /\ phase[i] = "none"
    BY DEF Unused
  <2>3. /\ initTask' = i /\ phase' = [phase EXCEPT ![i] = "connecting"] /\ raced' = (raced \/ shutting)
        /\ request' = [request EXCEPT ![c] = "awaiting"] /\ awaits' = [awaits EXCEPT ![c] = i]
    BY <2>1 DEF NewInit, Await
  <2>4. TypeOK'
    BY <1>1, <2>2, <2>3 DEF TypeOK, Phases
  <2>5. phase'[i] = "connecting" /\ \A j \in Inits \ {i} : phase'[j] = phase[j]
    BY <1>1, <2>2, <2>3 DEF TypeOK
  <2>6. PhasesAgree'
    BY <1>1, <2>2, <2>5 DEF IndInv, PhasesAgree
  <2>7. \A j \in Inits \ {i} : Running(j)' <=> Running(j)
    BY <1>1, <2>5 DEF Running
  <2>8. RunningIsCurrent'
    <3>1. ~raced => \A j \in Inits : ~Running(j)
      BY <1>2 DEF IndInv, RunningIsCurrent
    <3>2. ~raced' => ~raced
      BY <2>3
    <3> QED
      BY <1>1, <2>3, <2>7, <3>1, <3>2 DEF RunningIsCurrent
  <2>9. AwaitsBegun' /\ CurrentBegun'
    BY <1>1, <2>2, <2>3, <2>5 DEF IndInv, TypeOK, AwaitsBegun, CurrentBegun
  <2>10. Standing' /\ ClosingDown'
    BY <1>1, <2>2, <2>3, <2>5 DEF IndInv, PhasesAgree, Standing, ClosingDown
  <2> QED
    BY <2>4, <2>6, <2>8, <2>9, <2>10 DEF IndInv
<1>3. CASE initTask # None
  <2>1. /\ UNCHANGED <<initTask, phase, raced>>
        /\ request' = [request EXCEPT ![c] = "awaiting"] /\ awaits' = [awaits EXCEPT ![c] = initTask]
    BY <1>3 DEF CallEarly, Await, inits
  <2>2. TypeOK'
    BY <1>1, <2>1 DEF TypeOK
  <2>3. AwaitsBegun'
    BY <1>1, <1>3, <2>1 DEF IndInv, TypeOK, AwaitsBegun, CurrentBegun
  <2> QED
    BY <1>1, <2>1, <2>2, <2>3 DEF IndInv, PhasesAgree, Running, RunningIsCurrent, CurrentBegun, Standing,
       ClosingDown
<1> QED
  BY <1>2, <1>3

LEMMA RequestInv ==
  ASSUME IndInv, NEW c \in Callers, CallReady(c) \/ Resume(c)
  PROVE  IndInv'
<1>1. TypeOK /\ UNCHANGED <<inits, connected, up, awaits, ends>>
  BY DEF IndInv, CallReady, Resume
<1>2. PICK next \in {"handled", "failed", "cancelled"} : request' = [request EXCEPT ![c] = next]
  BY DEF CallReady, Resume, Ended
<1>3. TypeOK'
  BY <1>1, <1>2 DEF TypeOK, inits, ends
<1>4. AwaitsBegun'
  BY <1>1, <1>2 DEF IndInv, TypeOK, AwaitsBegun, inits
<1> QED
  BY <1>1, <1>3, <1>4 DEF IndInv, PhasesAgree, Running, RunningIsCurrent, CurrentBegun, Standing,
     ClosingDown, inits, ends

LEMMA CancelInv ==
  ASSUME IndInv, NEW c \in Callers, CancelCaller(c)
  PROVE  IndInv'
<1> DEFINE i == awaits[c]
<1>1. /\ TypeOK /\ UNCHANGED <<initialized, initTask, connected, up, awaits, ends>>
      /\ i \in Inits /\ phase[i] # "none"
      /\ request' = [request EXCEPT ![c] = "cancelled"]
  BY DEF IndInv, CancelCaller, AwaitsBegun, inits
<1>2. CASE Ended(i)
  <2>1. UNCHANGED inits
    BY <1>2 DEF CancelCaller
  <2>2. TypeOK' /\ AwaitsBegun'
    BY <1>1, <2>1 DEF IndInv, TypeOK, AwaitsBegun, inits, ends
  <2> QED
    BY <1>1, <2>1, <2>2 DEF IndInv, PhasesAgree, Running, RunningIsCurrent, CurrentBegun, Standing,
       ClosingDown, inits, ends
<1>3. CASE ~Ended(i)
  <2>1. /\ phase' = [phase EXCEPT ![i] = "cancelled"]
        /\ child' = [child EXCEPT ![i] = [a \in Adapters |->
                       IF child[i][a] = "running" THEN "failed" ELSE child[i][a]]]
    BY <1>3 DEF CancelCaller
  <2>2. /\ phase'[i] = "cancelled" /\ \A a \in Adapters : child'[i][a] # "running"
        /\ \A j \in Inits \ {i} : phase'[j] = phase[j] /\ child'[j] = child[j]
        /\ \A a \in Adapters : child'[i][a] = "done" => child[i][a] = "done"
    BY <1>1, <2>1 DEF TypeOK
  <2>3. TypeOK'
    <3>1. child' \in [Inits -> [Adapters -> {"none", "running", "done", "failed"}]]
      BY <1>1, <2>1 DEF TypeOK
    <3> QED
      BY <1>1, <2>1, <3>1 DEF TypeOK, Phases, ends
  <2>4. PhasesAgree'
    BY <1>1, <2>2 DEF IndInv, PhasesAgree
  <2>5. \A j \in Inits : Running(j)' => Running(j)
    BY <1>1, <2>2 DEF Running
  <2>6. RunningIsCurrent' /\ ClosingDown'
    BY <1>1, <2>5 DEF IndInv, RunningIsCurrent, ClosingDown, ends
  <2>7. AwaitsBegun' /\ CurrentBegun'
    BY <1>1, <2>2 DEF IndInv, TypeOK, AwaitsBegun, CurrentBegun
  <2>8. Standing'
    <3> SUFFICES ASSUME ~raced', ~shutting', initTask # None \/ initialized
                 PROVE  /\ initialized' => initTask' # None /\ phase'[initTask] = "ok"
                        /\ initTask' # None =>
                             /\ phase'[initTask] \in {"adapters", "ok"} => connected'
                             /\ \A a \in Adapters : child'[initTask][a] = "done" => a \in up'
      BY <1>1 DEF Standing
    <3>1. ~raced /\ ~shutting /\ initTask \in Inits \cup {None} /\ phase[i] # "ok"
      BY <1>1, <1>3 DEF TypeOK, ends, Ended
    <3> QED
      BY <1>1, <2>2, <3>1 DEF IndInv, Standing
  <2> QED
    BY <2>3, <2>4, <2>6, <2>7, <2>8 DEF IndInv
<1> QED
  BY <1>2, <1>3

-----------------------------------------------------------------------------
(***************************************************************************)
(* The initialization task                                                 *)
(***************************************************************************)

(* What a step of initialization i leaves alone, and what it does not start. *)
StepOf(i) ==
  /\ UNCHANGED <<initTask, calls, ends>>
  /\ \A j \in Inits \ {i} : phase'[j] = phase[j] /\ child'[j] = child[j]
  /\ phase'[i] # "none"

LEMMA WorkKeeps ==
  ASSUME IndInv, NEW i \in Inits, StepOf(i), Running(i)
  PROVE  /\ RunningIsCurrent' /\ AwaitsBegun' /\ CurrentBegun' /\ ClosingDown'
         /\ ~raced => i = initTask /\ ~shutting
<1>1. ~raced => i = initTask /\ ~shutting
  BY DEF IndInv, RunningIsCurrent, ClosingDown
<1>2. \A j \in Inits \ {i} : Running(j)' <=> Running(j)
  BY DEF StepOf, Running
<1>3. RunningIsCurrent'
  BY <1>1, <1>2 DEF IndInv, RunningIsCurrent, StepOf, ends
<1>4. AwaitsBegun'
  BY DEF IndInv, AwaitsBegun, StepOf, calls
<1>5. CurrentBegun'
  BY DEF IndInv, TypeOK, CurrentBegun, StepOf
<1>6. ClosingDown'
  BY <1>1 DEF IndInv, TypeOK, ClosingDown, StepOf, ends
<1> QED
  BY <1>1, <1>3, <1>4, <1>5, <1>6

LEMMA WorkInv ==
  ASSUME IndInv, NEW i \in Inits, Work(i)
  PROVE  IndInv'
<1>1. TypeOK
  BY DEF IndInv
<1>2. CASE Connect(i)
  <2>1. /\ phase' = [phase EXCEPT ![i] = "adapters"] /\ phase[i] = "connecting"
        /\ child' = [child EXCEPT ![i] = [a \in Adapters |-> "running"]]
        /\ connected' = TRUE /\ UNCHANGED <<initialized, initTask, up, calls, ends>>
    BY <1>2 DEF Connect
  <2>2. phase'[i] = "adapters" /\ (\A a \in Adapters : child'[i][a] = "running") /\ StepOf(i) /\ Running(i)
    BY <1>1, <2>1 DEF TypeOK, StepOf, Running
  <2>3. TypeOK'
    BY <1>1, <2>1 DEF TypeOK, Phases, calls, ends
  <2>4. PhasesAgree'
    BY <1>1, <2>1, <2>2 DEF IndInv, PhasesAgree, StepOf
  <2>5. Standing'
    BY <1>1, <2>1, <2>2, WorkKeeps DEF IndInv, TypeOK, Standing, StepOf, ends
  <2> QED
    BY <2>2, <2>3, <2>4, <2>5, WorkKeeps DEF IndInv
<1>3. CASE ConnectFails(i)
  <2>1. /\ phase' = [phase EXCEPT ![i] = "failed"] /\ phase[i] = "connecting"
        /\ UNCHANGED <<initialized, initTask, child, connected, up, calls, ends>>
    BY <1>3 DEF ConnectFails
  <2>2. phase'[i] = "failed" /\ StepOf(i) /\ Running(i)
    BY <1>1, <2>1 DEF TypeOK, StepOf, Running
  <2>3. TypeOK'
    BY <1>1, <2>1 DEF TypeOK, Phases, calls, ends
  <2>4. PhasesAgree'
    BY <1>1, <2>1, <2>2 DEF IndInv, PhasesAgree, StepOf
  <2>5. Standing'
    BY <1>1, <2>1, <2>2, WorkKeeps DEF IndInv, TypeOK, Standing, StepOf, ends
  <2> QED
    BY <2>2, <2>3, <2>4, <2>5, WorkKeeps DEF IndInv
<1>4. CASE Finish(i)
  <2>1. /\ phase' = [phase EXCEPT ![i] = "ok"] /\ phase[i] = "adapters"
        /\ \A a \in Adapters : child[i][a] = "done"
        /\ initialized' = TRUE /\ UNCHANGED <<initTask, child, connected, up, calls, ends>>
    BY <1>4 DEF Finish
  <2>2. phase'[i] = "ok" /\ StepOf(i) /\ Running(i)
    BY <1>1, <2>1 DEF TypeOK, StepOf, Running
  <2>3. TypeOK'
    BY <1>1, <2>1 DEF TypeOK, Phases, calls, ends
  <2>4. PhasesAgree'
    BY <1>1, <2>1, <2>2 DEF IndInv, PhasesAgree, StepOf
  <2>5. Standing'
    BY <1>1, <2>1, <2>2, WorkKeeps DEF IndInv, TypeOK, Standing, StepOf, ends
  <2> QED
    BY <2>2, <2>3, <2>4, <2>5, WorkKeeps DEF IndInv
<1>5. ASSUME NEW a \in Adapters, AdapterReady(i, a)
      PROVE  IndInv'
  <2>1. /\ child' = [child EXCEPT ![i][a] = "done"] /\ child[i][a] = "running" /\ up' = up \cup {a}
        /\ UNCHANGED <<initialized, initTask, phase, connected, calls, ends>>
    BY <1>5 DEF AdapterReady
  <2>2. /\ \A b \in Adapters \ {a} : child'[i][b] = child[i][b]
        /\ child'[i][a] = "done" /\ phase[i] \notin {"none", "connecting", "ok"}
    BY <1>1, <2>1 DEF IndInv, TypeOK, PhasesAgree
  <2>3. StepOf(i) /\ Running(i)
    BY <1>1, <2>1, <2>2 DEF TypeOK, StepOf, Running
  <2>4. TypeOK'
    BY <1>1, <2>1 DEF TypeOK, calls, ends
  <2>5. PhasesAgree'
    BY <1>1, <2>1, <2>2, <2>3 DEF IndInv, PhasesAgree, StepOf
  <2>6. Standing'
    BY <1>1, <2>1, <2>2, <2>3, WorkKeeps DEF IndInv, TypeOK, Standing, StepOf, ends
  <2> QED
    BY <2>3, <2>4, <2>5, <2>6, WorkKeeps DEF IndInv
<1>6. ASSUME NEW a \in Adapters, AdapterFails(i, a)
      PROVE  IndInv'
  <2>1. /\ child' = [child EXCEPT ![i][a] = "failed"] /\ child[i][a] = "running"
        /\ phase' = [phase EXCEPT ![i] = "failed"]
        /\ UNCHANGED <<initialized, initTask, connected, up, calls, ends>>
    BY <1>6 DEF AdapterFails
  <2>2. /\ \A b \in Adapters \ {a} : child'[i][b] = child[i][b]
        /\ child'[i][a] = "failed" /\ phase'[i] = "failed" /\ phase[i] \notin {"none", "connecting", "ok"}
    BY <1>1, <2>1 DEF IndInv, TypeOK, PhasesAgree
  <2>3. StepOf(i) /\ Running(i)
    BY <1>1, <2>1, <2>2 DEF TypeOK, StepOf, Running
  <2>4. TypeOK'
    BY <1>1, <2>1 DEF TypeOK, Phases, calls, ends
  <2>5. PhasesAgree'
    BY <1>1, <2>1, <2>2, <2>3 DEF IndInv, PhasesAgree, StepOf
  <2>6. Standing'
    BY <1>1, <2>1, <2>2, <2>3, WorkKeeps DEF IndInv, TypeOK, Standing, StepOf, ends
  <2> QED
    BY <2>3, <2>4, <2>5, <2>6, WorkKeeps DEF IndInv
<1> QED
  BY <1>2, <1>3, <1>4, <1>5, <1>6 DEF Work

-----------------------------------------------------------------------------
(***************************************************************************)
(* Shutdown                                                                *)
(***************************************************************************)

LEMMA ShutdownInv ==
  ASSUME IndInv, StartShutdown \/ Shutdown
  PROVE  IndInv'
<1>1. TypeOK /\ UNCHANGED <<phase, child, request, awaits>>
  BY DEF IndInv, StartShutdown, Shutdown, Disconnect, DisconnectFails, FinishShutdown, FinishShutdownFails,
     inits, calls
<1>2. PhasesAgree' /\ AwaitsBegun' /\ \A i \in Inits : Running(i)' <=> Running(i)
  BY <1>1 DEF IndInv, PhasesAgree, AwaitsBegun, Running
<1>3. CASE StartShutdown
  <2>1. TypeOK'
    BY <1>1, <1>3 DEF StartShutdown, TypeOK, inits, calls
  <2>2. RunningIsCurrent' /\ CurrentBegun' /\ Standing' /\ ClosingDown'
    BY <1>1, <1>2, <1>3 DEF StartShutdown, IndInv, TypeOK, RunningIsCurrent, CurrentBegun, Standing,
       ClosingDown, inits
  <2> QED
    BY <1>2, <2>1, <2>2 DEF IndInv
<1>4. ASSUME NEW a \in Adapters, Disconnect(a) \/ DisconnectFails(a)
      PROVE  IndInv'
  <2>1. /\ UNCHANGED <<inits, connected, calls, shutting, shutdowns, raced>> /\ shutting
        /\ closing' = closing \ {a} /\ (up' = up \ {a} \/ (up' = up /\ a \in Fragile))
    BY <1>4 DEF Disconnect, DisconnectFails, IndInv, ClosingDown
  <2>2. TypeOK'
    BY <1>1, <2>1 DEF TypeOK, inits, calls
  <2>3. RunningIsCurrent' /\ CurrentBegun' /\ Standing' /\ ClosingDown'
    BY <1>1, <1>2, <2>1 DEF IndInv, RunningIsCurrent, CurrentBegun, Standing, ClosingDown, inits
  <2> QED
    BY <1>2, <2>2, <2>3 DEF IndInv
<1>5. CASE FinishShutdown
  <2>1. TypeOK'
    BY <1>1, <1>5 DEF FinishShutdown, TypeOK, calls
  <2>2. RunningIsCurrent' /\ CurrentBegun' /\ Standing' /\ ClosingDown'
    BY <1>1, <1>2, <1>5 DEF FinishShutdown, IndInv, RunningIsCurrent, CurrentBegun, Standing, ClosingDown
  <2> QED
    BY <1>2, <2>1, <2>2 DEF IndInv
<1>6. CASE FinishShutdownFails
  <2>1. TypeOK'
    BY <1>1, <1>6 DEF FinishShutdownFails, TypeOK, inits, calls
  <2>2. RunningIsCurrent' /\ CurrentBegun' /\ Standing' /\ ClosingDown'
    BY <1>1, <1>2, <1>6 DEF FinishShutdownFails, IndInv, RunningIsCurrent, CurrentBegun, Standing,
       ClosingDown, inits
  <2> QED
    BY <1>2, <2>1, <2>2 DEF IndInv
<1> QED
  BY <1>3, <1>4, <1>5, <1>6 DEF Shutdown

-----------------------------------------------------------------------------
(***************************************************************************)
(* The theorems                                                            *)
(***************************************************************************)

LEMMA NextInv ==
  IndInv /\ [Next]_vars => IndInv'
<1> SUFFICES ASSUME IndInv, [Next]_vars PROVE IndInv'
  OBVIOUS
<1>1. CASE UNCHANGED vars
  BY <1>1 DEF vars, inits, calls, ends, IndInv, TypeOK, PhasesAgree, Running, RunningIsCurrent, AwaitsBegun,
     CurrentBegun, Standing, ClosingDown
<1>2. ASSUME NEW c \in Callers, Caller(c) \/ Resume(c) \/ CancelCaller(c)
      PROVE  IndInv'
  BY <1>2, CallEarlyInv, RequestInv, CancelInv DEF Caller
<1>3. ASSUME NEW i \in Inits, Work(i)
      PROVE  IndInv'
  BY <1>3, WorkInv
<1>4. CASE StartShutdown \/ Shutdown
  BY <1>4, ShutdownInv
<1> QED
  BY <1>1, <1>2, <1>3, <1>4 DEF Next

(* The invariant behind the theorems below, for all constants. *)
THEOREM InvariantHolds == Spec => []IndInv
<1> QED
  BY InitInv, NextInv, PTL DEF Spec

(* However many webhooks arrive together, one initialization runs at a time,  *)
(* until a shutdown meets one (chat.py 208-232).                              *)
THEOREM InitializedOnce == Spec => []OneInitialization
<1>1. IndInv => OneInitialization
  BY DEF IndInv, RunningIsCurrent, OneInitialization
<1> QED
  BY <1>1, InvariantHolds, PTL

(* A request that is handled finds the state connected and every adapter      *)
(* initialized (chat.py 195-213).                                             *)
THEOREM HandledWhenReady == Spec => ReadyWhenHandled
<1> DEFINE Ready ==
      \A c \in Callers : request[c] # "handled" /\ request'[c] = "handled" =>
        (connected /\ up = Adapters) \/ shutting \/ raced
        \/ (request[c] = "awaiting" /\ awaits[c] # initTask)
<1>1. ASSUME IndInv, [Next]_vars
      PROVE  Ready
  <2> SUFFICES ASSUME NEW c \in Callers, request[c] # "handled", request'[c] = "handled",
                      ~shutting, ~raced, request[c] = "awaiting" => awaits[c] = initTask
               PROVE  connected /\ up = Adapters
    OBVIOUS
  <2>1. request \in [Callers -> {"idle", "awaiting", "handled", "failed", "cancelled"}] /\ up \subseteq Adapters
    BY <1>1 DEF IndInv, TypeOK
  <2>2. CallReady(c) \/ Resume(c)
    <3>1. ASSUME NEW d \in Callers, Caller(d) \/ Resume(d) \/ CancelCaller(d)
          PROVE  CallReady(c) \/ Resume(c)
      <4>1. d = c
        BY <2>1, <3>1 DEF Caller, CallEarly, Await, CallReady, Resume, CancelCaller
      <4>2. ~CancelCaller(c) /\ ~CallEarly(c)
        BY <2>1 DEF CallEarly, Await, CancelCaller
      <4> QED
        BY <3>1, <4>1, <4>2 DEF Caller
    <3>2. \A i \in Inits : ~Work(i)
      BY DEF Work, Connect, ConnectFails, Finish, AdapterReady, AdapterFails, calls
    <3>3. ~StartShutdown /\ ~Shutdown /\ ~UNCHANGED vars
      BY DEF StartShutdown, Shutdown, Disconnect, DisconnectFails, FinishShutdown, FinishShutdownFails,
         vars, calls
    <3> QED
      BY <1>1, <3>1, <3>2, <3>3 DEF Next
  <2>3. initTask \in Inits /\ phase[initTask] = "ok"
    <3>1. CASE CallReady(c)
      BY <1>1, <3>1 DEF CallReady, IndInv, TypeOK, Standing
    <3>2. CASE Resume(c)
      BY <1>1, <2>1, <3>2 DEF Resume, Ended, IndInv, AwaitsBegun
    <3> QED
      BY <2>2, <3>1, <3>2
  <2>4. \A a \in Adapters : a \in up
    BY <1>1, <2>3 DEF IndInv, PhasesAgree, Standing
  <2> QED
    BY <1>1, <2>1, <2>3, <2>4 DEF IndInv, Standing
<1>2. IndInv /\ [Next]_vars => [Ready]_vars
  BY <1>1
<1>3. Spec => [][Ready]_vars
  BY <1>2, InvariantHolds, PTL DEF Spec
<1> QED
  BY <1>3 DEF ReadyWhenHandled

(* A shutdown leaves up only adapters whose disconnect may fail (chat.py      *)
(* 238-260).                                                                  *)
THEOREM NothingForgotten == Spec => ShutdownReachesAll
<1> DEFINE Reached == shutting /\ ~shutting' /\ ~raced' => up' \subseteq Fragile
<1>1. ASSUME IndInv, [Next]_vars
      PROVE  Reached
  <2> SUFFICES ASSUME shutting, ~shutting', ~raced' PROVE up' \subseteq Fragile
    OBVIOUS
  <2>1. FinishShutdown
    BY <1>1 DEF Next, vars, Caller, CallEarly, CallReady, Resume, CancelCaller, Work, Connect, ConnectFails,
       Finish, AdapterReady, AdapterFails, StartShutdown, Shutdown, Disconnect, DisconnectFails,
       FinishShutdownFails, ends
  <2> QED
    BY <1>1, <2>1 DEF FinishShutdown, IndInv, ClosingDown
<1>2. IndInv /\ [Next]_vars => [Reached]_vars
  BY <1>1
<1>3. Spec => [][Reached]_vars
  BY <1>2, InvariantHolds, PTL DEF Spec
<1> QED
  BY <1>3 DEF ShutdownReachesAll
=============================================================================
