--------------------------- MODULE ChatLifecycle ----------------------------
(***************************************************************************)
(* Chat.initialize, the lazy initialization of handle_webhook, and         *)
(* Chat.shutdown (packages/chat/src/chat/chat.py 195-260).                 *)
(*                                                                         *)
(* The first webhook creates one task that connects the state adapter and  *)
(* then initializes all platform adapters under one gather; every webhook  *)
(* that comes before it has ended awaits that same task.  shutdown         *)
(* disconnects the adapters under a gather that collects the errors, then  *)
(* the state adapter, and forgets the task.  Nothing keeps a shutdown away *)
(* from an initialization that still runs.                                 *)
(***************************************************************************)
EXTENDS Naturals, FiniteSets

CONSTANTS
  Callers,        \* calls of handle_webhook and initialize
  Adapters,       \* platform adapters
  Fragile,        \* the adapters whose initialize or disconnect may raise
  StateFails,     \* whether the state adapter's connect and disconnect may raise
  MaxShutdowns    \* calls of shutdown, one after the other (a bound)

ASSUME LifecycleAssumption ==
  Fragile \subseteq Adapters /\ StateFails \in BOOLEAN /\ MaxShutdowns \in Nat

(* One initialization for every shutdown at most, and one before the first. *)
Inits == 1..(MaxShutdowns + 1)
None  == 0

VARIABLES
  initialized,    \* _initialized
  initTask,       \* _init_task: the task created last, or None
  phase,          \* per initialization: where its task is
  child,          \* per initialization and adapter: the coroutine of the gather
  connected,      \* the state adapter's connection
  up,             \* the adapters that are initialized and not disconnected
  request,        \* per caller: "idle", "awaiting", or how it went on
  awaits,         \* per caller: the initialization it awaits
  closing,        \* the adapters a shutdown still has to disconnect
  shutting,       \* a shutdown is under way
  shutdowns,      \* shutdowns begun
  raced           \* auxiliary: a shutdown met an initialization, or could not disconnect

inits == <<initialized, initTask, phase, child>>
calls == <<request, awaits>>
ends  == <<closing, shutting, shutdowns, raced>>
vars  == <<inits, connected, up, calls, ends>>

Init ==
  /\ initialized = FALSE
  /\ initTask = None
  /\ phase = [i \in Inits |-> "none"]
  /\ child = [i \in Inits |-> [a \in Adapters |-> "none"]]
  /\ connected = FALSE
  /\ up = {}
  /\ request = [c \in Callers |-> "idle"]
  /\ awaits = [c \in Callers |-> None]
  /\ closing = {}
  /\ shutting = FALSE
  /\ shutdowns = 0
  /\ raced = FALSE

-----------------------------------------------------------------------------
(***************************************************************************)
(* Callers                                                                 *)
(***************************************************************************)

Unused == {i \in Inits : phase[i] = "none"}

(* create_task(_do_initialize()), which begins with state.connect(). *)
NewInit(i) ==
  /\ \A j \in Unused : i <= j
  /\ initTask' = i
  /\ phase' = [phase EXCEPT ![i] = "connecting"]
  /\ raced' = (raced \/ shutting)
  /\ UNCHANGED <<initialized, child>>

Await(c, i) ==
  /\ request' = [request EXCEPT ![c] = "awaiting"]
  /\ awaits' = [awaits EXCEPT ![c] = i]

(* Mutant: every early caller starts an initialization. *)
CallEarlyAlone(c) ==
  /\ request[c] = "idle"
  /\ ~initialized
  /\ \E i \in Unused : NewInit(i) /\ Await(c, i)
  /\ UNCHANGED <<connected, up, closing, shutting, shutdowns>>

CallEarly(c) ==
  /\ request[c] = "idle"
  /\ ~initialized
  /\ IF initTask = None
       THEN \E i \in Unused : NewInit(i) /\ Await(c, i)
       ELSE Await(c, initTask) /\ UNCHANGED <<inits, raced>>
  /\ UNCHANGED <<connected, up, closing, shutting, shutdowns>>

(* The request goes to the adapter in the same step. *)
CallReady(c) ==
  /\ request[c] = "idle"
  /\ initialized
  /\ request' = [request EXCEPT ![c] = "handled"]
  /\ UNCHANGED <<inits, connected, up, awaits, ends>>

Ended(i) == phase[i] \in {"ok", "failed", "cancelled"}

(* Mutant: what the task returned is taken for how the request went on. *)
ResumeRaw(c) ==
  /\ request[c] = "awaiting"
  /\ Ended(awaits[c])
  /\ request' = [request EXCEPT ![c] = phase[awaits[c]]]
  /\ UNCHANGED <<inits, connected, up, awaits, ends>>

(* The awaited task has ended: the request goes to the adapter, without a      *)
(* second look at _initialized, or raises what the task raised.                *)
Resume(c) ==
  /\ request[c] = "awaiting"
  /\ Ended(awaits[c])
  /\ request' = [request EXCEPT ![c] = IF phase[awaits[c]] = "ok" THEN "handled" ELSE phase[awaits[c]]]
  /\ UNCHANGED <<inits, connected, up, awaits, ends>>

(* Cancelling a caller cancels the task it awaits, and with it every coroutine *)
(* of the gather; the other callers get the CancelledError as well.            *)
CancelCaller(c) ==
  LET i == awaits[c]
  IN  /\ request[c] = "awaiting"
      /\ request' = [request EXCEPT ![c] = "cancelled"]
      /\ IF Ended(i)
           THEN UNCHANGED inits
           ELSE /\ phase' = [phase EXCEPT ![i] = "cancelled"]
                /\ child' = [child EXCEPT ![i] = [a \in Adapters |->
                               IF child[i][a] = "running" THEN "failed" ELSE child[i][a]]]
                /\ UNCHANGED <<initialized, initTask>>
      /\ UNCHANGED <<connected, up, awaits, ends>>

-----------------------------------------------------------------------------
(***************************************************************************)
(* The initialization task                                                 *)
(***************************************************************************)

Connect(i) ==
  /\ phase[i] = "connecting"
  /\ connected' = TRUE
  /\ phase' = [phase EXCEPT ![i] = "adapters"]
  /\ child' = [child EXCEPT ![i] = [a \in Adapters |-> "running"]]
  /\ UNCHANGED <<initialized, initTask, up, calls, ends>>

ConnectFails(i) ==
  /\ StateFails
  /\ phase[i] = "connecting"
  /\ phase' = [phase EXCEPT ![i] = "failed"]
  /\ UNCHANGED <<initialized, initTask, child, connected, up, calls, ends>>

AdapterReady(i, a) ==
  /\ child[i][a] = "running"
  /\ child' = [child EXCEPT ![i][a] = "done"]
  /\ up' = up \cup {a}
  /\ UNCHANGED <<initialized, initTask, phase, connected, calls, ends>>

(* Mutant: the gather waits for all and swallows the failure of one. *)
AdapterFailsQuietly(i, a) ==
  /\ a \in Fragile
  /\ child[i][a] = "running"
  /\ child' = [child EXCEPT ![i][a] = "done"]
  /\ UNCHANGED <<initialized, initTask, phase, connected, up, calls, ends>>

(* Mutant: the failure is not seen until every coroutine is done. *)
AdapterFailsUnseen(i, a) ==
  /\ a \in Fragile
  /\ child[i][a] = "running"
  /\ child' = [child EXCEPT ![i][a] = "failed"]
  /\ UNCHANGED <<initialized, initTask, phase, connected, up, calls, ends>>

(* The gather raises at the first failure; its other coroutines run on. *)
AdapterFails(i, a) ==
  /\ a \in Fragile
  /\ child[i][a] = "running"
  /\ child' = [child EXCEPT ![i][a] = "failed"]
  /\ phase' = [phase EXCEPT ![i] = "failed"]
  /\ UNCHANGED <<initialized, initTask, connected, up, calls, ends>>

Finish(i) ==
  /\ phase[i] = "adapters"
  /\ \A a \in Adapters : child[i][a] = "done"
  /\ phase' = [phase EXCEPT ![i] = "ok"]
  /\ initialized' = TRUE
  /\ UNCHANGED <<initTask, child, connected, up, calls, ends>>

Running(i) ==
  \/ phase[i] \in {"connecting", "adapters"}
  \/ \E a \in Adapters : child[i][a] = "running"

-----------------------------------------------------------------------------
(***************************************************************************)
(* Shutdown                                                                *)
(***************************************************************************)

StartShutdown ==
  /\ ~shutting
  /\ shutdowns < MaxShutdowns
  /\ shutting' = TRUE
  /\ closing' = Adapters
  /\ shutdowns' = shutdowns + 1
  /\ raced' = (raced \/ \E i \in Inits : Running(i))
  /\ UNCHANGED <<inits, connected, up, calls>>

Disconnect(a) ==
  /\ a \in closing
  /\ closing' = closing \ {a}
  /\ up' = up \ {a}
  /\ UNCHANGED <<inits, connected, calls, shutting, shutdowns, raced>>

(* Mutant: the gather of the disconnects gives up at the first failure. *)
DisconnectFailsAll(a) ==
  /\ a \in closing \cap Fragile
  /\ closing' = {}
  /\ UNCHANGED <<inits, connected, up, calls, shutting, shutdowns, raced>>

(* The failure is logged. *)
DisconnectFails(a) ==
  /\ a \in closing \cap Fragile
  /\ closing' = closing \ {a}
  /\ UNCHANGED <<inits, connected, up, calls, shutting, shutdowns, raced>>

(* state.disconnect() returned. *)
FinishShutdown ==
  /\ shutting
  /\ closing = {}
  /\ connected' = FALSE
  /\ initialized' = FALSE
  /\ initTask' = None
  /\ shutting' = FALSE
  /\ raced' = (raced \/ \E i \in Inits : Running(i))
  /\ UNCHANGED <<phase, child, up, calls, closing, shutdowns>>

(* It raised: the flags stay, over adapters that are disconnected. *)
FinishShutdownFails ==
  /\ StateFails
  /\ shutting
  /\ closing = {}
  /\ connected' \in {connected, FALSE}
  /\ shutting' = FALSE
  /\ raced' = TRUE
  /\ UNCHANGED <<inits, up, calls, closing, shutdowns>>

-----------------------------------------------------------------------------

Caller(c) == CallEarly(c) \/ CallReady(c)

Work(i) ==
  \/ Connect(i) \/ ConnectFails(i) \/ Finish(i)
  \/ \E a \in Adapters : AdapterReady(i, a) \/ AdapterFails(i, a)

Shutdown ==
  \/ \E a \in Adapters : Disconnect(a) \/ DisconnectFails(a)
  \/ FinishShutdown
  \/ FinishShutdownFails

Next ==
  \/ \E c \in Callers : Caller(c) \/ Resume(c) \/ CancelCaller(c)
  \/ \E i \in Inits : Work(i)
  \/ StartShutdown
  \/ Shutdown

Spec == Init /\ [][Next]_vars

(* The event loop resumes what is ready, and the adapters' calls end. *)
FairSpec ==
  /\ Spec
  /\ \A c \in Callers : WF_vars(Resume(c))
  /\ \A i \in Inits : WF_vars(Work(i))
  /\ WF_vars(Shutdown)

-----------------------------------------------------------------------------
(***************************************************************************)
(* Properties                                                              *)
(***************************************************************************)

Phases == {"none", "connecting", "adapters", "ok", "failed", "cancelled"}

(* Every variable has its type. *)
TypeOK ==
  /\ initialized \in BOOLEAN
  /\ initTask \in Inits \cup {None}
  /\ phase \in [Inits -> Phases]
  /\ child \in [Inits -> [Adapters -> {"none", "running", "done", "failed"}]]
  /\ connected \in BOOLEAN
  /\ up \subseteq Adapters
  /\ request \in [Callers -> {"idle", "awaiting", "handled", "failed", "cancelled"}]
  /\ awaits \in [Callers -> Inits \cup {None}]
  /\ closing \subseteq Adapters
  /\ shutting \in BOOLEAN
  /\ shutdowns \in 0..MaxShutdowns
  /\ raced \in BOOLEAN

(* A request is handled only by a chat whose state is connected and whose     *)
(* adapters are all initialized, whatever failures, cancellations and         *)
(* earlier shutdowns went before: unless a shutdown is under way, met an      *)
(* initialization, failed, or ended before the caller's task resumed.         *)
ReadyWhenHandled ==
  [][\A c \in Callers : request[c] # "handled" /\ request'[c] = "handled" =>
       (connected /\ up = Adapters) \/ shutting \/ raced
         \/ (request[c] = "awaiting" /\ awaits[c] # initTask)]_vars

(* However many webhooks arrive together, the state and each adapter are      *)
(* initialized by one task at a time, unless a shutdown met an initialization.*)
OneInitialization ==
  ~raced => \A i, j \in Inits : Running(i) /\ Running(j) => i = j

(* A shutdown leaves no adapter up but those whose disconnect failed, and it  *)
(* tries every one of them though others fail.                                *)
ShutdownReachesAll ==
  [][shutting /\ ~shutting' /\ ~raced' => up' \subseteq Fragile]_vars

(* shutdown shuts down adapters and state (its docstring): until the next     *)
(* call asks for an initialization, they stay down.                           *)
StaysDown ==
  shutdowns > 0 /\ ~shutting /\ initTask = None => ~initialized /\ ~connected /\ up = {}

(* Every call comes to an end, though adapters fail, callers are cancelled    *)
(* and shutdowns run; and so does every shutdown.                             *)
CallsEnd ==
  /\ \A c \in Callers : request[c] = "awaiting" ~> request[c] # "awaiting"
  /\ shutting ~> ~shutting

-----------------------------------------------------------------------------
(***************************************************************************)
(* The inductive invariant behind them                                     *)
(***************************************************************************)

(* An initialization that was not begun has no coroutine; one that succeeded  *)
(* has none left.                                                             *)
PhasesAgree ==
  \A i \in Inits :
    /\ phase[i] \in {"none", "connecting"} => \A a \in Adapters : child[i][a] = "none"
    /\ phase[i] = "ok" => \A a \in Adapters : child[i][a] = "done"

(* What runs is the task the chat knows. *)
RunningIsCurrent == ~raced => \A i \in Inits : Running(i) => i = initTask

AwaitsBegun == \A c \in Callers : request[c] = "awaiting" => awaits[c] \in Inits /\ phase[awaits[c]] # "none"

CurrentBegun == initTask # None => phase[initTask] # "none"

(* Without a shutdown under way, what the current initialization has done     *)
(* still stands.                                                              *)
Standing ==
  ~raced /\ ~shutting =>
    /\ initialized => initTask # None /\ phase[initTask] = "ok"
    /\ initTask # None =>
         /\ phase[initTask] \in {"adapters", "ok"} => connected
         /\ \A a \in Adapters : child[initTask][a] = "done" => a \in up

(* During a shutdown that met no initialization none runs, and what is still  *)
(* up is to be disconnected or could not be.                                  *)
ClosingDown ==
  /\ closing # {} => shutting
  /\ ~raced /\ shutting => up \subseteq closing \cup Fragile /\ \A i \in Inits : ~Running(i)

IndInv ==
  /\ TypeOK
  /\ PhasesAgree
  /\ RunningIsCurrent
  /\ AwaitsBegun
  /\ CurrentBegun
  /\ Standing
  /\ ClosingDown
=============================================================================
