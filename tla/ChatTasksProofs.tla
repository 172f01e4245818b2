--------------------------- MODULE ChatTasksProofs --------------------------
(***************************************************************************)
(* What holds of the tasks of the chat for any constants.                  *)
(***************************************************************************)
EXTENDS ChatTasks, WellFoundedInduction, FiniteSetTheorems, TLAPS

USE PollingAssumption DEF Loops

-----------------------------------------------------------------------------
(***************************************************************************)
(* Types                                                                   *)
(***************************************************************************)

LEMMA NextOffsetType ==
  ASSUME TypeOK, NEW l \in Loops
  PROVE  /\ Confirmed(l) \in Nat \ {0}
         /\ Answer(l) \subseteq Nat /\ NextOffset(l, Answer(l)) \in Nat
         /\ \A u \in 1..(NextOffset(l, Answer(l)) - 1) : u < Confirmed(l) \/ u < offset[l] \/ u \in Answer(l)
<1>1. offset[l] \in Nat /\ confirmed \in Nat \ {0} /\ arrived \in Nat
  BY DEF TypeOK
<1>2. Confirmed(l) \in Nat \ {0}
  BY <1>1 DEF Confirmed
<1>3. PICK first : first = Confirmed(l)
  OBVIOUS
<1>4. Answer(l) = {u \in first..arrived : u < first + Limit}
  BY <1>3 DEF Answer
<1>5. Answer(l) \subseteq Nat
  BY <1>1, <1>2, <1>3, <1>4
<1>6. CASE Answer(l) = {}
  BY <1>1, <1>2, <1>6 DEF NextOffset
<1>7. CASE Answer(l) # {}
  <2>1. first <= arrived
    BY <1>1, <1>2, <1>3, <1>4, <1>7
  <2>2. PICK final : final = IF arrived < first + Limit - 1 THEN arrived ELSE first + Limit - 1
    OBVIOUS
  <2>3. final \in Answer(l) /\ \A v \in Answer(l) : v <= final
    BY <1>1, <1>2, <1>3, <1>4, <2>1, <2>2
  <2>4. PICK top : top = CHOOSE u \in Answer(l) : \A v \in Answer(l) : v <= u
    OBVIOUS
  <2>5. top \in Answer(l) /\ \A v \in Answer(l) : v <= top
    BY <2>3, <2>4
  <2>6. top = final
    BY <1>1, <1>2, <1>3, <1>4, <2>3, <2>5
  <2>7. NextOffset(l, Answer(l)) = final + 1
    BY <1>7, <2>4, <2>6 DEF NextOffset
  <2>8. first \in Nat \ {0} /\ final \in Nat
    BY <1>1, <1>2, <1>3, <1>4, <2>3
  <2>9. ASSUME NEW u \in 1..final PROVE u < first \/ u \in Answer(l)
    BY <1>1, <1>4, <2>2, <2>8
  <2>10. (final + 1) - 1 = final /\ final + 1 \in Nat
    BY <2>8
  <2> QED
    BY <1>2, <1>3, <1>5, <2>7, <2>9, <2>10
<1> QED
  BY <1>6, <1>7

LEMMA InitType == Init => TypeOK
<1> SUFFICES ASSUME Init PROVE TypeOK
  OBVIOUS
<1>1. /\ active \in BOOLEAN /\ mode \in {"webhook", "polling"} /\ overlap \in BOOLEAN
      /\ stopEvent \in Callers \cup {Nobody} /\ task \in Loops \cup {Nobody} /\ isSet \subseteq Callers
  BY DEF Init
<1>2. /\ loop \in [Loops -> {"none", "created", "requesting", "waiting", "ended"}]
      /\ event \in [Loops -> Callers \cup {Nobody}] /\ offset \in [Loops -> Nat]
  BY DEF Init
<1>3. /\ call \in [Callers -> {"idle", "resetting", "joining", "returned", "raised"}]
      /\ before \in [Callers -> {"webhook", "polling"}] /\ joins \in [Callers -> Loops \cup {Nobody}]
  BY DEF Init
<1> QED
  BY <1>1, <1>2, <1>3 DEF Init, TypeOK

LEMMA CallsType ==
  ASSUME TypeOK, NEW c \in Callers, Begin(c) \/ Proceed(c) \/ StartCancelled(c) \/ StopCancelled(c)
  PROVE  TypeOK'
<1>1. CASE StartActive(c) \/ StopInactive(c) \/ StartCancelled(c)
  BY <1>1 DEF TypeOK, StartActive, StopInactive, StartCancelled, Meets, fields, loops, server
<1>2. CASE StartResetting(c)
  BY <1>2 DEF TypeOK, StartResetting, Meets, loops, server
<1>3. CASE StartAtOnce(c)
  BY <1>3 DEF TypeOK, StartAtOnce, CreateLoop, Meets, server
<1>4. CASE Stop(c)
  <2>1. isSet' \subseteq Callers /\ overlap' \in BOOLEAN /\ active' \in BOOLEAN
    BY <1>4 DEF TypeOK, Stop, SetStop, Meets
  <2>2. /\ call' \in [Callers -> {"idle", "resetting", "joining", "returned", "raised"}]
        /\ joins' \in [Callers -> Loops \cup {Nobody}] /\ stopEvent' \in Callers \cup {Nobody}
    BY <1>4 DEF TypeOK, Stop
  <2> QED
    BY <1>4, <2>1, <2>2 DEF TypeOK, Stop, loops, server
<1>5. CASE ResetReturns(c) \/ ResetFails(c)
  BY <1>5 DEF TypeOK, ResetReturns, ResetFails, CreateLoop, loops, server
<1>6. CASE StopReturns(c)
  BY <1>6 DEF TypeOK, StopReturns, loops, server
<1>7. CASE StopCancelled(c)
  BY <1>7 DEF TypeOK, StopCancelled, fields, calls, server
<1> QED
  BY <1>1, <1>2, <1>3, <1>4, <1>5, <1>6, <1>7 DEF Begin, Proceed

LEMMA LoopsType ==
  ASSUME TypeOK, NEW l \in Loops, Run(l)
  PROVE  TypeOK'
<1>1. CASE LoopBegins(l)
  BY <1>1 DEF TypeOK, LoopBegins, LoopHead, fields, calls, server
<1>2. CASE UpdatesCome(l)
  <2>1. confirmed' \in Nat \ {0} /\ processed' \subseteq Nat /\ offset' \in [Loops -> Nat]
    BY <1>2, NextOffsetType DEF TypeOK, UpdatesCome
  <2> QED
    BY <1>2, <2>1 DEF TypeOK, UpdatesCome, LoopHead, fields, calls
<1>3. CASE RequestFails(l)
  BY <1>3, NextOffsetType DEF TypeOK, RequestFails, fields, calls
<1>4. CASE StopWakes(l) \/ BackoffOver(l)
  BY <1>4 DEF TypeOK, StopWakes, BackoffOver, LoopHead, fields, calls, server
<1> QED
  BY <1>1, <1>2, <1>3, <1>4 DEF Run

LEMMA NextType ==
  TypeOK /\ [Next]_vars => TypeOK'
<1> SUFFICES ASSUME TypeOK, [Next]_vars PROVE TypeOK'
  OBVIOUS
<1>1. CASE UpdateArrives
  BY <1>1 DEF TypeOK, UpdateArrives, fields, loops, calls
<1>2. CASE UNCHANGED vars
  BY <1>2 DEF TypeOK, vars, fields, loops, calls, server
<1> QED
  BY <1>1, <1>2, CallsType, LoopsType DEF Next

-----------------------------------------------------------------------------
(***************************************************************************)
(* No update is lost                                                       *)
(***************************************************************************)

LEMMA InitUpdates == Init => UpdatesInv
BY InitType DEF Init, UpdatesInv, NoUpdateLost, OffsetsBacked

(* What a request confirms was processed, for the offset it bears or the     *)
(* server has is backed.                                                     *)
LEMMA ConfirmedBacked ==
  ASSUME UpdatesInv, NEW l \in Loops
  PROVE  \A u \in 1..(Confirmed(l) - 1) : u \in processed
BY DEF UpdatesInv, NoUpdateLost, OffsetsBacked, Confirmed

LEMMA NextUpdates ==
  UpdatesInv /\ [Next]_vars => UpdatesInv'
<1> SUFFICES ASSUME UpdatesInv, [Next]_vars PROVE UpdatesInv'
  OBVIOUS
<1>1. TypeOK /\ TypeOK'
  BY NextType DEF UpdatesInv
<1>2. ASSUME NEW l \in Loops, UpdatesCome(l)
      PROVE  NoUpdateLost' /\ OffsetsBacked'
  <2>1. confirmed' = Confirmed(l) /\ processed' = processed \cup Answer(l)
        /\ offset' = [offset EXCEPT ![l] = NextOffset(l, Answer(l))]
    BY <1>2 DEF UpdatesCome
  <2>2. NoUpdateLost'
    BY <2>1, ConfirmedBacked DEF NoUpdateLost
  <2>3. \A u \in 1..(NextOffset(l, Answer(l)) - 1) : u \in processed'
    <3>1. Confirmed(l) \in Nat /\ offset[l] \in Nat /\ NextOffset(l, Answer(l)) \in Nat
      BY <1>1, NextOffsetType DEF TypeOK
    <3>2. \A u \in 1..(offset[l] - 1) : u \in processed
      BY DEF UpdatesInv, OffsetsBacked
    <3> QED
      BY <1>1, <2>1, <3>1, <3>2, ConfirmedBacked, NextOffsetType
  <2>4. \A m \in Loops \ {l} : offset'[m] = offset[m]
    BY <1>1, <2>1 DEF TypeOK
  <2>5. offset'[l] = NextOffset(l, Answer(l))
    BY <1>1, <2>1 DEF TypeOK
  <2>6. OffsetsBacked'
    BY <2>1, <2>3, <2>4, <2>5 DEF UpdatesInv, OffsetsBacked
  <2> QED
    BY <2>2, <2>6
<1>3. ASSUME NEW l \in Loops, RequestFails(l)
      PROVE  NoUpdateLost' /\ OffsetsBacked'
  BY <1>3, ConfirmedBacked DEF RequestFails, UpdatesInv, NoUpdateLost, OffsetsBacked
<1>4. CASE UNCHANGED <<confirmed, processed, offset>>
  BY <1>1, <1>4 DEF UpdatesInv, NoUpdateLost, OffsetsBacked
<1>5. \/ \E l \in Loops : UpdatesCome(l) \/ RequestFails(l)
      \/ UNCHANGED <<confirmed, processed, offset>>
  <2>1. ASSUME NEW c \in Callers, Begin(c) \/ Proceed(c) \/ StartCancelled(c) \/ StopCancelled(c)
        PROVE  UNCHANGED <<confirmed, processed, offset>>
    <3>1. CASE Begin(c)
      BY <3>1 DEF Begin, StartActive, StartResetting, StartAtOnce, StopInactive, Stop, CreateLoop, loops, server
    <3>2. CASE Proceed(c) \/ StartCancelled(c) \/ StopCancelled(c)
      BY <3>2 DEF Proceed, ResetReturns, ResetFails, StopReturns, StartCancelled, StopCancelled, CreateLoop, loops, server
    <3> QED
      BY <2>1, <3>1, <3>2
  <2>2. ASSUME NEW l \in Loops, Run(l), ~UpdatesCome(l), ~RequestFails(l)
        PROVE  UNCHANGED <<confirmed, processed, offset>>
    BY <2>2 DEF Run, LoopBegins, StopWakes, BackoffOver, server
  <2>3. CASE UpdateArrives \/ UNCHANGED vars
    BY <2>3 DEF UpdateArrives, vars, loops, server
  <2> QED
    BY <2>1, <2>2, <2>3 DEF Next
<1> QED
  BY <1>1, <1>2, <1>3, <1>4, <1>5 DEF UpdatesInv

-----------------------------------------------------------------------------
(***************************************************************************)
(* One loop                                                                *)
(***************************************************************************)

LEMMA InitLoops == Init => LoopsInv
BY InitType DEF Init, LoopsInv, OneLoop, TaskIsLoop, Pending, Running

(* Where no call is pending, the loop that runs is the task, and the flag is *)
(* set.                                                                      *)
LEMMA OnlyTheTaskRuns ==
  ASSUME LoopsInv, ~overlap, \A c \in Callers : ~Pending(c)
  PROVE  \A l \in Loops : Running(l) => task = l /\ active
BY DEF LoopsInv, OneLoop, TaskIsLoop, Pending

LEMMA BeginLoops ==
  ASSUME LoopsInv, NEW c \in Callers, Begin(c), ~overlap'
  PROVE  OneLoop' /\ TaskIsLoop'
<1>1. TypeOK /\ ~overlap /\ \A d \in Callers : ~Pending(d)
  BY DEF LoopsInv, Begin, StartActive, StartResetting, StartAtOnce, StopInactive, Stop, Meets
<1>2. \A l \in Loops : Running(l) => task = l /\ active
  BY <1>1, OnlyTheTaskRuns
<1>3. CASE StartActive(c) \/ StopInactive(c)
  <2>1. \A d \in Callers : call'[d] # "joining" /\ call'[d] # "resetting"
    BY <1>1, <1>3 DEF StartActive, StopInactive, TypeOK, Pending
  <2>2. UNCHANGED <<active, task, loop>>
    BY <1>3 DEF StartActive, StopInactive, fields, loops
  <2> QED
    BY <1>2, <2>1, <2>2 DEF OneLoop, TaskIsLoop, Pending, Running
<1>4. CASE StartResetting(c)
  <2>1. \A d \in Callers : call'[d] # "joining" /\ (call'[d] = "resetting" => d = c)
    BY <1>1, <1>4 DEF StartResetting, TypeOK, Pending
  <2>2. active' /\ ~active /\ UNCHANGED <<task, loop>>
    BY <1>4 DEF StartResetting, loops
  <2> QED
    BY <1>2, <2>1, <2>2 DEF OneLoop, TaskIsLoop, Pending, Running
<1>5. CASE StartAtOnce(c)
  <2>1. \A d \in Callers : call'[d] # "joining" /\ call'[d] # "resetting"
    BY <1>1, <1>5 DEF StartAtOnce, TypeOK, Pending
  <2>2. active' /\ ~active /\ task' = c /\ \A l \in Loops \ {c} : loop'[l] = loop[l]
    BY <1>1, <1>5 DEF StartAtOnce, CreateLoop, TypeOK
  <2> QED
    BY <1>2, <2>1, <2>2 DEF OneLoop, TaskIsLoop, Pending, Running
<1>6. CASE Stop(c)
  <2>1. ~active' /\ UNCHANGED <<task, loop>>
    BY <1>6 DEF Stop, loops
  <2>2. \A d \in Callers \ {c} : call'[d] = call[d] /\ joins'[d] = joins[d]
    BY <1>1, <1>6 DEF Stop, TypeOK
  <2>3. IF task = Nobody THEN call'[c] = "returned" ELSE call'[c] = "joining" /\ joins'[c] = task
    BY <1>1, <1>6 DEF Stop, TypeOK
  <2>4. \A l \in Loops : Running(l) => task = l
    BY <1>2
  <2> QED
    BY <1>1, <2>1, <2>2, <2>3, <2>4 DEF OneLoop, TaskIsLoop, Pending, Running
<1> QED
  BY <1>3, <1>4, <1>5, <1>6 DEF Begin

(* A call that proceeds is the only one that is pending.                     *)
LEMMA ProceedLoops ==
  ASSUME LoopsInv, NEW c \in Callers, Proceed(c), ~overlap'
  PROVE  OneLoop' /\ TaskIsLoop'
<1>1. TypeOK /\ ~overlap /\ Pending(c) /\ TaskIsLoop /\ OneLoop
  BY DEF LoopsInv, Proceed, ResetReturns, ResetFails, StopReturns, Pending
<1>2. \A d \in Callers \ {c} : ~Pending(d)
  BY <1>1 DEF TaskIsLoop
<1>3. \A d \in Callers \ {c} : call'[d] = call[d]
  BY <1>1 DEF Proceed, ResetReturns, ResetFails, StopReturns, TypeOK
<1>4. call'[c] \in {"returned", "raised"}
  BY <1>1 DEF Proceed, ResetReturns, ResetFails, StopReturns, TypeOK
<1>5. \A d \in Callers : call'[d] # "joining" /\ call'[d] # "resetting"
  BY <1>2, <1>3, <1>4 DEF Pending
<1>6. CASE ResetReturns(c)
  <2>1. active /\ \A l \in Loops : ~Running(l)
    BY <1>1, <1>6 DEF ResetReturns, TaskIsLoop
  <2>2. active' = active /\ task' = c /\ \A l \in Loops \ {c} : loop'[l] = loop[l]
    BY <1>1, <1>6 DEF ResetReturns, CreateLoop, TypeOK
  <2> QED
    BY <1>5, <2>1, <2>2 DEF OneLoop, TaskIsLoop, Pending, Running
<1>7. CASE ResetFails(c)
  <2>1. \A l \in Loops : ~Running(l)
    BY <1>1, <1>7 DEF ResetFails, TaskIsLoop
  <2>2. loop' = loop
    BY <1>7 DEF ResetFails, loops
  <2> QED
    BY <1>5, <2>1, <2>2 DEF OneLoop, TaskIsLoop, Pending, Running
<1>8. CASE StopReturns(c)
  <2>1. joins[c] = task /\ ~Running(joins[c])
    BY <1>1, <1>8 DEF StopReturns, TaskIsLoop
  <2>2. \A l \in Loops : ~Running(l)
    BY <1>1, <2>1 DEF TaskIsLoop
  <2>3. loop' = loop
    BY <1>8 DEF StopReturns, loops
  <2> QED
    BY <1>5, <2>2, <2>3 DEF OneLoop, TaskIsLoop, Pending, Running
<1> QED
  BY <1>6, <1>7, <1>8 DEF Proceed

(* Loops only end, or go on.                                                 *)
LEMMA RunLoops ==
  ASSUME LoopsInv, ~overlap', UNCHANGED <<active, task, call, joins, overlap>>,
         \A l \in Loops : Running(l)' => Running(l)
  PROVE  OneLoop' /\ TaskIsLoop'
BY DEF LoopsInv, OneLoop, TaskIsLoop, Pending

LEMMA NextLoops ==
  LoopsInv /\ [Next]_vars => LoopsInv'
<1> SUFFICES ASSUME LoopsInv, [Next]_vars PROVE LoopsInv'
  OBVIOUS
<1>1. TypeOK /\ TypeOK'
  BY NextType DEF LoopsInv
<1>2. CASE overlap'
  BY <1>1, <1>2 DEF LoopsInv, OneLoop
<1>3. CASE ~overlap'
  <2>1. ASSUME NEW c \in Callers, Begin(c) \/ Proceed(c)
        PROVE  OneLoop' /\ TaskIsLoop'
    BY <1>3, <2>1, BeginLoops, ProceedLoops
  <2>2. ASSUME NEW c \in Callers, StartCancelled(c)
        PROVE  FALSE
    BY <1>3, <2>2 DEF StartCancelled
  <2>3. ASSUME NEW c \in Callers, StopCancelled(c)
        PROVE  OneLoop' /\ TaskIsLoop'
    <3>1. \A l \in Loops : Running(l)' => Running(l)
      BY <1>1, <2>3 DEF StopCancelled, Running, TypeOK
    <3> QED
      BY <1>3, <2>3, <3>1, RunLoops DEF StopCancelled, fields, calls
  <2>4. ASSUME NEW l \in Loops, Run(l)
        PROVE  OneLoop' /\ TaskIsLoop'
    <3>1. UNCHANGED <<active, task, call, joins, overlap>>
      BY <2>4 DEF Run, LoopBegins, UpdatesCome, RequestFails, StopWakes, BackoffOver, fields, calls
    <3>2. Running(l) /\ \A m \in Loops \ {l} : loop'[m] = loop[m]
      BY <1>1, <2>4 DEF Run, LoopBegins, LoopHead, UpdatesCome, RequestFails, StopWakes, BackoffOver, Running, TypeOK
    <3>3. \A m \in Loops : Running(m)' => Running(m)
      BY <3>2 DEF Running
    <3> QED
      BY <1>3, <3>1, <3>3, RunLoops
  <2>5. ASSUME UpdateArrives \/ UNCHANGED vars
        PROVE  OneLoop' /\ TaskIsLoop'
    <3>1. UNCHANGED <<active, task, call, joins, overlap, loop>>
      BY <2>5 DEF UpdateArrives, vars, fields, loops, calls
    <3>2. \A l \in Loops : Running(l)' => Running(l)
      BY <3>1 DEF Running
    <3> QED
      BY <1>3, <3>1, <3>2, RunLoops
  <2>6. OneLoop' /\ TaskIsLoop'
    <3>1. CASE Next
      BY <2>1, <2>2, <2>3, <2>4, <2>5, <3>1 DEF Next
    <3> QED
      BY <2>5, <3>1
  <2> QED
    BY <1>1, <2>6 DEF LoopsInv
<1> QED
  BY <1>2, <1>3

-----------------------------------------------------------------------------
(***************************************************************************)
(* The theorems                                                            *)
(***************************************************************************)

(* Variables have their types.                                               *)
THEOREM TypesKept == Spec => []TypeOK
<1> QED
  BY InitType, NextType, PTL DEF Spec

(* Whatever is started, stopped, cancelled or lost, an update that Telegram  *)
(* has forgotten was processed.                                              *)
THEOREM UpdatesAreProcessed == Spec => []NoUpdateLost
<1>1. UpdatesInv => NoUpdateLost
  BY DEF UpdatesInv
<1> QED
  BY <1>1, InitUpdates, NextUpdates, PTL DEF Spec

(* Calls of start_polling and stop_polling that do not overlap leave one     *)
(* loop or none.                                                             *)
THEOREM OneLoopRuns == Spec => []OneLoop
<1>1. LoopsInv => OneLoop
  BY DEF LoopsInv
<1> QED
  BY <1>1, InitLoops, NextLoops, PTL DEF Spec


-----------------------------------------------------------------------------
(***************************************************************************)
(* Contents                                                                *)
(***************************************************************************)

Texts == Seq(Streaming!Kinds \ {"task"})

(* Of the numbers with which a sequence is cut there is a least one.         *)
LEMMA LeastOfNat ==
  ASSUME NEW S \in SUBSET Nat, S # {}
  PROVE  \E n \in S : \A m \in S : n <= m
<1>1. PICK n \in S : \A m \in S : ~(<<m, n>> \in OpToRel(<, Nat))
  BY NatLessThanWellFounded, WFMin, Zenon
<1>2. \A m \in S : ~(m < n)
  BY <1>1, Zenon DEF OpToRel
<1> QED
  BY <1>2

(* The renderer shows a text, or the beginning of one.                       *)
LEMMA BeginningIsText ==
  ASSUME NEW s \in Texts, NEW n \in 0..Len(s)
  PROVE  SubSeq(s, 1, n) \in Texts /\ Len(SubSeq(s, 1, n)) <= Len(s)
  BY DEF Texts

(* Numbers are counted and compared in the instance as they are here.        *)
LEMMA SameNumbers ==
  /\ \A S : Streaming!Cardinality(S) = Cardinality(S)
  /\ \A S : Streaming!Max(S) = Max(S)
<1>1. \A S : Streaming!Cardinality(S) = Cardinality(S)
  BY Zenon DEF Cardinality, Streaming!Cardinality, IsFiniteSet, Streaming!IsFiniteSet
<1>2. \A S : Streaming!Max(S) = Max(S)
  BY Zenon DEF Max, Streaming!Max
<1> QED
  BY <1>1, <1>2

(* A set of numbers up to a bound has a greatest one.                        *)
LEMMA GreatestOfRange ==
  ASSUME NEW n \in Nat, NEW S \in SUBSET (0..n), S # {}
  PROVE  Max(S) \in S
<1> DEFINE T == {n - m : m \in S}
<1>1. T \in SUBSET Nat /\ T # {}
  <2>1. \A m \in S : m \in Nat /\ n - m \in Nat
    OBVIOUS
  <2> QED
    BY <2>1
<1>2. PICK t \in T : \A u \in T : t <= u
  BY <1>1, LeastOfNat
<1>3. PICK x \in S : t = n - x
  BY <1>2
<1>4. \A y \in S : x >= y
  BY <1>2, <1>3
<1> QED
  BY <1>4 DEF Max

(* Without the rows that are held back a text is a beginning of itself.      *)
LEMMA PrefixIsText ==
  ASSUME NEW content \in Texts
  PROVE  /\ Streaming!CommittablePrefix(content) \in Texts
         /\ Len(Streaming!CommittablePrefix(content)) <= Len(content)
         /\ Len(Streaming!CommittablePrefix(content)) = Len(content) => Streaming!CommittablePrefix(content) = content
         /\ content # <<>> /\ content[Len(content)] \notin {"cell", "row"} => Streaming!CommittablePrefix(content) = content
<1> DEFINE table(n) == \A i \in (n + 1)..Len(content) : content[i] \in {"cell", "row"}
           start == CHOOSE n \in 0..Len(content) : table(n) /\ \A m \in 0..(n - 1) : ~table(m)
<1>1. Len(content) \in Nat
  BY DEF Texts
<1>2. \E n \in 0..Len(content) : table(n) /\ \A m \in 0..(n - 1) : ~table(m)
  <2> DEFINE S == {n \in 0..Len(content) : table(n)}
  <2>1. table(Len(content))
    BY <1>1
  <2>2. S \in SUBSET Nat /\ S # {}
    BY <1>1, <2>1
  <2>3. PICK n \in S : \A m \in S : n <= m
    BY <2>2, LeastOfNat
  <2>4. \A m \in 0..(n - 1) : m \in 0..Len(content) /\ ~(n <= m)
    BY <1>1, <2>3
  <2>5. \A m \in 0..(n - 1) : ~table(m)
    BY <2>3, <2>4
  <2> QED
    BY <2>3, <2>5
<1>3. start \in 0..Len(content) /\ table(start)
  BY <1>2
<1>4. Streaming!CommittablePrefix(content)
        = IF \E i \in (start + 1)..Len(content) : content[i] = "row" THEN SubSeq(content, 1, start) ELSE content
  BY DEF Streaming!CommittablePrefix
<1> HIDE DEF start
<1>5. SubSeq(content, 1, start) \in Texts /\ Len(SubSeq(content, 1, start)) = start
  BY <1>3, BeginningIsText DEF Texts
<1>6. CASE \E i \in (start + 1)..Len(content) : content[i] = "row"
  <2>1. start < Len(content) /\ Len(content) \in (start + 1)..Len(content)
    BY <1>1, <1>3, <1>6
  <2>2. content[Len(content)] \in {"cell", "row"}
    BY <1>3, <2>1
  <2>3. Streaming!CommittablePrefix(content) = SubSeq(content, 1, start)
    BY <1>4, <1>6
  <2> QED
    BY <1>1, <1>3, <1>5, <2>1, <2>2, <2>3
<1>7. CASE ~\E i \in (start + 1)..Len(content) : content[i] = "row"
  BY <1>1, <1>4, <1>7
<1> QED
  BY <1>6, <1>7

(* The beginning that is left of a text with an open link is shorter.        *)
LEMMA CutIsText ==
  ASSUME NEW content \in Texts
  PROVE  /\ Streaming!StripUnclosedLinks(content) \in Texts
         /\ Len(Streaming!StripUnclosedLinks(content)) <= Len(content)
         /\ Len(Streaming!StripUnclosedLinks(content)) = Len(content)
              => Streaming!StripUnclosedLinks(content) = content /\ Streaming!Unclosed(content) = {}
         /\ Streaming!Unclosed(content) = {} => Streaming!StripUnclosedLinks(content) = content
<1> DEFINE S == {n \in 0..Len(content) : /\ \A i \in Streaming!Unclosed(content) : n < i
                                         /\ n = 0 \/ content[n] # "blank"}
<1>1. Len(content) \in Nat /\ DOMAIN content = 1..Len(content)
  BY DEF Texts
<1>2. Streaming!Unclosed(content) \subseteq 1..Len(content)
  BY <1>1 DEF Streaming!Unclosed
<1>3. CASE Streaming!Unclosed(content) = {}
  BY <1>1, <1>3 DEF Streaming!StripUnclosedLinks
<1>4. CASE Streaming!Unclosed(content) # {}
  <2>1. 0 \in S /\ S \in SUBSET (0..Len(content))
    BY <1>1, <1>2
  <2>2. PICK max : max = Max(S)
    OBVIOUS
  <2>3. max \in S
    BY <1>1, <2>1, <2>2, GreatestOfRange
  <2>4. PICK i \in Streaming!Unclosed(content) : max < i
    BY <1>4, <2>3
  <2>5. max \in 0..Len(content) /\ max < Len(content)
    BY <1>1, <1>2, <2>3, <2>4
  <2>6. Streaming!StripUnclosedLinks(content) = SubSeq(content, 1, max)
    <3>1. Streaming!StripUnclosedLinks(content)
            = IF Streaming!Unclosed(content) = {} THEN content ELSE SubSeq(content, 1, Streaming!Max(S))
      BY DEF Streaming!StripUnclosedLinks
    <3> HIDE DEF S
    <3> QED
      BY <1>4, <2>2, <3>1, SameNumbers
  <2>7. SubSeq(content, 1, max) \in Texts /\ Len(SubSeq(content, 1, max)) = max
    BY <2>5, BeginningIsText DEF Texts
  <2>8. /\ Streaming!StripUnclosedLinks(content) \in Texts
        /\ Len(Streaming!StripUnclosedLinks(content)) = max
    BY <2>6, <2>7, Zenon
  <2>9. max <= Len(content) /\ max # Len(content)
    <3> HIDE DEF S
    <3>1. \A k, l \in Nat : k < l => k <= l /\ k # l
      OBVIOUS
    <3>2. max \in Nat
      BY <1>1, <2>5
    <3> QED
      BY <1>1, <2>5, <3>1, <3>2
  <2> QED
    BY <1>4, <2>8, <2>9, Zenon
<1> QED
  BY <1>3, <1>4

(* Healing adds a marker at most.                                            *)
LEMMA HealedIsText ==
  ASSUME NEW content \in Texts
  PROVE  /\ Streaming!Remend(content) \in Texts
         /\ \/ Len(Streaming!Remend(content)) <= Len(content)
            \/ Streaming!Remend(content) = Append(content, "mark")
<1> DEFINE cut == Streaming!StripUnclosedLinks(content)
<1>1. cut \in Texts /\ Len(cut) \in Nat /\ Len(content) \in Nat /\ Len(cut) <= Len(content)
  BY CutIsText DEF Texts
<1>2. Streaming!Remend(content) = cut \/ Streaming!Remend(content) = Append(cut, "mark")
  BY Zenon DEF Streaming!Remend
<1>3. Append(cut, "mark") \in Texts /\ Len(Append(cut, "mark")) = Len(cut) + 1
  BY <1>1 DEF Texts, Streaming!Kinds
<1>4. Len(cut) = Len(content) => cut = content
  BY CutIsText, Zenon
<1> HIDE DEF cut
<1>5. Len(cut) # Len(content) => Len(cut) + 1 <= Len(content)
  BY <1>1
<1> QED
  BY <1>1, <1>2, <1>3, <1>4, <1>5

(* A text that the closing marker has come to needs no healing.              *)
LEMMA ClosedByMark ==
  ASSUME NEW content \in Texts, Streaming!Remend(content) = Append(content, "mark")
  PROVE  Streaming!Remend(Append(content, "mark")) = Append(content, "mark")
<1> DEFINE cut == Streaming!StripUnclosedLinks(content)
           closed == Append(content, "mark")
           marks(c) == {i \in DOMAIN c : c[i] = "mark"}
<1>1. /\ Len(content) \in Nat /\ DOMAIN content = 1..Len(content)
      /\ Len(closed) = Len(content) + 1 /\ DOMAIN closed = 1..(Len(content) + 1)
      /\ \A i \in DOMAIN content : closed[i] = content[i]
      /\ closed[Len(content) + 1] = "mark" /\ closed \in Texts
  BY DEF Texts, Streaming!Kinds
<1>2. cut \in Texts /\ Len(cut) \in Nat /\ Len(cut) <= Len(content)
  BY CutIsText DEF Texts
<1>3. cut # closed
  BY <1>1, <1>2
<1>4. Append(cut, "mark") = closed /\ Streaming!Number(cut, "mark", DOMAIN cut) % 2 = 1
  BY <1>3 DEF Streaming!Remend
<1>5. cut = content
  BY <1>1, <1>2, <1>4 DEF Texts
<1>6. Streaming!Unclosed(content) = {}
  BY <1>5, CutIsText
<1>7. Streaming!Unclosed(closed) = {}
  <2> SUFFICES ASSUME NEW i \in Streaming!Unclosed(closed) PROVE FALSE
    OBVIOUS
  <2>1. i \in DOMAIN closed /\ closed[i] = "link"
    BY DEF Streaming!Unclosed
  <2>2. i \in DOMAIN content /\ content[i] = "link"
    BY <1>1, <2>1
  <2>3. ASSUME NEW j \in i..Len(content)
        PROVE  Streaming!Number(content, "linked", i..j) < Streaming!Number(content, "link", i..j)
    <3>1. j \in i..Len(closed)
      BY <1>1, <2>2
    <3>2. Streaming!Number(closed, "linked", i..j) < Streaming!Number(closed, "link", i..j)
      BY <3>1 DEF Streaming!Unclosed
    <3>3. \A x \in i..j : closed[x] = content[x]
      BY <1>1, <2>2
    <3>4. \A kind : {x \in i..j : closed[x] = kind} = {x \in i..j : content[x] = kind}
      BY <3>3
    <3> QED
      BY <3>2, <3>4 DEF Streaming!Number
  <2> QED
    BY <1>6, <2>2, <2>3 DEF Streaming!Unclosed
<1>8. Streaming!StripUnclosedLinks(closed) = closed
  BY <1>1, <1>7, CutIsText
<1> HIDE DEF closed
<1>9. Streaming!Number(closed, "mark", DOMAIN closed) % 2 # 1
  <2>0. \A c : Streaming!Number(c, "mark", DOMAIN c) = Cardinality(marks(c))
    BY SameNumbers, Zenon DEF Streaming!Number
  <2>1. marks(closed) = marks(content) \cup {Len(content) + 1} /\ Len(content) + 1 \notin marks(content)
    BY <1>1
  <2>2. IsFiniteSet(marks(content))
    <3>1. IsFiniteSet(1..Len(content)) /\ marks(content) \subseteq 1..Len(content)
      BY <1>1, FS_Interval
    <3> QED
      BY <3>1, FS_Subset, Zenon
  <2>3. Cardinality(marks(content)) \in Nat /\ Cardinality(marks(closed)) = Cardinality(marks(content)) + 1
    <3> HIDE DEF marks
    <3> QED
      BY <2>1, <2>2, FS_AddElement, FS_CardinalityType
  <2>4. Cardinality(marks(content)) % 2 = 1
    <3> HIDE DEF marks, cut
    <3> QED
      BY <1>4, <1>5, <2>0
  <2>5. \A x \in Nat : x % 2 = 1 => (x + 1) % 2 # 1
    OBVIOUS
  <2>6. Cardinality(marks(closed)) % 2 # 1
    <3> HIDE DEF marks
    <3> QED
      BY <2>3, <2>4, <2>5
  <2> QED
    <3> HIDE DEF marks
    <3> QED
      BY <2>0, <2>6
<1>10. \A c : Streaming!StripUnclosedLinks(c) = c /\ Streaming!Number(c, "mark", DOMAIN c) % 2 # 1
               => Streaming!Remend(c) = c
  BY DEF Streaming!Remend
<1> QED
  BY <1>8, <1>9, <1>10, Zenon DEF closed

(* What the renderer shows came in, but for a closing marker.                *)
LEMMA RenderedIsText ==
  ASSUME text \in Texts
  PROVE  Streaming!Render \in Texts /\ Streaming!CameIn(Streaming!Render)
<1> DEFINE prefix == Streaming!CommittablePrefix(text)
<1>1. /\ prefix \in Texts /\ Len(prefix) \in Nat /\ Len(text) \in Nat /\ Len(prefix) <= Len(text)
      /\ Len(prefix) = Len(text) => prefix = text
  BY PrefixIsText DEF Texts
<1>2. Streaming!Render = Streaming!Remend(prefix)
  BY DEF Streaming!Render
<1> HIDE DEF prefix
<1>3. /\ Streaming!Render \in Texts /\ Len(Streaming!Render) \in Nat
      /\ Len(Streaming!Render) <= Len(prefix) \/ Streaming!Render = Append(prefix, "mark")
  BY <1>1, <1>2, HealedIsText DEF Texts
<1>4. CASE Len(Streaming!Render) <= Len(prefix)
  BY <1>1, <1>3, <1>4 DEF Streaming!CameIn
<1>5. CASE Streaming!Render = Append(prefix, "mark")
  <2>1. Len(Append(prefix, "mark")) = Len(prefix) + 1 /\ Append(prefix, "mark")[Len(prefix) + 1] = "mark"
    BY <1>1 DEF Texts
  <2> QED
    BY <1>1, <1>3, <1>5, <2>1 DEF Streaming!CameIn
<1> QED
  BY <1>3, <1>4, <1>5

(* A marker that the renderer has closed may come in: it shows the same.     *)
LEMMA MarkComesIn ==
  ASSUME text \in Texts, text' = Append(text, "mark"), Streaming!Render = Append(text, "mark")
  PROVE  Streaming!Render' = text'
<1> DEFINE prefix == Streaming!CommittablePrefix(text)
<1>1. /\ prefix \in Texts /\ Len(prefix) \in Nat /\ Len(text) \in Nat /\ Len(prefix) <= Len(text)
      /\ Len(prefix) = Len(text) => prefix = text
  BY PrefixIsText DEF Texts
<1>2. Streaming!Remend(prefix) = Append(text, "mark") /\ Len(Append(text, "mark")) = Len(text) + 1
  BY DEF Streaming!Render, Texts
<1> HIDE DEF prefix
<1>3. Len(prefix) = Len(text)
  <2>1. Len(Append(prefix, "mark")) = Len(prefix) + 1
    BY <1>1 DEF Texts
  <2> QED
    BY <1>1, <1>2, <2>1, HealedIsText
<1>4. Streaming!Remend(text') = text'
  BY <1>1, <1>2, <1>3, ClosedByMark
<1>5. Streaming!CommittablePrefix(text') = text'
  <2>1. /\ text' \in Texts /\ text' # <<>> /\ text'[Len(text')] = "mark"
    BY DEF Texts, Streaming!Kinds
  <2> QED
    BY <2>1, PrefixIsText
<1> QED
  BY <1>4, <1>5 DEF Streaming!Render

(* No message is no content, and the placeholder no text.                    *)
LEMMA PlaceholderIsNoText ==
  ASSUME NEW t \in Texts
  PROVE  Streaming!Placeholder # t /\ Streaming!Placeholder # Append(t, "mark")
<1>1. Len(Streaming!Placeholder) = 1 /\ Streaming!Placeholder[1] = "dots"
  BY DEF Streaming!Placeholder
<1>2. Streaming!Placeholder # t
  BY <1>1 DEF Texts, Streaming!Kinds
<1>3. Append(t, "mark")[Len(t) + 1] = "mark" /\ Len(Append(t, "mark")) = Len(t) + 1 /\ Len(t) \in Nat
  BY DEF Texts
<1>4. CASE Len(t) = 0
  BY <1>1, <1>2, <1>3, <1>4
<1>5. CASE Len(t) # 0
  BY <1>1, <1>2, <1>3, <1>5
<1> QED
  BY <1>4, <1>5

LEMMA ContentsDiffer ==
  ASSUME text \in Texts
  PROVE  /\ text \in Streaming!Contents /\ Streaming!Render \in Streaming!Contents
         /\ Streaming!Placeholder \in Streaming!Contents /\ <<"blank">> \in Streaming!Contents
         /\ Streaming!Placeholder # text
         /\ \A content \in Streaming!Contents : content # NoMessage
<1>1. Texts \subseteq Streaming!Contents
  BY DEF Texts, Streaming!Contents
<1>2. Streaming!Placeholder \in Streaming!Contents /\ <<"blank">> \in Streaming!Contents
  BY DEF Streaming!Placeholder, Streaming!Contents, Streaming!Kinds
<1>3. Streaming!Placeholder # text
  BY PlaceholderIsNoText
<1> QED
  BY <1>1, <1>2, <1>3, RenderedIsText, StreamsAssumption

(* A chunk adds to the text, or leaves it as it was.                         *)
LEMMA ChunkGrows ==
  ASSUME text \in Texts, got \in Seq(Streaming!Kinds \cup {"raw"}), Len(text) <= Len(got),
         NEW k \in Streaming!Kinds, Streaming!Chunk(k)
  PROVE  /\ text' \in Texts /\ got' \in Seq(Streaming!Kinds \cup {"raw"})
         /\ Len(text') <= Len(got') /\ Len(got') <= MaxChunks
         /\ text' = text \/ text' = Append(text, k)
<1>1. /\ Len(got) < MaxChunks
      /\ text' = IF k = "task" THEN text ELSE Append(text, k)
      /\ got' = Append(got, IF k \in {"markdown", "task"} THEN "raw" ELSE k)
  BY DEF Streaming!Chunk
<1>2. text' \in Texts /\ (text' = text \/ (text' = Append(text, k) /\ Len(text') = Len(text) + 1))
  <2>1. CASE k = "task"
    BY <1>1, <2>1, Zenon
  <2>2. CASE k # "task"
    <3>1. Append(text, k) \in Texts /\ Len(Append(text, k)) = Len(text) + 1
      BY <2>2 DEF Texts
    <3> QED
      BY <1>1, <2>2, <3>1
  <2> QED
    BY <2>1, <2>2
<1>3. got' \in Seq(Streaming!Kinds \cup {"raw"}) /\ Len(got') = Len(got) + 1
  BY <1>1
<1>4. Len(got) \in Nat /\ Len(text) \in Nat /\ MaxChunks \in Nat
  BY StreamsAssumption DEF Texts
<1> QED
  BY <1>1, <1>2, <1>3, <1>4

(* So it stays true that a content came in, and only one that was the text   *)
(* with a marker closed is the text then.                                    *)
LEMMA CameInStays ==
  ASSUME text \in Texts, NEW k, text' = text \/ text' = Append(text, k),
         NEW content \in Streaming!Contents, Streaming!CameIn(content)
  PROVE  /\ \/ content = Streaming!Placeholder \/ Len(content) <= Len(text')
            \/ Len(content) = Len(text') + 1 /\ content[Len(content)] = "mark"
         /\ text' \in Texts /\ content \in {text', Append(text', "mark")} /\ text' # text
              => content = text' /\ content = Append(text, "mark")
<1>1. Len(content) \in Nat /\ Len(text) \in Nat /\ Len(Append(text, k)) = Len(text) + 1
  BY DEF Streaming!Contents, Texts
<1>2. \A t \in Texts : Streaming!Placeholder # t /\ Streaming!Placeholder # Append(t, "mark")
  BY PlaceholderIsNoText
<1>3. \/ content = Streaming!Placeholder \/ Len(content) <= Len(text')
      \/ Len(content) = Len(text') + 1 /\ content[Len(content)] = "mark"
  BY <1>1 DEF Streaming!CameIn
<1>4. ASSUME text' \in Texts, content \in {text', Append(text', "mark")}, text' # text
      PROVE  content = text' /\ content = Append(text, "mark")
  <2>1. text' = Append(text, k) /\ content # Streaming!Placeholder
    BY <1>2, <1>4
  <2>2. Len(content) <= Len(text) + 1
    BY <1>1, <2>1 DEF Streaming!CameIn
  <2>3. content = text'
    <3>1. Len(Append(text', "mark")) = Len(text) + 2
      BY <1>1, <1>4, <2>1 DEF Texts
    <3> QED
      BY <1>1, <1>4, <2>2, <3>1
  <2>4. content[Len(content)] = "mark"
    BY <1>1, <2>1, <2>3 DEF Streaming!CameIn
  <2>5. Append(text, k)[Len(text) + 1] = k
    BY DEF Texts
  <2> QED
    BY <1>1, <2>1, <2>3, <2>4, <2>5
<1> QED
  BY <1>3, <1>4

-----------------------------------------------------------------------------
(***************************************************************************)
(* The post of a stream                                                    *)
(***************************************************************************)

LEMMA StreamStarts ==
  Streaming!Init => Streaming!IndInv
<1> SUFFICES ASSUME Streaming!Init PROVE Streaming!IndInv
  OBVIOUS
<1>1. /\ way \in Streaming!Native \cup Streaming!Fallback
      /\ text = <<>> /\ got = <<>> /\ sending = <<>> /\ last = <<>>
      /\ phase = "begun" /\ editor = "none" /\ stopped = FALSE /\ shown = NoMessage
  BY DEF Streaming!Init
<1>2. Streaming!TypeOK
  <2>1. \A S : <<>> \in Seq(S)
    OBVIOUS
  <2>2. Len(<<>>) = 0 /\ 0 <= MaxChunks
    BY StreamsAssumption
  <2>3. {sending, last} \subseteq Streaming!Contents
    BY <1>1, <2>1 DEF Streaming!Contents
  <2>4. text \in Seq(Streaming!Kinds \ {"task"}) /\ got \in Seq(Streaming!Kinds \cup {"raw"})
    BY <1>1, <2>1
  <2>5. Len(text) <= Len(got) /\ Len(got) <= MaxChunks
    BY <1>1, <2>2
  <2> QED
    BY <1>1, <2>3, <2>4, <2>5 DEF Streaming!TypeOK
<1>3. Streaming!EditorInTime
  BY <1>1 DEF Streaming!EditorInTime
<1>4. Streaming!Strip(text) = {}
  BY <1>1 DEF Streaming!Strip
<1>5. Streaming!LastIsShown
  BY <1>1, <1>4 DEF Streaming!LastIsShown, Streaming!CameIn
<1> QED
  BY <1>1, <1>2, <1>3, <1>5 DEF Streaming!IndInv, Streaming!TeamsShows, Streaming!EditorIsOver, Streaming!WholeShown

(* What is common to the steps in which no text comes in.                    *)
LEMMA TextStays ==
  ASSUME UNCHANGED text
  PROVE  /\ UNCHANGED Streaming!Render /\ Streaming!CameIn(last)' = Streaming!CameIn(last')
         /\ UNCHANGED Streaming!Finish /\ UNCHANGED Streaming!Strip(Streaming!GetText)
  BY DEF Streaming!Render, Streaming!CameIn, Streaming!Finish, Streaming!GetText, Streaming!Strip

LEMMA StreamTyped ==
  ASSUME Streaming!TypeOK
  PROVE  /\ way \in Streaming!Native \cup Streaming!Fallback /\ text \in Texts
         /\ got \in Seq(Streaming!Kinds \cup {"raw"})
         /\ Len(text) <= Len(got) /\ Len(got) <= MaxChunks
         /\ sending \in Streaming!Contents /\ last \in Streaming!Contents
         /\ shown \in Streaming!Contents \cup {NoMessage}
  BY DEF Streaming!TypeOK, Texts

LEMMA WaysDiffer ==
  /\ Streaming!Native = {"slack", "discord", "teams", "once", "telegram"}
  /\ Streaming!Fallback = {"placeholder", "bare"}
  /\ Streaming!Native \cap Streaming!Fallback = {}
  BY DEF Streaming!Native, Streaming!Fallback

(* In the ways of the adapters there is no editor.                           *)
LEMMA NativeRest ==
  ASSUME Streaming!IndInv, way \in Streaming!Native, UNCHANGED way, Streaming!NoEditor,
         NEW k, text' \in Texts, text' = text \/ text' = Append(text, k), phase' \notin {"begun", "posting", "placing"}
  PROVE  Streaming!EditorInTime' /\ Streaming!LastIsShown' /\ Streaming!EditorIsOver'
<1>1. UNCHANGED <<editor, stopped, sending, last>> /\ editor = "none" /\ last = <<>> /\ way' \notin Streaming!Fallback
  BY WaysDiffer DEF Streaming!NoEditor, Streaming!IndInv, Streaming!EditorInTime
<1>2. Streaming!EditorInTime'
  BY <1>1 DEF Streaming!EditorInTime, Streaming!EditorOver
<1>3. Streaming!CameIn(last)' /\ Streaming!CameIn(sending)'
  BY <1>1, StreamTyped, CameInStays DEF Streaming!IndInv, Streaming!LastIsShown, Streaming!CameIn, Streaming!Placeholder
<1> QED
  BY <1>1, <1>2, <1>3 DEF Streaming!LastIsShown, Streaming!EditorIsOver, Streaming!EditorOver

LEMMA FinalIsText ==
  ASSUME Streaming!TypeOK
  PROVE  /\ {Streaming!Current, Streaming!Final} \subseteq Streaming!Contents
         /\ way \in Streaming!Native /\ Streaming!Strip(text) # {} /\ (way = "discord" => Streaming!Accumulated = text)
              => Streaming!Final = text
<1>1. text \in Streaming!Contents /\ got \in Streaming!Contents /\ Streaming!Placeholder \in Streaming!Contents
  BY StreamTyped, ContentsDiffer DEF Streaming!Contents
<1>2. Streaming!Strip(text) # {} => text # <<>>
  BY DEF Streaming!Strip
<1> QED
  BY <1>1, <1>2 DEF Streaming!Current, Streaming!Final, Streaming!Accumulated, Streaming!GetText

LEMMA NativeKeeps ==
  ASSUME Streaming!IndInv,
         \/ Streaming!NativeBegins \/ Streaming!NativeEdit \/ Streaming!NativeFinal
         \/ Streaming!NativeSourceEnds \/ Streaming!NativeSourceFails
  PROVE  Streaming!IndInv'
<1> SUFFICES Streaming!IndInv'
  OBVIOUS
<1>1. way \in Streaming!Native /\ UNCHANGED <<way, text, got>> /\ Streaming!NoEditor
  BY DEF Streaming!NativeBegins, Streaming!NativeEdit, Streaming!NativeFinal,
         Streaming!NativeSourceEnds, Streaming!NativeSourceFails
<1>2. Streaming!EditorInTime' /\ Streaming!LastIsShown' /\ Streaming!EditorIsOver'
  <2>1. phase' \notin {"begun", "posting", "placing"}
    BY DEF Streaming!NativeBegins, Streaming!NativeEdit, Streaming!NativeFinal,
           Streaming!NativeSourceEnds, Streaming!NativeSourceFails, Streaming!Raise
  <2> QED
    BY <1>1, <2>1, NativeRest, StreamTyped DEF Streaming!IndInv
<1>3. UNCHANGED <<editor, stopped, sending, last>> /\ editor = "none"
  BY <1>1 DEF Streaming!NoEditor, Streaming!IndInv, Streaming!EditorInTime
<1>4. /\ phase' \in {"reading", "editing", "raised", "failing", "finishing", "returned"}
      /\ shown' \in {shown, Streaming!Placeholder, Streaming!Current, Streaming!Final}
  BY DEF Streaming!NativeBegins, Streaming!NativeEdit, Streaming!NativeFinal, Streaming!NativeSourceEnds,
         Streaming!NativeSourceFails, Streaming!Raise, Streaming!Show, Streaming!Fails
<1>5. Streaming!TypeOK'
  <2>1. shown' \in Streaming!Contents \cup {NoMessage}
    BY <1>4, FinalIsText, ContentsDiffer, StreamTyped DEF Streaming!IndInv
  <2> QED
    BY <1>1, <1>3, <1>4, <2>1 DEF Streaming!IndInv, Streaming!TypeOK
<1>6. Streaming!TeamsShows'
  <2> SUFFICES ASSUME way = "teams"
               PROVE  phase' # "editing" /\ (phase' = "reading" => text = <<>> \/ shown' = text)
    BY <1>1, <1>4 DEF Streaming!TeamsShows
  <2>1. phase # "editing" /\ (phase \in {"begun", "reading"} => text = <<>> \/ shown = text)
    BY DEF Streaming!IndInv, Streaming!TeamsShows
  <2> QED
    BY <2>1 DEF Streaming!NativeBegins, Streaming!NativeEdit, Streaming!NativeFinal,
                Streaming!NativeSourceEnds, Streaming!NativeSourceFails, Streaming!Raise
<1>7. Streaming!WholeShown'
  <2>1. ASSUME phase' = "returned", Streaming!Strip(text) # {}, way = "discord" => Streaming!Accumulated = text
        PROVE  shown' = text
    <3>1. \/ shown' = Streaming!Final
          \/ way = "teams" /\ phase = "reading" /\ shown' = shown
      BY <1>1, <2>1 DEF Streaming!NativeBegins, Streaming!NativeEdit, Streaming!NativeFinal, Streaming!NativeSourceEnds,
             Streaming!NativeSourceFails, Streaming!Raise, Streaming!Show
    <3>2. text # <<>>
      BY <2>1 DEF Streaming!Strip
    <3> QED
      BY <1>1, <2>1, <3>1, <3>2, FinalIsText DEF Streaming!IndInv, Streaming!TeamsShows
  <2> QED
    BY <1>1, <1>3, <2>1 DEF Streaming!WholeShown, Streaming!GetText, Streaming!Accumulated, Streaming!Strip
<1> QED
  BY <1>2, <1>5, <1>6, <1>7 DEF Streaming!IndInv

LEMMA NativeChunkKeeps ==
  ASSUME Streaming!IndInv, NEW k \in Streaming!Kinds, Streaming!NativeChunk(k) \/ Streaming!TeamsChunk(k)
  PROVE  Streaming!IndInv'
<1> SUFFICES Streaming!IndInv'
  OBVIOUS
<1>1. /\ way \in Streaming!Native /\ way' = way /\ Streaming!NoEditor /\ Streaming!Chunk(k) /\ phase = "reading"
      /\ phase' \in {"reading", "editing", "raised"} /\ shown' \in {shown, text'}
      /\ way = "teams" => phase' # "editing"
  BY WaysDiffer DEF Streaming!NativeChunk, Streaming!TeamsChunk, Streaming!Raise, Streaming!Show, Streaming!Fails
<1>2. /\ text' \in Texts /\ got' \in Seq(Streaming!Kinds \cup {"raw"})
      /\ Len(text') <= Len(got') /\ Len(got') <= MaxChunks
      /\ text' = text \/ text' = Append(text, k)
  BY <1>1, ChunkGrows, StreamTyped DEF Streaming!IndInv
<1>3. Streaming!EditorInTime' /\ Streaming!LastIsShown' /\ Streaming!EditorIsOver'
  BY <1>1, <1>2, NativeRest
<1>4. UNCHANGED <<editor, stopped, sending, last>>
  BY <1>1 DEF Streaming!NoEditor
<1>5. Streaming!TypeOK'
  <2>1. shown' \in Streaming!Contents \cup {NoMessage}
    BY <1>1, <1>2, StreamTyped DEF Streaming!IndInv, Texts, Streaming!Contents
  <2> QED
    BY <1>1, <1>2, <1>4, <2>1 DEF Streaming!IndInv, Streaming!TypeOK, Texts
<1>6. Streaming!TeamsShows'
  <2> SUFFICES ASSUME way = "teams", phase' = "reading" PROVE text' = <<>> \/ shown' = text'
    BY <1>1 DEF Streaming!TeamsShows
  <2>1. CASE Streaming!NativeChunk(k)
    BY <1>1, <2>1 DEF Streaming!NativeChunk, Streaming!Chunk, Streaming!IndInv, Streaming!TeamsShows
  <2>2. CASE Streaming!TeamsChunk(k)
    BY <2>2 DEF Streaming!TeamsChunk, Streaming!Raise, Streaming!Show
  <2> QED
    BY <2>1, <2>2
<1>7. Streaming!WholeShown'
  BY <1>1 DEF Streaming!WholeShown
<1> QED
  BY <1>3, <1>5, <1>6, <1>7 DEF Streaming!IndInv

LEMMA FallbackChunkKeeps ==
  ASSUME Streaming!IndInv, NEW k \in Streaming!Kinds, Streaming!FallbackChunk(k)
  PROVE  Streaming!IndInv'
<1> SUFFICES Streaming!IndInv'
  OBVIOUS
<1>1. /\ way \in Streaming!Fallback /\ way \notin Streaming!Native /\ phase = "reading" /\ Streaming!Chunk(k)
      /\ phase' \in {"reading", "posting"}
      /\ phase' = "posting" => shown = NoMessage
      /\ UNCHANGED <<way, editor, stopped, sending, last, shown>>
  BY WaysDiffer DEF Streaming!FallbackChunk, Streaming!NoEditor
<1>2. /\ text' \in Texts /\ got' \in Seq(Streaming!Kinds \cup {"raw"})
      /\ Len(text') <= Len(got') /\ Len(got') <= MaxChunks
      /\ text' = text \/ text' = Append(text, k)
  BY <1>1, ChunkGrows, StreamTyped DEF Streaming!IndInv
<1>3. Streaming!TypeOK'
  BY <1>1, <1>2 DEF Streaming!IndInv, Streaming!TypeOK, Texts
<1>4. Streaming!EditorInTime'
  BY <1>1 DEF Streaming!IndInv, Streaming!EditorInTime, Streaming!TypeOK
<1>5. Streaming!LastIsShown'
  <2>1. Streaming!LastIsShown /\ text \in Texts /\ last \in Streaming!Contents /\ sending \in Streaming!Contents
    BY StreamTyped DEF Streaming!IndInv
  <2>2. Streaming!CameIn(last)' /\ Streaming!CameIn(sending)'
    BY <1>1, <1>2, <2>1, CameInStays DEF Streaming!LastIsShown, Streaming!CameIn, Streaming!Placeholder
  <2>3. CASE text' = text
    <3>1. UNCHANGED Streaming!Render /\ UNCHANGED Streaming!Strip(text)
      BY <2>3, TextStays DEF Streaming!Strip
    <3> QED
      BY <1>1, <2>1, <2>2, <2>3, <3>1 DEF Streaming!LastIsShown, Streaming!Strip, Streaming!IsText
  <2>4. CASE text' # text
    <3>1. \A content \in {last, sending} :
            Streaming!IsText(content)' => content = text' /\ content = Append(text, "mark")
      BY <1>2, <2>1, <2>4, CameInStays, Zenon DEF Streaming!LastIsShown, Streaming!IsText
    <3>2. ASSUME NEW content \in {last, sending}, Streaming!IsText(content)', Streaming!Render = content
          PROVE  Streaming!Render' = content
      BY <2>1, <3>1, <3>2, MarkComesIn, Zenon
    <3>3. \A content : content = Append(text, "mark") => Streaming!IsText(content)
      BY DEF Streaming!IsText
    <3> QED
      BY <1>1, <2>1, <2>2, <3>1, <3>2, <3>3 DEF Streaming!LastIsShown
  <2> QED
    BY <2>3, <2>4
<1>6. Streaming!TeamsShows' /\ Streaming!EditorIsOver' /\ Streaming!WholeShown'
  BY <1>1, WaysDiffer DEF Streaming!TeamsShows, Streaming!EditorIsOver, Streaming!WholeShown
<1> QED
  BY <1>3, <1>4, <1>5, <1>6 DEF Streaming!IndInv

LEMMA FallbackPostKeeps ==
  ASSUME Streaming!IndInv,
         \/ Streaming!FallbackBegins \/ Streaming!FirstPost \/ Streaming!LatePost \/ Streaming!FallbackFinal
         \/ Streaming!Joins \/ \E outcome \in {"ending", "failing"} : Streaming!FallbackSourceEnds(outcome)
  PROVE  Streaming!IndInv'
<1> SUFFICES Streaming!IndInv'
  OBVIOUS
<1> USE WaysDiffer
<1>0. /\ Streaming!TypeOK /\ Streaming!EditorInTime /\ Streaming!LastIsShown
      /\ text \in Texts /\ last \in Streaming!Contents /\ sending \in Streaming!Contents
      /\ Streaming!TeamsShows
  BY StreamTyped DEF Streaming!IndInv
<1>1. /\ UNCHANGED <<way, text, got, sending>>
      /\ phase \in {"begun", "posting", "reading"} \/ phase \in {"ending", "failing", "placing", "finishing"}
      /\ phase' \in {"reading", "ending", "failing", "placing", "finishing", "returned", "raised"}
      /\ editor' \in {editor, "waiting"} /\ stopped' \in {stopped, TRUE}
      /\ way \in Streaming!Fallback \/ phase \in {"posting", "placing"}
  BY DEF Streaming!FallbackBegins, Streaming!FirstPost, Streaming!LatePost, Streaming!FallbackFinal, Streaming!Joins,
         Streaming!FallbackSourceEnds, Streaming!NoEditor, Streaming!StartEditor, Streaming!Raise
<1>2. UNCHANGED Streaming!Render /\ UNCHANGED Streaming!Strip(text)
  BY <1>1, TextStays DEF Streaming!Strip
<1>3. /\ last' \in {last, Streaming!Placeholder, Streaming!Render, text}
      /\ shown' \in {shown, Streaming!Placeholder, Streaming!Render, text, <<"blank">>}
  BY DEF Streaming!FallbackBegins, Streaming!FirstPost, Streaming!LatePost, Streaming!FallbackFinal, Streaming!Joins,
         Streaming!FallbackSourceEnds, Streaming!NoEditor, Streaming!StartEditor, Streaming!Raise, Streaming!Show,
         Streaming!Fails, Streaming!GetText
<1> HIDE WaysDiffer
<1>4. Streaming!TypeOK'
  <2>1. last' \in Streaming!Contents /\ shown' \in Streaming!Contents \cup {NoMessage}
    BY <1>0, <1>3, ContentsDiffer, StreamTyped
  <2> QED
    BY <1>0, <1>1, <2>1 DEF Streaming!TypeOK
<1>5. Streaming!TeamsShows'
  BY <1>0, <1>1, WaysDiffer DEF Streaming!TeamsShows, Streaming!EditorInTime
<1>6. CASE Streaming!FallbackBegins
  <2>1. Streaming!EditorInTime'
    BY <1>0, <1>1, <1>6, WaysDiffer, ContentsDiffer
    DEF Streaming!FallbackBegins, Streaming!EditorInTime, Streaming!NoEditor, Streaming!StartEditor,
        Streaming!EditorOver, Streaming!Raise, Streaming!Show
  <2>0. Streaming!Strip(<<>>) = {} /\ ~Streaming!IsText(Streaming!Placeholder)
    BY <1>0, PlaceholderIsNoText DEF Streaming!Strip, Streaming!IsText
  <2>2. Streaming!LastIsShown'
    BY <1>0, <1>1, <1>2, <1>6, <2>0, WaysDiffer, ContentsDiffer
    DEF Streaming!FallbackBegins, Streaming!LastIsShown, Streaming!CameIn, Streaming!IsText, Streaming!EditorInTime, Streaming!NoEditor,
        Streaming!StartEditor, Streaming!Raise, Streaming!Show
  <2>3. (Streaming!EditorIsOver /\ Streaming!WholeShown)'
    BY <1>6, <2>1 DEF Streaming!FallbackBegins, Streaming!EditorIsOver, Streaming!WholeShown, Streaming!EditorInTime, Streaming!Raise
  <2> QED
    BY <1>4, <1>5, <2>1, <2>2, <2>3 DEF Streaming!IndInv
<1>7. CASE Streaming!FirstPost
  <2>1. Streaming!EditorInTime'
    BY <1>0, <1>1, <1>7, WaysDiffer, ContentsDiffer
    DEF Streaming!FirstPost, Streaming!EditorInTime, Streaming!StartEditor,
        Streaming!EditorOver, Streaming!Raise, Streaming!Show
  <2>2. Streaming!LastIsShown'
    <3>1. phase = "posting" /\ editor = "none" /\ last = <<>> /\ sending' = sending
      BY <1>0, <1>1, <1>7 DEF Streaming!FirstPost, Streaming!EditorInTime
    <3>2. \/ shown' = Streaming!Render /\ last' = Streaming!Render /\ editor' = "waiting"
          \/ last' = last /\ editor' = editor
      BY <1>7 DEF Streaming!FirstPost, Streaming!StartEditor, Streaming!Show
    <3>3. Streaming!Strip(<<>>) = {}
      BY DEF Streaming!Strip
    <3>4. Streaming!CameIn(last') /\ Streaming!CameIn(sending)
      BY <1>0, <3>1, <3>2, RenderedIsText DEF Streaming!CameIn, Streaming!LastIsShown
    <3>5. CASE shown' = Streaming!Render /\ last' = Streaming!Render /\ editor' = "waiting"
      BY <1>1, <1>2, <3>1, <3>4, <3>5 DEF Streaming!LastIsShown, Streaming!CameIn, Streaming!IsText
    <3>6. CASE last' = last /\ editor' = editor
      BY <1>1, <1>2, <3>1, <3>3, <3>4, <3>6 DEF Streaming!LastIsShown, Streaming!CameIn, Streaming!IsText
    <3> QED
      BY <3>2, <3>5, <3>6
  <2>3. (Streaming!EditorIsOver /\ Streaming!WholeShown)'
    BY <1>7, <2>1 DEF Streaming!FirstPost, Streaming!EditorIsOver, Streaming!WholeShown, Streaming!EditorInTime, Streaming!Raise
  <2> QED
    BY <1>4, <1>5, <2>1, <2>2, <2>3 DEF Streaming!IndInv
<1>8. CASE Streaming!LatePost
  <2>1. UNCHANGED <<editor, stopped>> /\ phase = "placing" /\ phase' \in {"finishing", "raised"}
    BY <1>8 DEF Streaming!LatePost, Streaming!Raise
  <2>2. Streaming!EditorInTime'
    <3>1. way \in Streaming!Fallback /\ way \notin Streaming!Native /\ Streaming!EditorOver
      BY <1>0, <2>1, WaysDiffer DEF Streaming!EditorInTime
    <3>2. shown' # NoMessage \/ (shown' = shown /\ last' = last)
      <4>1. shown' = text \/ shown' = <<"blank">> \/ (shown' = shown /\ last' = last)
        BY <1>8 DEF Streaming!LatePost, Streaming!Show, Streaming!Fails, Streaming!GetText
      <4>2. text # NoMessage /\ <<"blank">> # NoMessage
        BY <1>0, ContentsDiffer, Zenon
      <4> QED
        BY <4>1, <4>2
    <3> QED
      BY <1>0, <1>1, <2>1, <3>1, <3>2 DEF Streaming!EditorInTime, Streaming!EditorOver
  <2>3. Streaming!LastIsShown'
    BY <1>0, <1>1, <1>2, <1>8, <2>1
    DEF Streaming!LatePost, Streaming!LastIsShown, Streaming!CameIn, Streaming!IsText, Streaming!EditorInTime, Streaming!EditorOver,
        Streaming!Show, Streaming!Fails, Streaming!GetText, Texts
  <2>4. (Streaming!EditorIsOver /\ Streaming!WholeShown)'
    BY <2>1, <2>2 DEF Streaming!EditorIsOver, Streaming!WholeShown, Streaming!EditorInTime
  <2> QED
    BY <1>4, <1>5, <2>2, <2>3, <2>4 DEF Streaming!IndInv
<1>9. CASE Streaming!FallbackFinal
  <2>1. UNCHANGED <<editor, stopped, last>> /\ phase = "finishing" /\ phase' \in {"returned", "raised"}
    BY <1>9 DEF Streaming!FallbackFinal, Streaming!Raise, Streaming!NoEditor
  <2>2. /\ shown' \in {shown, text}
        /\ phase' = "returned" /\ shown' # text
             => shown' = shown /\ (Streaming!Strip(Streaming!Finish) = {} \/ Streaming!Finish = last)
    BY <1>9 DEF Streaming!FallbackFinal, Streaming!Raise, Streaming!Show, Streaming!Fails, Streaming!FinalNeeded,
                Streaming!GetText
  <2>3. Streaming!EditorInTime'
    BY <1>0, <1>1, <2>1, <2>2, ContentsDiffer DEF Streaming!EditorInTime, Streaming!EditorOver
  <2>4. Streaming!LastIsShown'
    BY <1>0, <1>1, <1>2, <2>1, <2>2 DEF Streaming!LastIsShown, Streaming!CameIn, Streaming!IsText
  <2>5. (Streaming!EditorIsOver /\ Streaming!WholeShown)'
    <3>1. UNCHANGED Streaming!Finish
      BY <1>1, TextStays
    <3>2. ASSUME phase' = "returned", Streaming!Strip(text) # {}, Streaming!Finish = text PROVE shown' = text
      BY <1>0, <1>1, <1>9, <2>1, <2>2, <3>2 DEF Streaming!LastIsShown, Streaming!IsText, Streaming!FallbackFinal
    <3>3. Streaming!EditorIsOver'
      BY <2>3 DEF Streaming!EditorIsOver, Streaming!EditorInTime
    <3>4. way' \in Streaming!Fallback
      BY <1>1, <1>9 DEF Streaming!FallbackFinal
    <3> QED
      BY <1>1, <1>2, <3>1, <3>2, <3>3, <3>4 DEF Streaming!WholeShown, Streaming!GetText, Streaming!Strip
  <2> QED
    BY <1>4, <1>5, <2>3, <2>4, <2>5 DEF Streaming!IndInv
<1>10. CASE Streaming!Joins \/ \E outcome \in {"ending", "failing"} : Streaming!FallbackSourceEnds(outcome)
  <2>1. /\ UNCHANGED <<editor, last, shown>> /\ phase' \in {"ending", "failing", "raised", "placing", "finishing"}
        /\ phase' \in {"raised", "placing", "finishing"} => Streaming!EditorOver
        /\ phase' = "placing" => shown = NoMessage
        /\ way \in Streaming!Fallback /\ way \notin Streaming!Native
    BY <1>10, WaysDiffer DEF Streaming!Joins, Streaming!Joined, Streaming!FallbackSourceEnds
  <2>2. Streaming!EditorInTime'
    BY <1>0, <1>1, <2>1 DEF Streaming!EditorInTime, Streaming!EditorOver
  <2>3. Streaming!LastIsShown'
    BY <1>0, <1>1, <1>2, <2>1 DEF Streaming!LastIsShown, Streaming!CameIn, Streaming!IsText
  <2>4. (Streaming!EditorIsOver /\ Streaming!WholeShown)'
    BY <2>1, <2>2 DEF Streaming!EditorIsOver, Streaming!WholeShown, Streaming!EditorInTime
  <2> QED
    BY <1>4, <1>5, <2>2, <2>3, <2>4 DEF Streaming!IndInv
<1> QED
  BY <1>6, <1>7, <1>8, <1>9, <1>10

(* An edit of the editor shows what it sends, or fails.                      *)
LEMMA EditorKeeps ==
  ASSUME Streaming!IndInv, Streaming!EditorSteps \/ Streaming!EditorDue
  PROVE  Streaming!IndInv'
<1> SUFFICES Streaming!IndInv'
  OBVIOUS
<1>0. /\ Streaming!TypeOK /\ Streaming!EditorInTime /\ Streaming!LastIsShown
      /\ text \in Texts /\ last \in Streaming!Contents /\ sending \in Streaming!Contents
      /\ Streaming!TeamsShows /\ Streaming!EditorIsOver /\ Streaming!WholeShown
  BY StreamTyped DEF Streaming!IndInv
<1>1. /\ UNCHANGED <<way, text, got, phase, stopped>>
      /\ editor \in {"waiting", "editing"} /\ editor' \in {"waiting", "editing", "ended"}
      /\ last' \in {last, sending} /\ shown' \in {shown, sending} /\ sending' \in {sending, Streaming!Render}
  BY DEF Streaming!EditorSteps, Streaming!EditorDue, Streaming!EditorStops, Streaming!EditorEdited,
         Streaming!EditorFailed, Streaming!EditorWaits, Streaming!Show, Streaming!Fails
<1>2. UNCHANGED Streaming!Render /\ UNCHANGED Streaming!Strip(text)
  BY <1>1, TextStays DEF Streaming!Strip
<1>3. /\ way \notin Streaming!Native /\ way \in Streaming!Fallback /\ shown # NoMessage
      /\ phase \notin {"begun", "posting", "placing", "finishing", "returned", "raised"}
  BY <1>0, <1>1, StreamTyped, WaysDiffer DEF Streaming!EditorInTime, Streaming!EditorOver
<1>4. Streaming!Render \in Streaming!Contents /\ sending # NoMessage /\ Streaming!CameIn(Streaming!Render)
  BY <1>0, ContentsDiffer, RenderedIsText
<1>5. Streaming!TypeOK'
  BY <1>0, <1>1, <1>4 DEF Streaming!TypeOK
<1>6. Streaming!EditorInTime'
  BY <1>1, <1>3, <1>4 DEF Streaming!EditorInTime
<1>7. Streaming!LastIsShown'
  <2>1. Streaming!CameIn(last') /\ Streaming!CameIn(sending')
    BY <1>0, <1>1, <1>4 DEF Streaming!LastIsShown, Streaming!CameIn, Streaming!IsText
  <2>2. CASE Streaming!EditorStops
    BY <1>0, <1>1, <1>2, <2>1, <2>2 DEF Streaming!EditorStops, Streaming!LastIsShown, Streaming!CameIn, Streaming!IsText
  <2>3. CASE Streaming!EditorDue
    BY <1>0, <1>1, <1>2, <2>1, <2>3 DEF Streaming!EditorDue, Streaming!LastIsShown, Streaming!CameIn, Streaming!IsText
  <2>4. CASE Streaming!EditorEdited
    BY <1>0, <1>1, <1>2, <2>1, <2>4
    DEF Streaming!EditorEdited, Streaming!EditorWaits, Streaming!Show, Streaming!LastIsShown, Streaming!CameIn, Streaming!IsText
  <2>5. CASE Streaming!EditorFailed
    BY <1>0, <1>1, <1>2, <2>1, <2>5
    DEF Streaming!EditorFailed, Streaming!EditorWaits, Streaming!Fails, Streaming!LastIsShown, Streaming!CameIn, Streaming!IsText
  <2> QED
    BY <2>2, <2>3, <2>4, <2>5 DEF Streaming!EditorSteps
<1>8. Streaming!TeamsShows' /\ (Streaming!EditorIsOver /\ Streaming!WholeShown)'
  BY <1>1, <1>3, WaysDiffer DEF Streaming!TeamsShows, Streaming!EditorIsOver, Streaming!WholeShown
<1> QED
  BY <1>5, <1>6, <1>7, <1>8 DEF Streaming!IndInv

LEMMA StreamKeeps ==
  ASSUME Streaming!IndInv, Streaming!Next \/ UNCHANGED Streaming!vars
  PROVE  Streaming!IndInv'
<1>1. CASE UNCHANGED Streaming!vars
  <2>1. UNCHANGED <<way, text, got, phase, editor, stopped, sending, last, shown>>
    BY <1>1 DEF Streaming!vars
  <2>2. UNCHANGED Streaming!TypeOK /\ UNCHANGED Streaming!EditorInTime
    BY <2>1 DEF Streaming!TypeOK, Streaming!EditorInTime, Streaming!EditorOver
  <2>3. UNCHANGED Streaming!LastIsShown
    <3>1. UNCHANGED Streaming!Render /\ UNCHANGED Streaming!Strip(text)
      BY <2>1, TextStays DEF Streaming!Strip
    <3> QED
      BY <2>1, <3>1 DEF Streaming!LastIsShown, Streaming!CameIn, Streaming!IsText, Streaming!Strip
  <2>4. UNCHANGED Streaming!TeamsShows /\ UNCHANGED Streaming!EditorIsOver /\ UNCHANGED Streaming!WholeShown
    BY <2>1, TextStays DEF Streaming!TeamsShows, Streaming!EditorIsOver, Streaming!WholeShown, Streaming!GetText,
                           Streaming!Accumulated, Streaming!EditorOver
  <2> QED
    BY <2>2, <2>3, <2>4 DEF Streaming!IndInv
<1> QED
  BY <1>1, NativeKeeps, NativeChunkKeeps, FallbackChunkKeeps, FallbackPostKeeps, EditorKeeps
  DEF Streaming!Next, Streaming!SourceSteps, Streaming!PostSteps
-----------------------------------------------------------------------------
(***************************************************************************)
(* Events                                                                  *)
(***************************************************************************)

Pcs == {"run", "store", "open", "get", "delete", "done", "failed"}
Ends == {"returns", "raises", "answers"}

LEMMA WiderSeq ==
  ASSUME NEW S, NEW T, S \subseteq T, NEW s \in Seq(S)
  PROVE  s \in Seq(T)
  OBVIOUS

LEMMA SeqElements ==
  ASSUME NEW S, NEW s \in Seq(S)
  PROVE  /\ Len(s) \in Nat /\ DOMAIN s = 1..Len(s)
         /\ \A i \in 1..Len(s) : s[i] \in S
  OBVIOUS

LEMMA ElementReplaced ==
  ASSUME NEW S, NEW s \in Seq(S), NEW n \in 1..Len(s), NEW e \in S
  PROVE  /\ [s EXCEPT ![n] = e] \in Seq(S)
         /\ Len([s EXCEPT ![n] = e]) = Len(s) /\ DOMAIN [s EXCEPT ![n] = e] = DOMAIN s
         /\ \A m \in DOMAIN s : [s EXCEPT ![n] = e][m] = IF m = n THEN e ELSE s[m]
  OBVIOUS

(* A task or a view is one of its set, whatever is added to the others.      *)
LEMMA TasksTyped ==
  ASSUME Events!TasksOK
  PROVE  /\ Len(tasks) \in Nat /\ DOMAIN tasks = 1..Len(tasks)
         /\ Len(views) \in Nat /\ DOMAIN views = 1..Len(views)
         /\ \A n \in DOMAIN tasks : tasks[n] \in Events!TaskSet
         /\ \A v \in DOMAIN views : views[v] \in Events!ViewSet
  BY DEF Events!TasksOK

(* The handlers of a task that are ahead come after all that ran.            *)
LEMMA HandlersAreNumbers ==
  ASSUME NEW kind \in Events!Kinds, NEW name
  PROVE  Events!Matching(kind, name) \subseteq Nat
<1>1. Handlers[kind] \in Seq(SUBSET STRING)
  BY EventsAssumption
<1> QED
  BY <1>1 DEF Events!Matching

LEMMA FirstAhead ==
  ASSUME NEW t \in Events!TaskSet, Events!Ahead(t) # {}
  PROVE  /\ Events!Min(Events!Ahead(t)) \in Events!Ahead(t)
         /\ \A i \in Events!Ahead(t) : Events!Min(Events!Ahead(t)) <= i
         /\ Events!Ahead(t) \subseteq Nat
<1>1. Events!Ahead(t) \subseteq Nat
  BY HandlersAreNumbers DEF Events!Ahead, Events!TaskSet
<1>2. \E n \in Events!Ahead(t) : \A m \in Events!Ahead(t) : n <= m
  BY <1>1, LeastOfNat, Zenon
<1> QED
  BY <1>1, <1>2 DEF Events!Min

AfterRun(t, how, pc) ==
  [t EXCEPT !.pc = pc, !.ran = Append(@, [handler |-> Events!Min(Events!Ahead(t)), how |-> how])]

LEMMA RanIsInOrder ==
  ASSUME NEW t \in Events!TaskSet, Events!InOrder(t), Events!Ahead(t) # {},
         NEW how \in Ends, NEW pc \in {"run", "done"},
         pc = "done" => how = IF t.kind = "submit" THEN "answers" ELSE "raises"
  PROVE  Events!InOrder(AfterRun(t, how, pc))
<1> DEFINE m == Events!Min(Events!Ahead(t))
           r == [handler |-> m, how |-> how]
           ran == Append(t.ran, r)
           u == [t EXCEPT !.pc = pc, !.ran = ran]
           all == Events!Matching(t.kind, t.name)
<1>1. /\ t.ran \in Seq([handler : Nat, how : Ends]) /\ t.kind \in Events!Kinds
      /\ u.ran = ran /\ u.pc = pc /\ u.kind = t.kind /\ u.name = t.name
  BY DEF Events!TaskSet, Ends
<1> HIDE DEF u
<1>2. m \in Events!Ahead(t) /\ m \in Nat /\ m \in all /\ \A i \in Events!Ahead(t) : m <= i
  BY FirstAhead DEF Events!Ahead
<1> HIDE DEF m
<1>3. /\ ran # <<>> /\ Len(ran) = Len(t.ran) + 1 /\ Len(t.ran) \in Nat /\ DOMAIN ran = 1..Len(ran)
      /\ DOMAIN t.ran = 1..Len(t.ran) /\ r.handler = m /\ r.how = how
      /\ ran[Len(ran)] = r /\ \A i \in 1..Len(t.ran) : ran[i] = t.ran[i] /\ t.ran[i].handler \in Nat
  <2>1. r \in [handler : Nat, how : Ends] /\ r.handler = m /\ r.how = how
    BY <1>2
  <2> HIDE DEF r
  <2>2. ran \in Seq([handler : Nat, how : Ends]) /\ Len(ran) = Len(t.ran) + 1 /\ Len(t.ran) \in Nat
    BY <1>1, <2>1
  <2>3. ran[Len(ran)] = r /\ \A i \in 1..Len(t.ran) : ran[i] = t.ran[i]
    <3>1. t.ran \in Seq([handler : Nat, how : Ends]) /\ Len(t.ran) \in Nat
      BY <1>1
    <3>2. \A i \in 1..(Len(t.ran) + 1) : ran[i] = IF i <= Len(t.ran) THEN t.ran[i] ELSE r
      BY <2>1, <3>1
    <3> QED
      BY <2>2, <3>1, <3>2
  <2>4. \A i \in 1..Len(t.ran) : t.ran[i].handler \in Nat
    <3>0. t.ran \in Seq([handler : Nat, how : Ends])
      BY <1>1
    <3>1. \A i \in 1..Len(t.ran) : t.ran[i] \in [handler : Nat, how : Ends]
      BY <3>0, SeqElements, Zenon
    <3> QED
      BY <3>1
  <2>5. DOMAIN t.ran = 1..Len(t.ran) /\ DOMAIN ran = 1..Len(ran) /\ ran # <<>>
    BY <1>1, <2>2
  <2> QED
    BY <2>1, <2>2, <2>3, <2>4, <2>5
<1> HIDE DEF r, ran
<1>4. all \subseteq Nat
  BY <1>1, HandlersAreNumbers
<1>5. Events!Ahead(u) = {i \in all : i > m}
  <2>1. ran[Len(ran)].handler = m
    BY <1>3
  <2>2. Events!Ahead(u) = {i \in all : ran = <<>> \/ i > ran[Len(ran)].handler}
    BY <1>1 DEF Events!Ahead, Events!Last
  <2> QED
    BY <1>3, <2>1, <2>2
<1>6. Events!Ahead(t) = {i \in all : t.ran = <<>> \/ i > t.ran[Len(t.ran)].handler}
  BY DEF Events!Ahead, Events!Last
<1>7. \A i \in DOMAIN t.ran : t.ran[i].handler < m
  <2>1. SUFFICES ASSUME NEW i \in DOMAIN t.ran PROVE t.ran[i].handler < m
    OBVIOUS
  <2>2. t.ran[i].handler \in all \ Events!Ahead(t)
    BY DEF Events!InOrder
  <2>3. t.ran # <<>> /\ Len(t.ran) \in 1..Len(t.ran)
    BY <1>1, <1>3
  <2>4. m > t.ran[Len(t.ran)].handler
    BY <1>2, <1>6, <2>3
  <2>5. ~(t.ran[i].handler > t.ran[Len(t.ran)].handler)
    BY <1>6, <2>2
  <2> QED
    BY <1>2, <1>3, <2>3, <2>4, <2>5
<1>8. \A i, j \in DOMAIN ran : i < j => ran[i].handler < ran[j].handler
  <2>1. SUFFICES ASSUME NEW i \in DOMAIN ran, NEW j \in DOMAIN ran, i < j PROVE ran[i].handler < ran[j].handler
    OBVIOUS
  <2>2. i \in DOMAIN t.ran
    BY <1>3, <2>1
  <2>3. CASE j \in DOMAIN t.ran
    BY <1>3, <2>1, <2>2, <2>3 DEF Events!InOrder
  <2>4. CASE j = Len(ran)
    BY <1>3, <1>7, <2>2, <2>4
  <2> QED
    BY <1>3, <2>3, <2>4
<1>9. {ran[i].handler : i \in DOMAIN ran} = all \ Events!Ahead(u)
  <2>1. {ran[i].handler : i \in DOMAIN ran} = {t.ran[i].handler : i \in DOMAIN t.ran} \cup {m}
    <3>1. DOMAIN ran = DOMAIN t.ran \cup {Len(ran)}
      BY <1>3
    <3>2. ran[Len(ran)].handler = m /\ \A i \in DOMAIN t.ran : ran[i] = t.ran[i]
      BY <1>3
    <3> QED
      BY <3>1, <3>2, ZenonT(60)
  <2>2. {t.ran[i].handler : i \in DOMAIN t.ran} = all \ Events!Ahead(t)
    BY DEF Events!InOrder
  <2>3. \A i \in all : (i \notin Events!Ahead(t)) => i <= m
    <3>1. SUFFICES ASSUME NEW i \in all, i \notin Events!Ahead(t) PROVE i <= m
      OBVIOUS
    <3>2. PICK j \in DOMAIN t.ran : i = t.ran[j].handler
      BY <2>2, <3>1
    <3> QED
      BY <1>2, <1>4, <1>7, <3>2
  <2>4. \A i \in all : i \in Events!Ahead(t) /\ i <= m => i = m
    BY <1>2, <1>4
  <2>5. all \ Events!Ahead(u) = {i \in all : i <= m}
    BY <1>2, <1>4, <1>5
  <2>6. (all \ Events!Ahead(t)) \cup {m} = {i \in all : i <= m}
    <3>1. \A i \in all : i \notin Events!Ahead(t) \/ i = m <=> i <= m
      BY <1>2, <1>4, <2>3, <2>4
    <3> QED
      BY <1>2, <3>1
  <2> QED
    BY <2>1, <2>2, <2>5, <2>6
<1>10. u.pc = "done" => \E i \in DOMAIN u.ran : u.ran[i].how = IF u.kind = "submit" THEN "answers" ELSE "raises"
  BY <1>1, <1>3
<1>11. u.pc \notin {"store", "open", "get", "delete", "failed"}
  BY <1>1
<1>12. Events!InOrder(u)
  BY <1>1, <1>8, <1>9, <1>10, <1>11 DEF Events!InOrder
<1> QED
  BY <1>12 DEF m, r, ran, u, AfterRun

(* What a step leaves of a task and of a view.                               *)
CameAs(u, t) ==
  /\ u.kind = t.kind /\ u.name = t.name /\ u.origin = t.origin
  /\ u.view = t.view /\ u.form = t.form /\ u.values = t.values
  /\ Len(t.ran) \in Nat /\ Len(u.ran) \in Nat /\ Len(t.ran) <= Len(u.ran)
SameView(w, v) == w.by = v.by /\ w.modal = v.modal /\ w.blocks = v.blocks /\ w.metadata = v.metadata

Grown ==
  /\ \A n \in DOMAIN tasks : n \in DOMAIN tasks' /\ CameAs(tasks'[n], tasks[n])
  /\ \A v \in DOMAIN views : v \in DOMAIN views' /\ SameView(views'[v], views[v])

(* The views are those there were, some of them closed.                      *)
SameViews == /\ Len(views') = Len(views) /\ DOMAIN views' = DOMAIN views
             /\ \A v \in DOMAIN views : views'[v] \in Events!ViewSet /\ SameView(views'[v], views[v])
             /\ views' \in Seq(Events!ViewSet)

(* A task that neither gets nor loses what it is related to.                 *)
Quiet(n) ==
  tasks[n].view # 0 =>
    /\ tasks'[n].related = tasks[n].related
    /\ tasks'[n].pc = "delete" => tasks[n].pc = "delete"
    /\ tasks'[n].pc \in {"run", "done"} => tasks[n].pc \in {"run", "done"}

LEMMA ViewsStay ==
  ASSUME Events!TasksOK, UNCHANGED views
  PROVE  SameViews
  BY TasksTyped DEF SameViews, SameView, Events!TasksOK

LEMMA ViewCloses ==
  ASSUME Events!TasksOK, NEW v \in DOMAIN views, views' = [views EXCEPT ![v].open = FALSE]
  PROVE  SameViews
<1> DEFINE w == [views[v] EXCEPT !.open = FALSE]
<1>1. views[v] \in Events!ViewSet /\ v \in 1..Len(views) /\ views \in Seq(Events!ViewSet)
  BY TasksTyped DEF Events!TasksOK
<1>2. w \in Events!ViewSet /\ SameView(w, views[v])
  BY <1>1 DEF Events!ViewSet, SameView
<1>3. views' = [views EXCEPT ![v] = w]
  BY <1>1
<1> HIDE DEF w
<1>4. /\ Len(views') = Len(views) /\ DOMAIN views' = DOMAIN views /\ views' \in Seq(Events!ViewSet)
      /\ \A x \in DOMAIN views : views'[x] = IF x = v THEN w ELSE views[x]
  <2> DEFINE x == [views EXCEPT ![v] = w]
  <2>1. /\ Len(x) = Len(views) /\ DOMAIN x = DOMAIN views /\ x \in Seq(Events!ViewSet)
        /\ \A y \in DOMAIN views : x[y] = IF y = v THEN w ELSE views[y]
    BY <1>1, <1>2, ElementReplaced, Zenon
  <2> HIDE DEF x
  <2> QED
    BY <1>3, <2>1, Zenon DEF x
<1>5. \A x \in DOMAIN views : views[x] \in Events!ViewSet
  BY TasksTyped
<1>6. \A x \in DOMAIN views : views'[x] \in Events!ViewSet /\ SameView(views'[x], views[x])
  BY <1>2, <1>4, <1>5 DEF SameView
<1> QED
  BY <1>4, <1>6 DEF SameViews

(* A task goes on.                                                           *)
LEMMA TaskGoesOn ==
  ASSUME Events!TasksOK, NEW n \in DOMAIN tasks, NEW u \in Events!TaskSet, CameAs(u, tasks[n]),
         tasks' = [tasks EXCEPT ![n] = u]
  PROVE  /\ Len(tasks') = Len(tasks) /\ DOMAIN tasks' = DOMAIN tasks /\ tasks' \in Seq(Events!TaskSet)
         /\ tasks'[n] = u /\ \A m \in DOMAIN tasks : m # n => tasks'[m] = tasks[m]
         /\ \A m \in DOMAIN tasks : CameAs(tasks'[m], tasks[m]) /\ tasks'[m] \in Events!TaskSet
<1>1. n \in 1..Len(tasks) /\ tasks \in Seq(Events!TaskSet)
  BY TasksTyped DEF Events!TasksOK
<1>2. /\ Len(tasks') = Len(tasks) /\ DOMAIN tasks' = DOMAIN tasks /\ tasks' \in Seq(Events!TaskSet)
      /\ tasks'[n] = u /\ \A m \in DOMAIN tasks : m # n => tasks'[m] = tasks[m]
  BY <1>1
<1>3. \A m \in DOMAIN tasks : tasks[m] \in Events!TaskSet /\ Len(tasks[m].ran) \in Nat
  BY TasksTyped DEF Events!TaskSet
<1>4. \A m \in DOMAIN tasks : CameAs(tasks[m], tasks[m])
  BY <1>3 DEF CameAs
<1>5. \A m \in DOMAIN tasks : CameAs(tasks'[m], tasks[m]) /\ tasks'[m] \in Events!TaskSet
  <2>1. SUFFICES ASSUME NEW m \in DOMAIN tasks
                 PROVE  CameAs(tasks'[m], tasks[m]) /\ tasks'[m] \in Events!TaskSet
    OBVIOUS
  <2>2. CASE m = n
    BY <1>2, <2>2, Zenon
  <2>3. CASE m # n
    BY <1>2, <1>3, <1>4, <2>3, Zenon
  <2> QED
    BY <2>2, <2>3
<1> QED
  BY <1>2, <1>5

(* What holds of openings and of forms stays when none is added.             *)
LEMMA OpenedStays ==
  ASSUME Events!TasksOK, Events!OpenedOnce, Grown, DOMAIN views' = DOMAIN views
  PROVE  Events!OpenedOnce'
<1>1. \A v \in DOMAIN views : views[v].by \in DOMAIN tasks /\ Len(tasks[views[v].by].ran) \in Nat
  BY TasksTyped DEF Events!ViewSet, Events!TaskSet
<1>2. \A v \in DOMAIN views : views'[v].by = views[v].by /\ views'[v].metadata = views[v].metadata
  BY DEF Grown, SameView
<1>3. \A v \in DOMAIN views : Len(tasks[views[v].by].ran) <= Len(tasks'[views[v].by].ran)
  BY <1>1 DEF Grown, CameAs
<1>4. \A v \in DOMAIN views : views[v].metadata.c[2] \in Nat
  BY TasksTyped DEF Events!ViewSet
<1>5. \A v \in DOMAIN views : Len(tasks'[views[v].by].ran) \in Nat
  BY <1>1 DEF Grown, CameAs
<1>6. \A v \in DOMAIN views : Events!Id(v)' = Events!Id(v) /\ Events!Id(v)[2] \in Nat
  BY <1>2, <1>4 DEF Events!Id, Events!DecodeModalMetadata
<1>7. ASSUME NEW v \in DOMAIN views'
      PROVE  /\ Events!Id(v)'[1] = views'[v].by /\ Events!Id(v)'[2] < Len(tasks'[views'[v].by].ran)
             /\ \A w \in DOMAIN views' : Events!Id(v)' = Events!Id(w)' => v = w
  <2>1. /\ Events!Id(v)[1] = views[v].by /\ Events!Id(v)[2] < Len(tasks[views[v].by].ran)
        /\ \A w \in DOMAIN views : Events!Id(v) = Events!Id(w) => v = w
    BY <1>7, Zenon DEF Events!OpenedOnce
  <2>2. Events!Id(v)[2] < Len(tasks'[views[v].by].ran)
    BY <1>1, <1>3, <1>5, <1>6, <1>7, <2>1
  <2> QED
    BY <1>2, <1>6, <1>7, <2>1, <2>2
<1> QED
  BY <1>7, Zenon DEF Events!OpenedOnce

LEMMA FormsGrow ==
  ASSUME Events!TasksOK, Events!FormsFilled, Grown,
         \A v \in DOMAIN views' : v \in DOMAIN views \/ views'[v].blocks = Events!ModalToSlackView(views'[v].modal),
         \A n \in DOMAIN tasks' :
           \/ n \in DOMAIN tasks \/ tasks'[n].kind # "submit"
           \/ tasks'[n].form \in Events!FormsOf(views'[tasks'[n].view].blocks) /\ tasks'[n].values = tasks'[n].form
  PROVE  Events!FormsFilled'
<1>1. \A n \in DOMAIN tasks : tasks[n].kind = "submit" => tasks[n].view \in DOMAIN views
  BY TasksTyped DEF Events!TasksOK, Events!TaskSet
<1>2. \A v \in DOMAIN views : views'[v].blocks = views[v].blocks /\ views'[v].modal = views[v].modal
  BY DEF Grown, SameView
<1>3. \A n \in DOMAIN tasks : /\ tasks'[n].kind = tasks[n].kind /\ tasks'[n].view = tasks[n].view
                              /\ tasks'[n].form = tasks[n].form /\ tasks'[n].values = tasks[n].values
  BY DEF Grown, CameAs
<1>4. \A n \in DOMAIN tasks' :
        tasks'[n].kind = "submit" =>
          tasks'[n].form \in Events!FormsOf(views'[tasks'[n].view].blocks) /\ tasks'[n].values = tasks'[n].form
  <2>1. SUFFICES ASSUME NEW n \in DOMAIN tasks, tasks'[n].kind = "submit"
                 PROVE  tasks'[n].form \in Events!FormsOf(views'[tasks'[n].view].blocks) /\ tasks'[n].values = tasks'[n].form
    BY Zenon
  <2>2. tasks[n].kind = "submit" /\ tasks[n].view \in DOMAIN views
    BY <1>1, <1>3, <2>1
  <2>3. tasks[n].form \in Events!FormsOf(views[tasks[n].view].blocks) /\ tasks[n].values = tasks[n].form
    BY <2>2, Zenon DEF Events!FormsFilled
  <2>4. views'[tasks'[n].view].blocks = views[tasks[n].view].blocks
    BY <1>2, <1>3, <2>2
  <2> QED
    BY <1>3, <2>1, <2>3, <2>4, Zenon
<1>5. \A v \in DOMAIN views' : views'[v].blocks = Events!ModalToSlackView(views'[v].modal)
  BY <1>2, Zenon DEF Events!FormsFilled
<1> QED
  BY <1>4, <1>5, Zenon DEF Events!FormsFilled, Events!FormsOf, Events!ModalToSlackView

LEMMA FormsStay ==
  ASSUME Events!TasksOK, Events!FormsFilled, Grown,
         DOMAIN tasks' = DOMAIN tasks, DOMAIN views' = DOMAIN views
  PROVE  Events!FormsFilled'
  BY FormsGrow, Zenon

(* A context is of its opener, and one that is lost has gone to an event.    *)
OpeningsKept == \A n \in DOMAIN tasks : tasks[n].pc = "open" => Events!Kept(Events!Opening(n))
GoneTo(v)    == \E n \in DOMAIN tasks : tasks[n].view = v /\ tasks[n].related = Events!OpenedFrom(v)

LEMMA ContextsGrow ==
  ASSUME Events!TasksOK, Events!ContextsKept, Grown, OpeningsKept',
         \A c \in contexts' :
           c \in contexts \/ (c.key[1] \in DOMAIN tasks /\ c.origin = tasks[c.key[1]].origin),
         \A v \in DOMAIN views' : v \in DOMAIN views \/ Events!Kept(Events!Id(v))',
         \A v \in DOMAIN views : Events!Kept(Events!Id(v)) => Events!Kept(Events!Id(v))' \/ GoneTo(v),
         \A n \in DOMAIN tasks : tasks[n].view # 0 /\ tasks[n].related = Events!OpenedFrom(tasks[n].view) =>
           tasks'[n].related = tasks[n].related
  PROVE  Events!ContextsKept'
<1>1. /\ \A v \in DOMAIN views : /\ v # 0 /\ views[v].by \in DOMAIN tasks
                                 /\ views'[v].by = views[v].by /\ Events!Id(v)' = Events!Id(v)
                                 /\ Events!OpenedFrom(v)' = Events!OpenedFrom(v)
      /\ \A n \in DOMAIN tasks : n \in DOMAIN tasks' /\ tasks'[n].origin = tasks[n].origin /\ tasks'[n].view = tasks[n].view
  BY TasksTyped DEF Grown, SameView, CameAs, Events!ViewSet, Events!Id, Events!DecodeModalMetadata, Events!OpenedFrom
<1>2. (\A c \in contexts : c.key[1] \in DOMAIN tasks /\ c.origin = tasks[c.key[1]].origin)'
  BY <1>1 DEF Events!ContextsKept
<1>3. (\A v \in DOMAIN views : Events!Kept(Events!Id(v)) \/ GoneTo(v))'
  <2>1. SUFFICES ASSUME NEW v \in DOMAIN views PROVE Events!Kept(Events!Id(v))' \/ GoneTo(v)'
    BY Zenon
  <2>2. CASE GoneTo(v)
    BY <1>1, <2>1, <2>2 DEF GoneTo
  <2> QED
    BY <2>1, <2>2 DEF Events!ContextsKept, GoneTo
<1> QED
  BY <1>2, <1>3 DEF Events!ContextsKept, OpeningsKept, GoneTo

LEMMA ContextsStay ==
  ASSUME Events!TasksOK, Events!ContextsKept, Grown, DOMAIN views' = DOMAIN views, OpeningsKept',
         \A c \in contexts' :
           c \in contexts \/ (c.key[1] \in DOMAIN tasks /\ c.origin = tasks[c.key[1]].origin),
         \A v \in DOMAIN views : Events!Kept(Events!Id(v)) => Events!Kept(Events!Id(v))' \/ GoneTo(v),
         \A n \in DOMAIN tasks : tasks[n].view # 0 /\ tasks[n].related = Events!OpenedFrom(tasks[n].view) =>
           tasks'[n].related = tasks[n].related
  PROVE  Events!ContextsKept'
  BY ContextsGrow, Zenon

(* What an event of a view has got is as it was.                             *)
RelatedOf(n) ==
  tasks[n].view # 0 =>
    \/ tasks[n].related = Events!OpenedFrom(tasks[n].view)
    \/ /\ tasks[n].related = Unknown /\ tasks[n].pc # "delete"
       /\ tasks[n].pc \in {"run", "done"} =>
            \/ Events!Id(tasks[n].view) \in missing
            \/ \E m \in DOMAIN tasks : tasks[m].view = tasks[n].view /\ tasks[m].related = Events!OpenedFrom(tasks[n].view)

LEMMA RelatedStays ==
  ASSUME Events!TasksOK, Events!RelatedSoFar, Grown, missing \subseteq missing',
         \A m \in DOMAIN tasks : tasks[m].view # 0 /\ tasks[m].related = Events!OpenedFrom(tasks[m].view) =>
           tasks'[m].related = tasks[m].related,
         NEW n \in DOMAIN tasks, Quiet(n)
  PROVE  RelatedOf(n)'
<1> SUFFICES ASSUME tasks[n].view # 0 PROVE RelatedOf(n)'
  BY DEF RelatedOf, Grown, CameAs
<1>1. /\ tasks[n].view \in DOMAIN views
      /\ tasks'[n].view = tasks[n].view /\ n \in DOMAIN tasks'
      /\ Events!Id(tasks[n].view)' = Events!Id(tasks[n].view)
      /\ Events!OpenedFrom(tasks[n].view)' = Events!OpenedFrom(tasks[n].view)
  <2>1. tasks[n].view \in DOMAIN views
    BY TasksTyped DEF Events!TaskSet
  <2>2. views[tasks[n].view].by \in DOMAIN tasks
    BY <2>1, TasksTyped DEF Events!ViewSet
  <2> QED
    BY <2>1, <2>2 DEF Grown, SameView, CameAs, Events!Id, Events!DecodeModalMetadata, Events!OpenedFrom
<1>2. RelatedOf(n)
  BY DEF Events!RelatedSoFar, RelatedOf
<1>3. CASE tasks[n].related = Events!OpenedFrom(tasks[n].view)
  BY <1>1, <1>3 DEF RelatedOf, Quiet
<1>4. CASE tasks[n].related # Events!OpenedFrom(tasks[n].view)
  <2>1. tasks'[n].related = Unknown /\ tasks'[n].pc # "delete"
    BY <1>2, <1>4 DEF RelatedOf, Quiet
  <2>2. SUFFICES ASSUME tasks'[n].pc \in {"run", "done"}
                 PROVE  \/ Events!Id(tasks[n].view) \in missing'
                        \/ \E m \in DOMAIN tasks' : /\ tasks'[m].view = tasks[n].view
                                                    /\ tasks'[m].related = Events!OpenedFrom(tasks[n].view)
    BY <1>1, <2>1 DEF RelatedOf
  <2>3. \/ Events!Id(tasks[n].view) \in missing
        \/ \E m \in DOMAIN tasks : tasks[m].view = tasks[n].view /\ tasks[m].related = Events!OpenedFrom(tasks[n].view)
    BY <1>2, <1>4, <2>2 DEF RelatedOf, Quiet
  <2>4. CASE Events!Id(tasks[n].view) \in missing
    BY <2>4
  <2>5. CASE \E m \in DOMAIN tasks : tasks[m].view = tasks[n].view /\ tasks[m].related = Events!OpenedFrom(tasks[n].view)
    <3>1. PICK m \in DOMAIN tasks : tasks[m].view = tasks[n].view /\ tasks[m].related = Events!OpenedFrom(tasks[n].view)
      BY <2>5
    <3>2. tasks'[m].related = tasks[m].related /\ m \in DOMAIN tasks' /\ tasks'[m].view = tasks[m].view
      BY <3>1 DEF Grown, CameAs
    <3> QED
      BY <3>1, <3>2
  <2> QED
    BY <2>3, <2>4, <2>5
<1> QED
  BY <1>3, <1>4

LEMMA RelatedOfAll ==
  ASSUME \A n \in DOMAIN tasks' : RelatedOf(n)'
  PROVE  Events!RelatedSoFar'
  BY DEF Events!RelatedSoFar, RelatedOf

(* What a task that goes on leaves as it was.                                *)
LEMMA PartsStay ==
  ASSUME Events!IndInv, SameViews,
         NEW n \in DOMAIN tasks, NEW u \in Events!TaskSet, CameAs(u, tasks[n]), Events!InOrder(u),
         tasks' = [tasks EXCEPT ![n] = u]
  PROVE  /\ Grown /\ DOMAIN views' = DOMAIN views /\ DOMAIN tasks' = DOMAIN tasks
         /\ tasks'[n] = u /\ \A m \in DOMAIN tasks : m # n => tasks'[m] = tasks[m]
         /\ Events!TasksOK' /\ Events!RanInOrder' /\ Events!OpenedOnce' /\ Events!FormsFilled'
<1>0. Events!TasksOK /\ Events!RanInOrder /\ Events!OpenedOnce /\ Events!FormsFilled
  BY DEF Events!IndInv
<1>1. /\ Len(tasks') = Len(tasks) /\ DOMAIN tasks' = DOMAIN tasks /\ tasks' \in Seq(Events!TaskSet)
      /\ tasks'[n] = u /\ \A m \in DOMAIN tasks : m # n => tasks'[m] = tasks[m]
      /\ \A m \in DOMAIN tasks : CameAs(tasks'[m], tasks[m]) /\ tasks'[m] \in Events!TaskSet
  BY <1>0, TaskGoesOn, Zenon
<1>2. Grown /\ DOMAIN views' = DOMAIN views
  BY <1>1 DEF Grown, SameViews
<1>3. Events!TasksOK'
  <2>1. UNCHANGED Events!TaskSet /\ UNCHANGED Events!ViewSet
    BY <1>1, Zenon DEF SameViews, Events!TaskSet, Events!ViewSet
  <2>2. (\A m \in DOMAIN tasks : (tasks[m].view = 0) = (tasks[m].kind \notin {"submit", "close"}))'
    BY <1>0, <1>1 DEF CameAs, Events!TasksOK
  <2> QED
    BY <1>1, <2>1, <2>2 DEF SameViews, Events!TasksOK
<1>4. Events!RanInOrder'
  <2>1. \A m \in DOMAIN tasks : Events!InOrder(tasks'[m])
    BY <1>0, <1>1 DEF Events!RanInOrder
  <2> QED
    BY <1>1, <2>1 DEF Events!RanInOrder
<1>5. Events!OpenedOnce' /\ Events!FormsFilled'
  BY <1>0, <1>1, <1>2, OpenedStays, FormsStay, Zenon
<1> QED
  BY <1>1, <1>2, <1>3, <1>4, <1>5, Zenon

LEMMA ContextsOKStay ==
  ASSUME Events!ContextsOK, contexts' \subseteq contexts, UNCHANGED missing, DOMAIN tasks \subseteq DOMAIN tasks'
  PROVE  Events!ContextsOK'
  BY DEF Events!ContextsOK

(* A task goes on, its related thread as it was, and the contexts too.       *)
LEMMA TaskMoves ==
  ASSUME Events!IndInv, SameViews, UNCHANGED <<contexts, missing>>,
         NEW n \in DOMAIN tasks, NEW u \in Events!TaskSet, CameAs(u, tasks[n]),
         u.related = tasks[n].related, u.pc \notin {"open", "delete"}, Events!InOrder(u),
         tasks[n].view = 0 \/ tasks[n].pc \in {"run", "done"},
         tasks' = [tasks EXCEPT ![n] = u]
  PROVE  Events!IndInv'
<1>0. Events!TasksOK /\ Events!ContextsOK /\ Events!ContextsKept /\ Events!RelatedSoFar
  BY DEF Events!IndInv
<1>1. /\ Grown /\ DOMAIN views' = DOMAIN views /\ DOMAIN tasks' = DOMAIN tasks
      /\ tasks'[n] = u /\ \A m \in DOMAIN tasks : m # n => tasks'[m] = tasks[m]
      /\ Events!TasksOK' /\ Events!RanInOrder' /\ Events!OpenedOnce' /\ Events!FormsFilled'
  BY PartsStay, Zenon
<1>2. \A m \in DOMAIN tasks : tasks[m].view # 0 /\ tasks[m].related = Events!OpenedFrom(tasks[m].view) =>
        tasks'[m].related = tasks[m].related
  BY <1>1
<1>3. Events!ContextsKept'
  <2>1. \A v \in DOMAIN views : Events!Kept(Events!Id(v)) => Events!Kept(Events!Id(v))'
    <3>1. \A v \in DOMAIN views : Events!Id(v)' = Events!Id(v)
      BY <1>1 DEF Events!Id, Events!DecodeModalMetadata, Grown, SameView
    <3> QED
      BY <3>1 DEF Events!Kept
  <2>2. OpeningsKept'
    <3>1. SUFFICES ASSUME NEW m \in DOMAIN tasks', tasks'[m].pc = "open"
                   PROVE  Events!Kept(Events!Opening(m))'
      BY DEF OpeningsKept
    <3>2. m \in DOMAIN tasks /\ tasks'[m] = tasks[m]
      BY <1>1, <3>1
    <3>3. Events!Kept(Events!Opening(m))
      BY <1>0, <3>1, <3>2 DEF Events!ContextsKept
    <3> QED
      BY <3>2, <3>3 DEF Events!Kept, Events!Opening
  <2> QED
    <3>1. \A c \in contexts' : c \in contexts
      OBVIOUS
    <3> QED
      BY <1>0, <1>1, <1>2, <2>1, <2>2, <3>1, ContextsStay
<1>4. Events!RelatedSoFar'
  <2>1. \A m \in DOMAIN tasks : Quiet(m)
    BY <1>1 DEF Quiet
  <2>2. \A m \in DOMAIN tasks : RelatedOf(m)'
    BY <1>0, <1>1, <1>2, <2>1, RelatedStays
  <2> QED
    BY <1>1, <2>2, RelatedOfAll
<1> QED
  BY <1>0, <1>1, <1>3, <1>4, ContextsOKStay DEF Events!IndInv

(* A handler of a task ends.                                                 *)
LEMMA RanGoesOn ==
  ASSUME NEW t \in Events!TaskSet, Events!Ahead(t) # {}, NEW how \in Ends, NEW pc \in {"run", "done"}
  PROVE  /\ AfterRun(t, how, pc) \in Events!TaskSet /\ CameAs(AfterRun(t, how, pc), t)
         /\ AfterRun(t, how, pc).related = t.related /\ AfterRun(t, how, pc).pc = pc
         /\ Len(AfterRun(t, how, pc).ran) = Len(t.ran) + 1
<1> DEFINE r == [handler |-> Events!Min(Events!Ahead(t)), how |-> how]
           ran == Append(t.ran, r)
           u == [t EXCEPT !.pc = pc, !.ran = ran]
<1>1. r \in [handler : Nat, how : {"returns", "raises", "answers"}]
  BY FirstAhead DEF Ends
<1> HIDE DEF r
<1>2. t.ran \in Seq([handler : Nat, how : {"returns", "raises", "answers"}])
  BY DEF Events!TaskSet
<1>3. ran \in Seq([handler : Nat, how : {"returns", "raises", "answers"}]) /\ Len(ran) = Len(t.ran) + 1 /\ Len(t.ran) \in Nat
  BY <1>1, <1>2
<1> HIDE DEF ran
<1>4. u \in Events!TaskSet /\ u.related = t.related /\ u.pc = pc /\ u.ran = ran
  BY <1>3 DEF Events!TaskSet
<1>5. CameAs(u, t)
  BY <1>3, <1>4 DEF CameAs, Events!TaskSet
<1> QED
  BY <1>3, <1>4, <1>5 DEF ran, r, u, AfterRun

LEMMA RanMoves ==
  ASSUME Events!IndInv, NEW n \in DOMAIN tasks, Events!Ahead(tasks[n]) # {},
         NEW how \in Ends, NEW pc \in {"run", "done"},
         pc = "done" => how = IF tasks[n].kind = "submit" THEN "answers" ELSE "raises",
         tasks[n].view = 0 \/ tasks[n].pc \in {"run", "done"},
         Events!Ran(n, how, pc), UNCHANGED <<views, contexts, missing>>
  PROVE  Events!IndInv'
<1> DEFINE t == tasks[n]
           u == AfterRun(t, how, pc)
<1>1. Events!TasksOK /\ t \in Events!TaskSet /\ Events!InOrder(t)
  BY TasksTyped DEF Events!IndInv, Events!RanInOrder
<1>2. u \in Events!TaskSet /\ CameAs(u, t) /\ u.related = t.related /\ u.pc = pc
  BY <1>1, RanGoesOn, Zenon
<1>3. Events!InOrder(u)
  BY <1>1, RanIsInOrder, Zenon
<1>4. tasks' = [tasks EXCEPT ![n] = u]
  BY DEF Events!Ran, AfterRun
<1> HIDE DEF u
<1> QED
  BY <1>1, <1>2, <1>3, <1>4, TaskMoves, ViewsStay, Zenon

LEMMA HandlersKeep ==
  ASSUME Events!IndInv, NEW n \in DOMAIN tasks,
         Events!HandlerReturns(n) \/ Events!HandlerRaises(n) \/ Events!HandlerAnswers(n)
  PROVE  Events!IndInv'
<1> SUFFICES Events!IndInv'
  OBVIOUS
<1>1. CASE Events!HandlerReturns(n)
  BY <1>1, RanMoves DEF Events!HandlerReturns, Events!Running, Ends
<1>2. CASE Events!HandlerRaises(n)
  <2>1. CASE tasks[n].kind = "submit"
    BY <1>2, <2>1, RanMoves DEF Events!HandlerRaises, Events!Running, Ends
  <2>2. CASE tasks[n].kind # "submit"
    BY <1>2, <2>2, RanMoves DEF Events!HandlerRaises, Events!Running, Ends
  <2> QED
    BY <2>1, <2>2
<1>3. CASE Events!HandlerAnswers(n)
  BY <1>3, RanMoves DEF Events!HandlerAnswers, Events!Running, Ends
<1> QED
  BY <1>1, <1>2, <1>3

(* A task goes on without a handler's end.                                   *)
LEMMA StepGoesOn ==
  ASSUME NEW t \in Events!TaskSet, NEW pc \in Pcs, Events!InOrder(t),
         pc = "done" => Events!Ahead(t) = {},
         pc \in {"store", "open"} => t.kind \in Events!Openers /\ Events!Ahead(t) # {},
         pc \in {"get", "delete", "failed"} => t.view # 0
  PROVE  LET u == [t EXCEPT !.pc = pc] IN
         u \in Events!TaskSet /\ CameAs(u, t) /\ u.related = t.related /\ u.pc = pc /\ Events!InOrder(u)
<1> DEFINE u == [t EXCEPT !.pc = pc]
<1>1. u \in Events!TaskSet /\ u.related = t.related /\ u.pc = pc /\ u.ran = t.ran /\ u.kind = t.kind /\ u.name = t.name
      /\ u.view = t.view
  BY DEF Events!TaskSet, Pcs
<1>2. CameAs(u, t)
  BY DEF CameAs, Events!TaskSet
<1> HIDE DEF u
<1>3. Events!Ahead(u) = Events!Ahead(t)
  BY <1>1 DEF Events!Ahead
<1>4. Events!InOrder(u)
  BY <1>1, <1>3 DEF Events!InOrder
<1> QED
  BY <1>1, <1>2, <1>4 DEF u

LEMMA FinishKeeps ==
  ASSUME Events!IndInv, NEW n \in DOMAIN tasks, Events!Finish(n)
  PROVE  Events!IndInv'
<1> DEFINE u == [tasks[n] EXCEPT !.pc = "done"]
<1>1. Events!TasksOK /\ tasks[n] \in Events!TaskSet /\ Events!InOrder(tasks[n])
  BY TasksTyped DEF Events!IndInv, Events!RanInOrder
<1>2. tasks[n].pc = "run" /\ Events!Ahead(tasks[n]) = {}
  BY DEF Events!Finish, Events!Running
<1>3. /\ u \in Events!TaskSet /\ CameAs(u, tasks[n]) /\ u.related = tasks[n].related
      /\ u.pc = "done" /\ Events!InOrder(u)
  BY <1>1, <1>2, StepGoesOn DEF Pcs
<1>4. tasks' = [tasks EXCEPT ![n] = u] /\ UNCHANGED <<contexts, missing>>
  BY DEF Events!Finish, Events!Step
<1>5. SameViews
  <2>1. CASE tasks[n].kind = "submit"
    <3>1. tasks[n].view \in DOMAIN views
      BY <1>1, <2>1, TasksTyped DEF Events!TasksOK, Events!TaskSet
    <3>2. views' = [views EXCEPT ![tasks[n].view].open = FALSE]
      BY <2>1 DEF Events!Finish
    <3> QED
      BY <1>1, <3>1, <3>2, ViewCloses
  <2>2. CASE tasks[n].kind # "submit"
    BY <1>1, <2>2, ViewsStay DEF Events!Finish
  <2> QED
    BY <2>1, <2>2
<1> HIDE DEF u
<1> QED
  BY <1>2, <1>3, <1>4, <1>5, TaskMoves

LEMMA OpenModalKeeps ==
  ASSUME Events!IndInv, NEW n \in DOMAIN tasks, Events!OpenModal(n)
  PROVE  Events!IndInv'
<1>1. Events!TasksOK /\ tasks[n] \in Events!TaskSet /\ Events!InOrder(tasks[n])
  BY TasksTyped DEF Events!IndInv, Events!RanInOrder
<1>2. /\ tasks[n].pc = "run" /\ Events!Ahead(tasks[n]) # {} /\ tasks[n].kind \in Events!Openers
      /\ UNCHANGED <<views, contexts, missing>>
  BY DEF Events!OpenModal, Events!Running
<1>3. CASE tasks[n].trigger
  <2> DEFINE u == [tasks[n] EXCEPT !.pc = "store"]
  <2>1. /\ u \in Events!TaskSet /\ CameAs(u, tasks[n]) /\ u.related = tasks[n].related
        /\ u.pc = "store" /\ Events!InOrder(u)
    BY <1>1, <1>2, StepGoesOn DEF Pcs
  <2>2. tasks' = [tasks EXCEPT ![n] = u]
    BY <1>3 DEF Events!OpenModal, Events!Step
  <2> HIDE DEF u
  <2> QED
    BY <1>1, <1>2, <2>1, <2>2, TaskMoves, ViewsStay
<1>4. CASE ~tasks[n].trigger
  BY <1>2, <1>4, RanMoves DEF Events!OpenModal, Ends
<1> QED
  BY <1>3, <1>4
(* A key is a uuid that goes with the view.                                  *)
LEMMA KeysAreIds ==
  ASSUME Events!TasksOK
  PROVE  /\ \A n \in DOMAIN tasks : Events!KeyOf(tasks[n]) = Events!Id(tasks[n].view)
         /\ \A key, name : Events!ContextKey(key, name) = key
  BY DEF Events!KeyOf, Events!Id, Events!ContextKey

LEMMA IdsStay ==
  ASSUME Grown
  PROVE  \A v \in DOMAIN views : Events!Id(v)' = Events!Id(v)
  BY DEF Grown, SameView, Events!Id, Events!DecodeModalMetadata

LEMMA StoreContextKeeps ==
  ASSUME Events!IndInv, NEW n \in DOMAIN tasks, Events!StoreContext(n)
  PROVE  Events!IndInv'
<1> DEFINE u   == [tasks[n] EXCEPT !.pc = "open"]
           key == Events!Opening(n)
           new == [key |-> key, origin |-> tasks[n].origin, left |-> ContextTTL]
<1>0. /\ Events!TasksOK /\ Events!ContextsOK /\ Events!ContextsKept /\ Events!RelatedSoFar
      /\ tasks[n] \in Events!TaskSet /\ Events!InOrder(tasks[n])
  BY TasksTyped DEF Events!IndInv, Events!RanInOrder
<1>1. /\ tasks[n].pc = "store" /\ tasks' = [tasks EXCEPT ![n] = u] /\ UNCHANGED views
      /\ \/ contexts' = {c \in contexts : c.key # key} \cup {new} /\ missing' = missing
         \/ contexts' = contexts /\ missing' = missing \cup {key}
  BY <1>0, KeysAreIds DEF Events!StoreContext, Events!Step
<1>2. tasks[n].kind \in Events!Openers /\ Events!Ahead(tasks[n]) # {} /\ tasks[n].view = 0
  BY <1>0, <1>1 DEF Events!InOrder, Events!TasksOK, Events!Openers
<1>3. u \in Events!TaskSet /\ CameAs(u, tasks[n]) /\ u.related = tasks[n].related /\ u.pc = "open" /\ Events!InOrder(u)
  BY <1>0, <1>2, StepGoesOn DEF Pcs
<1>4. u.ran = tasks[n].ran
  OBVIOUS
<1>5. key = <<n, Len(tasks[n].ran)>>
  BY DEF Events!Opening
<1> HIDE DEF u, key
<1>6. /\ Grown /\ DOMAIN views' = DOMAIN views /\ DOMAIN tasks' = DOMAIN tasks
      /\ tasks'[n] = u /\ \A m \in DOMAIN tasks : m # n => tasks'[m] = tasks[m]
      /\ Events!TasksOK' /\ Events!RanInOrder' /\ Events!OpenedOnce' /\ Events!FormsFilled'
  BY <1>0, <1>1, <1>3, PartsStay, ViewsStay
<1>7. \A m \in DOMAIN tasks : tasks'[m].related = tasks[m].related
  BY <1>3, <1>6
<1>8. Events!ContextsKept'
  <2>1. new.key = key /\ new.origin = tasks[n].origin /\ key[1] = n
    BY <1>5
  <2> HIDE DEF new
  <2>2. \A id : Events!Kept(id) => Events!Kept(id)'
    BY <1>1, <2>1 DEF Events!Kept
  <2>4. OpeningsKept'
    <3>1. SUFFICES ASSUME NEW m \in DOMAIN tasks', tasks'[m].pc = "open"
                   PROVE  Events!Kept(Events!Opening(m))'
      BY DEF OpeningsKept
    <3>2. CASE m = n
      <4>1. Len(tasks'[m].ran) = Len(tasks[n].ran)
        BY <1>4, <1>6, <3>2
      <4>2. key \in missing' \/ \E c \in contexts' : c.key = key
        BY <1>1, <2>1
      <4> QED
        BY <1>5, <3>2, <4>1, <4>2 DEF Events!Kept, Events!Opening
    <3>3. CASE m # n
      <4>1. m \in DOMAIN tasks /\ tasks'[m] = tasks[m]
        BY <1>6, <3>3
      <4>2. Events!Kept(Events!Opening(m))
        BY <1>0, <3>1, <4>1 DEF Events!ContextsKept
      <4> QED
        BY <2>2, <4>1, <4>2 DEF Events!Kept, Events!Opening
    <3> QED
      BY <3>2, <3>3
  <2>5. \A c \in contexts' : c \in contexts \/ (c.key[1] \in DOMAIN tasks /\ c.origin = tasks[c.key[1]].origin)
    BY <1>1, <2>1
  <2>6. \A v \in DOMAIN views : Events!Kept(Events!Id(v)) => Events!Kept(Events!Id(v))'
    BY <1>6, <2>2, IdsStay DEF Events!Kept
  <2> QED
    BY <1>0, <1>6, <1>7, <2>4, <2>5, <2>6, ContextsStay
<1>9. Events!RelatedSoFar'
  <2>1. \A m \in DOMAIN tasks : Quiet(m)
    BY <1>2, <1>6, <1>7 DEF Quiet
  <2>2. \A m \in DOMAIN tasks : RelatedOf(m)'
    BY <1>0, <1>1, <1>6, <1>7, <2>1, RelatedStays
  <2> QED
    BY <1>6, <2>2, RelatedOfAll
<1>10. Events!ContextsOK'
  <2>1. new \in [key : (DOMAIN tasks) \X Nat, origin : Events!Origins, left : 1..ContextTTL]
    BY <1>0, <1>5, EventsAssumption DEF Events!TaskSet
  <2>2. key \in (DOMAIN tasks) \X Nat
    BY <1>0, <1>5 DEF Events!TaskSet
  <2> HIDE DEF new
  <2> QED
    BY <1>0, <1>1, <1>6, <2>1, <2>2 DEF Events!ContextsOK
<1> QED
  BY <1>6, <1>8, <1>9, <1>10 DEF Events!IndInv
(* A context that runs out is missing from then on.                          *)
LEMMA TickKeeps ==
  ASSUME Events!IndInv, Events!Tick
  PROVE  Events!IndInv'
<1>0. /\ Events!TasksOK /\ Events!ContextsOK /\ Events!RanInOrder /\ Events!OpenedOnce
      /\ Events!ContextsKept /\ Events!RelatedSoFar /\ Events!FormsFilled
  BY DEF Events!IndInv
<1>1. /\ UNCHANGED <<tasks, views>>
      /\ contexts' = {[c EXCEPT !.left = @ - 1] : c \in {c \in contexts : c.left > 1}}
      /\ missing' = missing \cup {c.key : c \in {c \in contexts : c.left = 1}}
  BY DEF Events!Tick
<1>2. Grown
  BY <1>0, <1>1, TasksTyped DEF Grown, SameView, CameAs, Events!TaskSet
<1>3. \A c \in contexts : /\ [c EXCEPT !.left = @ - 1].key = c.key /\ [c EXCEPT !.left = @ - 1].origin = c.origin
                          /\ c.left \in 1..ContextTTL /\ (c.left > 1 \/ c.left = 1)
                          /\ c \in [key : (DOMAIN tasks) \X Nat, origin : Events!Origins, left : 1..ContextTTL]
                          /\ c.key \in (DOMAIN tasks) \X Nat
  <2>1. \A c \in contexts : c \in [key : (DOMAIN tasks) \X Nat, origin : Events!Origins, left : 1..ContextTTL]
    BY <1>0, Zenon DEF Events!ContextsOK
  <2>2. ContextTTL \in Nat
    BY EventsAssumption
  <2> QED
    BY <2>1, <2>2
<1>4. /\ \A d \in contexts' : \E c \in contexts : d.key = c.key /\ d.origin = c.origin
      /\ \A c \in contexts : (\E d \in contexts' : d.key = c.key) \/ c.key \in missing'
  <2>1. ASSUME NEW d \in contexts' PROVE \E c \in contexts : d.key = c.key /\ d.origin = c.origin
    BY <1>1, <1>3
  <2>2. ASSUME NEW c \in contexts PROVE (\E d \in contexts' : d.key = c.key) \/ c.key \in missing'
    <3>1. CASE c.left > 1
      <4>1. [c EXCEPT !.left = @ - 1] \in contexts'
        BY <1>1, <3>1
      <4> QED
        BY <1>3, <4>1
    <3>2. CASE c.left = 1
      BY <1>1, <3>2
    <3> QED
      BY <1>3, <3>1, <3>2
  <2> QED
    BY <2>1, <2>2
<1>5. \A id : Events!Kept(id) => Events!Kept(id)'
  BY <1>1, <1>4 DEF Events!Kept
<1>6. Events!ContextsOK'
  <2>1. ASSUME NEW d \in contexts'
        PROVE  d \in [key : (DOMAIN tasks) \X Nat, origin : Events!Origins, left : 1..ContextTTL]
    <3>1. PICK c \in contexts : c.left > 1 /\ d = [c EXCEPT !.left = @ - 1]
      BY <1>1
    <3>2. c.left - 1 \in 1..ContextTTL
      <4>1. c.left \in 1..ContextTTL /\ c.left > 1
        BY <1>3, <3>1
      <4>2. ContextTTL \in Nat
        BY EventsAssumption
      <4> QED
        BY <4>1, <4>2
    <3> DEFINE T == (DOMAIN tasks) \X Nat
               Left == 1..ContextTTL
    <3>3. c \in [key : T, origin : Events!Origins, left : Left]
      BY <1>3, Zenon
    <3> HIDE DEF T, Left
    <3>4. d \in [key : T, origin : Events!Origins, left : Left]
      <4>1. c.left - 1 \in Left
        BY <3>2 DEF Left
      <4> QED
        BY <3>1, <3>3, <4>1
    <3> QED
      BY <3>4 DEF T, Left
  <2>2. missing' \subseteq (DOMAIN tasks) \X Nat
    <3>1. missing \subseteq (DOMAIN tasks) \X Nat
      BY <1>0, Zenon DEF Events!ContextsOK
    <3> DEFINE T == (DOMAIN tasks) \X Nat
    <3>2. missing \subseteq T /\ \A c \in contexts : c.key \in T
      BY <1>3, <3>1
    <3> HIDE DEF T
    <3>3. missing' \subseteq T
      BY <1>1, <3>2
    <3> QED
      BY <3>3 DEF T
  <2> QED
    BY <1>1, <2>1, <2>2 DEF Events!ContextsOK
<1>7. Events!ContextsKept'
  <2>1. OpeningsKept'
    <3>1. OpeningsKept
      BY <1>0 DEF OpeningsKept, Events!ContextsKept
    <3> QED
      BY <1>1, <1>5, <3>1 DEF OpeningsKept, Events!Kept, Events!Opening
  <2>2. \A c \in contexts' : c \in contexts \/ (c.key[1] \in DOMAIN tasks /\ c.origin = tasks[c.key[1]].origin)
    BY <1>0, <1>4 DEF Events!ContextsKept
  <2>3. \A v \in DOMAIN views : Events!Kept(Events!Id(v)) => Events!Kept(Events!Id(v))'
    BY <1>2, <1>5, IdsStay DEF Events!Kept
  <2> QED
    BY <1>0, <1>1, <1>2, <2>1, <2>2, <2>3, ContextsStay
<1>8. Events!RelatedSoFar'
  <2>1. \A m \in DOMAIN tasks : Quiet(m)
    BY <1>1 DEF Quiet
  <2>2. \A m \in DOMAIN tasks : RelatedOf(m)'
    BY <1>0, <1>1, <1>2, <2>1, RelatedStays
  <2> QED
    BY <1>1, <2>2, RelatedOfAll
<1>9. Events!TasksOK' /\ Events!RanInOrder'
  BY <1>0, <1>1 DEF Events!TasksOK, Events!TaskSet, Events!ViewSet, Events!RanInOrder
<1>10. Events!OpenedOnce' /\ Events!FormsFilled'
  BY <1>0, <1>1, <1>2, OpenedStays, FormsStay
<1> QED
  BY <1>6, <1>7, <1>8, <1>9, <1>10 DEF Events!IndInv

(* A task goes on with what it is related to.                                *)
WithRelated(t, pc, r) == [t EXCEPT !.pc = pc, !.related = r]

LEMMA WithRelatedTyped ==
  ASSUME NEW t \in Events!TaskSet, NEW p \in {"run", "delete", "failed"}, NEW r \in Events!Origins
  PROVE  [t EXCEPT !.pc = p, !.related = r] \in Events!TaskSet
  BY DEF Events!TaskSet

LEMMA WithRelatedFields ==
  ASSUME NEW t \in Events!TaskSet, NEW p, NEW r
  PROVE  /\ WithRelated(t, p, r).related = r /\ WithRelated(t, p, r).pc = p
         /\ WithRelated(t, p, r).ran = t.ran /\ WithRelated(t, p, r).kind = t.kind
         /\ WithRelated(t, p, r).name = t.name /\ WithRelated(t, p, r).view = t.view
         /\ WithRelated(t, p, r).origin = t.origin /\ WithRelated(t, p, r).form = t.form
         /\ WithRelated(t, p, r).values = t.values
  BY DEF Events!TaskSet, WithRelated

LEMMA RelatedAsItWas ==
  ASSUME NEW t \in Events!TaskSet, NEW p
  PROVE  [t EXCEPT !.pc = p] = [t EXCEPT !.pc = p, !.related = t.related] /\ t.related \in Events!Origins
  BY DEF Events!TaskSet

LEMMA RelatedGoesOn ==
  ASSUME NEW t \in Events!TaskSet, NEW p \in {"run", "delete", "failed"}, NEW r \in Events!Origins,
         Events!InOrder(t), t.view # 0
  PROVE  /\ WithRelated(t, p, r) \in Events!TaskSet /\ CameAs(WithRelated(t, p, r), t)
         /\ WithRelated(t, p, r).related = r /\ WithRelated(t, p, r).pc = p
         /\ Events!InOrder(WithRelated(t, p, r))
<1> DEFINE u == WithRelated(t, p, r)
<1>1. u \in Events!TaskSet
  BY WithRelatedTyped, Zenon DEF WithRelated
<1>2. /\ u.related = r /\ u.pc = p /\ u.ran = t.ran /\ u.kind = t.kind /\ u.name = t.name
      /\ u.view = t.view /\ u.origin = t.origin /\ u.form = t.form /\ u.values = t.values
  BY WithRelatedFields
<1>3. Len(t.ran) \in Nat
  BY DEF Events!TaskSet
<1> HIDE DEF u
<1>4. CameAs(u, t)
  BY <1>2, <1>3 DEF CameAs
<1>5. Events!Ahead(u) = Events!Ahead(t)
  BY <1>2 DEF Events!Ahead
<1>6. Events!InOrder(u)
  BY <1>2, <1>5 DEF Events!InOrder
<1> QED
  BY <1>1, <1>2, <1>4, <1>6 DEF u

(* An event of a view whose context is gone is not the first of the view.    *)
LEMMA GetContextKeeps ==
  ASSUME Events!IndInv, NEW n \in DOMAIN tasks, Events!GetContext(n)
  PROVE  Events!IndInv'
<1> DEFINE t == tasks[n]
<1>0. Events!TasksOK /\ Events!ContextsOK /\ Events!OpenedOnce /\ Events!ContextsKept /\ Events!RelatedSoFar
  BY DEF Events!IndInv
<1>a. t \in Events!TaskSet /\ Events!InOrder(t)
  BY <1>0, TasksTyped DEF Events!IndInv, Events!RanInOrder
<1>b. RelatedOf(n)
  BY <1>0, Zenon DEF Events!RelatedSoFar, RelatedOf
<1>1. t.pc = "get" /\ t.view # 0 /\ t.view \in DOMAIN views /\ UNCHANGED <<views, contexts, missing>>
  <2>1. t.pc = "get" /\ UNCHANGED <<views, contexts, missing>>
    BY Zenon DEF Events!GetContext
  <2>2. t.view # 0
    BY <1>a, <2>1 DEF Events!InOrder
  <2>3. t.view \in 0..Len(views) /\ Len(views) \in Nat /\ DOMAIN views = 1..Len(views)
    BY <1>0, <1>a, TasksTyped DEF Events!TaskSet
  <2> QED
    BY <2>1, <2>2, <2>3
<1>2. PICK pc \in {"run", "delete", "failed"}, r \in Events!Origins :
        /\ tasks' = [tasks EXCEPT ![n] = WithRelated(t, pc, r)]
        /\ pc = "delete" => r = Events!OpenedFrom(t.view)
        /\ pc # "delete" => r = t.related
        /\ pc = "run" => ~Events!Kept(Events!Id(t.view)) \/ Events!Id(t.view) \in missing
  <2>1. CASE \E c \in contexts : /\ c.key = Events!KeyOf(t)
                                 /\ tasks' = [tasks EXCEPT ![n] = [@ EXCEPT !.pc = "delete", !.related = c.origin]]
    <3>1. PICK c \in contexts : /\ c.key = Events!KeyOf(t)
                                /\ tasks' = [tasks EXCEPT ![n] = [@ EXCEPT !.pc = "delete", !.related = c.origin]]
      BY <2>1, Zenon
    <3>2. c.key = Events!Id(t.view)
      BY <1>0, <3>1, KeysAreIds, Zenon
    <3>3. c.origin = Events!OpenedFrom(t.view)
      BY <1>0, <1>1, <3>2 DEF Events!ContextsKept, Events!OpenedOnce, Events!OpenedFrom
    <3>4. c.origin \in Events!Origins
      BY <1>0, Zenon DEF Events!ContextsOK
    <3>5. tasks' = [tasks EXCEPT ![n] = WithRelated(t, "delete", c.origin)]
      BY <3>1, Zenon DEF WithRelated
    <3> QED
      BY <3>3, <3>4, <3>5, Zenon
  <2>2. CASE Events!Step(n, "failed")
    <3>1. tasks' = [tasks EXCEPT ![n] = [t EXCEPT !.pc = "failed"]]
      BY <2>2, Zenon DEF Events!Step
    <3>2. tasks' = [tasks EXCEPT ![n] = WithRelated(t, "failed", t.related)] /\ t.related \in Events!Origins
      BY <1>a, <3>1, RelatedAsItWas, Zenon DEF WithRelated
    <3> QED
      BY <3>2, Zenon
  <2>3. CASE Events!Step(n, "run") /\ ~\E c \in contexts : c.key = Events!KeyOf(t)
    <3>1. ~Events!Kept(Events!Id(t.view)) \/ Events!Id(t.view) \in missing
      BY <1>0, <2>3, KeysAreIds DEF Events!Kept
    <3>2. tasks' = [tasks EXCEPT ![n] = [t EXCEPT !.pc = "run"]]
      BY <2>3, Zenon DEF Events!Step
    <3>3. tasks' = [tasks EXCEPT ![n] = WithRelated(t, "run", t.related)] /\ t.related \in Events!Origins
      BY <1>a, <3>2, RelatedAsItWas, Zenon DEF WithRelated
    <3> QED
      BY <3>1, <3>3, Zenon
  <2> QED
    BY <2>1, <2>2, <2>3, Zenon DEF Events!GetContext
<1> DEFINE u == WithRelated(t, pc, r)
<1>3. u \in Events!TaskSet /\ CameAs(u, t) /\ u.related = r /\ u.pc = pc /\ Events!InOrder(u)
  BY <1>a, <1>1, <1>2, RelatedGoesOn
<1>5. tasks' = [tasks EXCEPT ![n] = u]
  BY <1>2
<1> HIDE DEF u
<1>7. /\ Grown /\ DOMAIN views' = DOMAIN views /\ DOMAIN tasks' = DOMAIN tasks
      /\ tasks'[n] = u /\ \A m \in DOMAIN tasks : m # n => tasks'[m] = tasks[m]
      /\ Events!TasksOK' /\ Events!RanInOrder' /\ Events!OpenedOnce' /\ Events!FormsFilled'
  BY <1>0, <1>1, <1>a, <1>3, <1>5, PartsStay, ViewsStay, Zenon
<1>8. \A m \in DOMAIN tasks : tasks[m].view # 0 /\ tasks[m].related = Events!OpenedFrom(tasks[m].view) =>
        tasks'[m].related = tasks[m].related
  BY <1>2, <1>3, <1>7
<1>9. Events!ContextsKept'
  <2>1. \A v \in DOMAIN views : Events!Kept(Events!Id(v)) => Events!Kept(Events!Id(v))'
    BY <1>1, <1>7, IdsStay DEF Events!Kept
  <2>2. OpeningsKept'
    <3>1. SUFFICES ASSUME NEW m \in DOMAIN tasks', tasks'[m].pc = "open"
                   PROVE  Events!Kept(Events!Opening(m))'
      BY DEF OpeningsKept
    <3>2. m \in DOMAIN tasks /\ tasks'[m] = tasks[m]
      BY <1>2, <1>3, <1>7, <3>1
    <3>3. Events!Kept(Events!Opening(m))
      BY <1>0, <3>1, <3>2 DEF Events!ContextsKept
    <3> QED
      BY <1>1, <3>2, <3>3 DEF Events!Kept, Events!Opening
  <2>3. \A c \in contexts' : c \in contexts
    BY <1>1
  <2> QED
    BY <1>0, <1>7, <1>8, <2>1, <2>2, <2>3, ContextsStay
<1>10. Events!RelatedSoFar'
  <2>1. \A m \in DOMAIN tasks : m # n => RelatedOf(m)'
    <3>1. \A m \in DOMAIN tasks : m # n => Quiet(m)
      BY <1>7 DEF Quiet
    <3> QED
      BY <1>0, <1>1, <1>7, <1>8, <3>1, RelatedStays
  <2>2. RelatedOf(n)'
    <3>1. /\ tasks'[n].view = t.view /\ Events!Id(t.view)' = Events!Id(t.view)
          /\ Events!OpenedFrom(t.view)' = Events!OpenedFrom(t.view)
      BY <1>0, <1>1, <1>a, <1>3, <1>7, IdsStay, TasksTyped DEF Events!OpenedFrom, Events!ViewSet, Grown, CameAs, SameView
    <3>2. CASE r = Events!OpenedFrom(t.view)
      BY <1>3, <1>7, <3>1, <3>2 DEF RelatedOf
    <3>3. CASE r # Events!OpenedFrom(t.view)
      <4>1. r = Unknown /\ pc # "delete"
        BY <1>b, <1>1, <1>2, <3>3 DEF RelatedOf
      <4>2. pc = "run" => Events!Id(t.view) \in missing \/ GoneTo(t.view)
        BY <1>0, <1>1, <1>2 DEF Events!ContextsKept, GoneTo
      <4>3. GoneTo(t.view) => \E m \in DOMAIN tasks' : tasks'[m].view = t.view /\ tasks'[m].related = Events!OpenedFrom(t.view)
        BY <1>1, <1>7, <1>8 DEF GoneTo, Grown, CameAs
      <4> QED
        BY <1>1, <1>2, <1>3, <1>7, <3>1, <4>1, <4>2, <4>3 DEF RelatedOf
    <3> QED
      BY <3>2, <3>3
  <2> QED
    BY <1>7, <2>1, <2>2, RelatedOfAll
<1>11. Events!ContextsOK'
  BY <1>0, <1>1, <1>7, ContextsOKStay
<1> QED
  BY <1>7, <1>9, <1>10, <1>11 DEF Events!IndInv

(* A context is deleted by the event that got it: that of no other view, and *)
(* of no modal that is being opened.                                         *)
LEMMA DeleteContextKeeps ==
  ASSUME Events!IndInv, NEW n \in DOMAIN tasks, Events!DeleteContext(n)
  PROVE  Events!IndInv'
<1> DEFINE t  == tasks[n]
           id == Events!Id(t.view)
<1>0. Events!TasksOK /\ Events!ContextsOK /\ Events!OpenedOnce /\ Events!ContextsKept /\ Events!RelatedSoFar
  BY DEF Events!IndInv
<1>a. t \in Events!TaskSet /\ Events!InOrder(t)
  BY <1>0, TasksTyped DEF Events!IndInv, Events!RanInOrder
<1>b. RelatedOf(n)
  BY <1>0, Zenon DEF Events!RelatedSoFar, RelatedOf
<1>1. t.pc = "delete" /\ t.view # 0 /\ t.view \in DOMAIN views /\ UNCHANGED <<views, missing>>
  <2>1. t.pc = "delete" /\ UNCHANGED <<views, missing>>
    BY Zenon DEF Events!DeleteContext
  <2>2. t.view # 0
    BY <1>a, <2>1 DEF Events!InOrder
  <2>3. t.view \in 0..Len(views) /\ Len(views) \in Nat /\ DOMAIN views = 1..Len(views)
    BY <1>0, <1>a, TasksTyped DEF Events!TaskSet
  <2> QED
    BY <2>1, <2>2, <2>3
<1>2. t.related = Events!OpenedFrom(t.view)
  BY <1>b, <1>1 DEF RelatedOf
<1>3. PICK pc \in {"run", "failed"} :
        /\ tasks' = [tasks EXCEPT ![n] = [t EXCEPT !.pc = pc]]
        /\ contexts' \subseteq contexts /\ \A c \in contexts : c.key # id => c \in contexts'
  <2>1. CASE contexts' = {c \in contexts : c.key # Events!KeyOf(t)} /\ Events!Step(n, "run")
    <3>1. contexts' = {c \in contexts : c.key # id}
      BY <1>0, <2>1, KeysAreIds, Zenon
    <3>2. tasks' = [tasks EXCEPT ![n] = [t EXCEPT !.pc = "run"]]
      BY <2>1, Zenon DEF Events!Step
    <3>3. contexts' \subseteq contexts /\ \A c \in contexts : c.key # id => c \in contexts'
      BY <3>1, Zenon
    <3> QED
      BY <3>2, <3>3, Zenon
  <2>2. CASE UNCHANGED contexts /\ Events!Step(n, "failed")
    <3>1. tasks' = [tasks EXCEPT ![n] = [t EXCEPT !.pc = "failed"]]
      BY <2>2, Zenon DEF Events!Step
    <3> QED
      BY <2>2, <3>1, Zenon
  <2> QED
    BY <2>1, <2>2, Zenon DEF Events!DeleteContext
<1> DEFINE u == [t EXCEPT !.pc = pc]
<1>4. u \in Events!TaskSet /\ CameAs(u, t) /\ u.related = t.related /\ u.pc = pc /\ Events!InOrder(u)
  <2>1. /\ pc \in Pcs /\ pc \notin {"store", "open"} /\ pc # "done"
        /\ pc \in {"get", "delete", "failed"} => t.view # 0
    BY <1>1 DEF Pcs
  <2> QED
    BY <1>a, <2>1, StepGoesOn, Zenon
<1>5. tasks' = [tasks EXCEPT ![n] = u]
  BY <1>3, Zenon
<1> HIDE DEF u
<1>6. /\ Grown /\ DOMAIN views' = DOMAIN views /\ DOMAIN tasks' = DOMAIN tasks
      /\ tasks'[n] = u /\ \A m \in DOMAIN tasks : m # n => tasks'[m] = tasks[m]
      /\ Events!TasksOK' /\ Events!RanInOrder' /\ Events!OpenedOnce' /\ Events!FormsFilled'
  BY <1>0, <1>1, <1>a, <1>4, <1>5, PartsStay, ViewsStay, Zenon
<1>7. \A m \in DOMAIN tasks : tasks'[m].related = tasks[m].related
  BY <1>4, <1>6
<1>8. \A other : Events!Kept(other) /\ other # id => Events!Kept(other)'
  BY <1>1, <1>3 DEF Events!Kept
<1>9. Events!ContextsKept'
  <2>1. OpeningsKept'
    <3>1. SUFFICES ASSUME NEW m \in DOMAIN tasks', tasks'[m].pc = "open"
                   PROVE  Events!Kept(Events!Opening(m))'
      BY DEF OpeningsKept
    <3>2. m \in DOMAIN tasks /\ tasks'[m] = tasks[m]
      BY <1>3, <1>4, <1>6, <3>1
    <3>3. Events!Kept(Events!Opening(m))
      BY <1>0, <3>1, <3>2, Zenon DEF Events!ContextsKept
    <3>4. Events!Opening(m) # id
      <4>1. id[1] = views[t.view].by /\ id[2] < Len(tasks[views[t.view].by].ran)
        BY <1>0, <1>1, Zenon DEF Events!OpenedOnce
      <4>2. Len(tasks[m].ran) \in Nat
        BY <1>0, <3>2, TasksTyped DEF Events!TaskSet
      <4> QED
        BY <4>1, <4>2 DEF Events!Opening
    <3>5. Events!Opening(m)' = Events!Opening(m)
      BY <3>2 DEF Events!Opening
    <3> QED
      BY <1>8, <3>3, <3>4, <3>5 DEF Events!Kept
  <2>2. \A v \in DOMAIN views : Events!Kept(Events!Id(v)) => Events!Kept(Events!Id(v))' \/ GoneTo(v)
    <3>1. SUFFICES ASSUME NEW v \in DOMAIN views, Events!Kept(Events!Id(v)) PROVE Events!Kept(Events!Id(v))' \/ GoneTo(v)
      OBVIOUS
    <3>2. CASE Events!Id(v) = id
      BY <1>0, <1>1, <1>2, <3>1, <3>2 DEF Events!OpenedOnce, GoneTo
    <3>3. CASE Events!Id(v) # id
      BY <1>6, <1>8, <3>1, <3>3, IdsStay DEF Events!Kept
    <3> QED
      BY <3>2, <3>3
  <2>3. \A c \in contexts' : c \in contexts
    BY <1>3
  <2> QED
    BY <1>0, <1>6, <1>7, <2>1, <2>2, <2>3, ContextsStay
<1>10. Events!RelatedSoFar'
  <2>1. \A m \in DOMAIN tasks : m # n => RelatedOf(m)'
    <3>1. \A m \in DOMAIN tasks : m # n => Quiet(m)
      BY <1>6 DEF Quiet
    <3> QED
      BY <1>0, <1>1, <1>6, <1>7, <3>1, RelatedStays
  <2>2. RelatedOf(n)'
    <3>1. tasks'[n].view = t.view /\ Events!OpenedFrom(t.view)' = Events!OpenedFrom(t.view)
      BY <1>0, <1>1, <1>a, <1>4, <1>6, TasksTyped DEF Events!OpenedFrom, Events!ViewSet, Grown, CameAs, SameView
    <3> QED
      BY <1>2, <1>7, <3>1 DEF RelatedOf
  <2> QED
    BY <1>6, <2>1, <2>2, RelatedOfAll
<1>11. Events!ContextsOK'
  BY <1>0, <1>1, <1>3, <1>6, ContextsOKStay
<1> QED
  BY <1>6, <1>9, <1>10, <1>11 DEF Events!IndInv

LEMMA ElementAdded ==
  ASSUME NEW S, NEW s \in Seq(S), NEW e \in S
  PROVE  /\ Append(s, e) \in Seq(S) /\ Len(Append(s, e)) = Len(s) + 1 /\ Append(s, e)[Len(s) + 1] = e
         /\ \A m \in DOMAIN s : m \in DOMAIN Append(s, e) /\ Append(s, e)[m] = s[m]
         /\ \A m \in DOMAIN Append(s, e) : m \in DOMAIN s \/ m = Len(s) + 1
         /\ Len(s) + 1 \in DOMAIN Append(s, e) /\ Len(s) + 1 \notin DOMAIN s
<1>1. Append(s, e) \in Seq(S) /\ Len(Append(s, e)) = Len(s) + 1 /\ Append(s, e)[Len(s) + 1] = e
  OBVIOUS
<1>2. /\ Len(s) \in Nat /\ DOMAIN s = 1..Len(s) /\ DOMAIN Append(s, e) = 1..(Len(s) + 1)
      /\ \A m \in 1..Len(s) : Append(s, e)[m] = s[m]
  BY <1>1
<1> QED
  BY <1>1, <1>2

(* Where tasks or views are added, those there were still have their types.  *)
LEMMA TypesGrow ==
  ASSUME Events!TasksOK, Len(views') \in Nat, Len(views) <= Len(views'), DOMAIN tasks \subseteq DOMAIN tasks'
  PROVE  Events!TaskSet \subseteq Events!TaskSet' /\ Events!ViewSet \subseteq Events!ViewSet'
<1>1. 0..Len(views) \subseteq 0..Len(views')
  BY TasksTyped
<1>2. ASSUME NEW t \in Events!TaskSet PROVE t \in Events!TaskSet'
  BY <1>1 DEF Events!TaskSet
<1>3. ASSUME NEW v \in Events!ViewSet PROVE v \in Events!ViewSet'
  BY DEF Events!ViewSet
<1> QED
  BY <1>2, <1>3

(* A view has a block for each input, with options the handler gave.         *)
LEMMA OptionsShown ==
  ASSUME NEW input \in Events!Inputs
  PROVE  Events!ShownOptions(input) \subseteq Events!ToSet(input.options) /\ Events!ShownOptions(input) \subseteq STRING
<1>1. input.options \in Seq(STRING) /\ MaxOptions \in Nat
  BY EventsAssumption DEF Events!Inputs
<1> QED
  BY <1>1 DEF Events!ShownOptions, Events!FirstOf, Events!ToSet

LEMMA BlocksTyped ==
  ASSUME NEW modal \in Modals
  PROVE  /\ Events!ModalToSlackView(modal) \in Seq([type : Events!InputTypes, options : SUBSET STRING, initial : Events!Answers])
         /\ DOMAIN Events!ModalToSlackView(modal) = DOMAIN modal
         /\ \A i \in DOMAIN modal : modal[i] \in Events!Inputs
<1> DEFINE S == [type : Events!InputTypes, options : SUBSET STRING, initial : Events!Answers]
<1>1. Len(modal) \in Nat /\ DOMAIN modal = 1..Len(modal) /\ \A i \in 1..Len(modal) : modal[i] \in Events!Inputs
  <2>1. modal \in Seq(Events!Inputs)
    BY EventsAssumption, Zenon
  <2> QED
    BY <2>1, SeqElements, Zenon
<1>2. ASSUME NEW input \in Events!Inputs PROVE Events!ModalChildToBlock(input) \in S
  <2>1. input.type \in Events!InputTypes /\ input.initial \in Events!Answers
    BY DEF Events!Inputs, Events!Answers
  <2>2. Unknown \in Events!Answers
    BY DEF Events!Answers
  <2>3. Events!ShownOptions(input) \in SUBSET STRING
    BY OptionsShown
  <2> QED
    BY <2>1, <2>2, <2>3 DEF Events!ModalChildToBlock
<1> HIDE DEF S
<1>3. Events!ModalToSlackView(modal) = [i \in 1..Len(modal) |-> Events!ModalChildToBlock(modal[i])]
  BY <1>1, Zenon DEF Events!ModalToSlackView
<1>4. \A i \in 1..Len(modal) : Events!ModalChildToBlock(modal[i]) \in S
  BY <1>1, <1>2
<1>5. Events!ModalToSlackView(modal) \in Seq(S)
  BY <1>1, <1>3, <1>4
<1> QED
  BY <1>1, <1>3, <1>5, Zenon DEF S

(* A view is opened by a handler that has then run.                          *)
View(n, modal) ==
  [callback |-> tasks[n].name, by |-> n, open |-> TRUE, modal |-> modal,
   blocks |-> Events!ModalToSlackView(modal), metadata |-> Events!EncodeModalMetadata(Events!Opening(n))]

LEMMA ViewTyped ==
  ASSUME Events!TasksOK, NEW n \in DOMAIN tasks, NEW modal \in Modals
  PROVE  /\ View(n, modal) \in Events!ViewSet
         /\ View(n, modal).by = n /\ View(n, modal).metadata.c = <<n, Len(tasks[n].ran)>>
         /\ View(n, modal).blocks = Events!ModalToSlackView(View(n, modal).modal)
<1>1. tasks[n].name \in STRING /\ Len(tasks[n].ran) \in Nat
  BY TasksTyped DEF Events!TaskSet
<1>2. Events!ModalToSlackView(modal) \in Seq([type : Events!InputTypes, options : SUBSET STRING, initial : Events!Answers])
  BY BlocksTyped, Zenon
<1> DEFINE blocks == Events!ModalToSlackView(modal)
<1> HIDE DEF blocks
<1>3. View(n, modal) = [callback |-> tasks[n].name, by |-> n, open |-> TRUE, modal |-> modal, blocks |-> blocks,
                        metadata |-> [c |-> <<n, Len(tasks[n].ran)>>, m |-> Unknown]]
  BY DEF View, blocks, Events!EncodeModalMetadata, Events!Opening
<1>4. [callback |-> tasks[n].name, by |-> n, open |-> TRUE, modal |-> modal, blocks |-> blocks,
       metadata |-> [c |-> <<n, Len(tasks[n].ran)>>, m |-> Unknown]] \in Events!ViewSet
  BY <1>1, <1>2 DEF Events!ViewSet, blocks
<1> QED
  BY <1>3, <1>4 DEF blocks

LEMMA ViewOpens ==
  ASSUME Events!IndInv, NEW n \in DOMAIN tasks, NEW modal \in Modals, tasks[n].pc = "open",
         Events!Ran(n, "returns", "run"), views' = Append(views, View(n, modal)), UNCHANGED <<contexts, missing>>
  PROVE  Events!IndInv'
<1> DEFINE t == tasks[n]
           u == AfterRun(t, "returns", "run")
           w == View(n, modal)
<1> PICK v : v = Len(views) + 1
  OBVIOUS
<1>0. /\ Events!TasksOK /\ Events!ContextsOK /\ Events!RanInOrder /\ Events!OpenedOnce
      /\ Events!ContextsKept /\ Events!RelatedSoFar /\ Events!FormsFilled
  BY DEF Events!IndInv
<1>1. /\ t \in Events!TaskSet /\ Events!InOrder(t) /\ Len(t.ran) \in Nat /\ tasks[n].view = 0 /\ Events!Ahead(t) # {}
  <2>1. t \in Events!TaskSet /\ Events!InOrder(t) /\ Len(t.ran) \in Nat
    BY <1>0, TasksTyped DEF Events!RanInOrder, Events!TaskSet
  <2>2. t.kind \in Events!Openers /\ Events!Ahead(t) # {}
    BY <2>1 DEF Events!InOrder
  <2> QED
    BY <1>0, <2>1, <2>2 DEF Events!TasksOK, Events!Openers
<1>2. /\ u \in Events!TaskSet /\ CameAs(u, t) /\ u.related = t.related /\ u.pc = "run"
      /\ Len(u.ran) = Len(t.ran) + 1 /\ Events!InOrder(u)
  BY <1>1, RanGoesOn, RanIsInOrder DEF Ends
<1>3. tasks' = [tasks EXCEPT ![n] = u]
  BY DEF Events!Ran, AfterRun
<1> HIDE DEF u
<1>4. /\ Len(tasks') = Len(tasks) /\ DOMAIN tasks' = DOMAIN tasks /\ tasks' \in Seq(Events!TaskSet)
      /\ tasks'[n] = u /\ \A m \in DOMAIN tasks : m # n => tasks'[m] = tasks[m]
      /\ \A m \in DOMAIN tasks : CameAs(tasks'[m], tasks[m]) /\ tasks'[m] \in Events!TaskSet
  BY <1>0, <1>2, <1>3, TaskGoesOn, Zenon
<1>5. /\ w \in Events!ViewSet /\ w.by = n /\ w.metadata.c = <<n, Len(t.ran)>>
      /\ w.blocks = Events!ModalToSlackView(w.modal)
  BY <1>0, ViewTyped
<1>6. views' = Append(views, w)
  OBVIOUS
<1> HIDE DEF w
<1>7. /\ views' \in Seq(Events!ViewSet) /\ Len(views') = Len(views) + 1 /\ views'[v] = w
      /\ \A x \in DOMAIN views : x \in DOMAIN views' /\ views'[x] = views[x]
      /\ \A x \in DOMAIN views' : x \in DOMAIN views \/ x = v
      /\ v \in DOMAIN views' /\ v \notin DOMAIN views /\ Len(views) \in Nat
  <2>1. views \in Seq(Events!ViewSet)
    BY <1>0, Zenon DEF Events!TasksOK
  <2>2. Len(views) \in Nat
    BY <2>1
  <2>3. w \in Events!ViewSet
    BY <1>5
  <2>4. /\ Append(views, w) \in Seq(Events!ViewSet) /\ Len(Append(views, w)) = Len(views) + 1
        /\ Append(views, w)[Len(views) + 1] = w
        /\ \A x \in DOMAIN views : x \in DOMAIN Append(views, w) /\ Append(views, w)[x] = views[x]
        /\ \A x \in DOMAIN Append(views, w) : x \in DOMAIN views \/ x = Len(views) + 1
        /\ Len(views) + 1 \in DOMAIN Append(views, w) /\ Len(views) + 1 \notin DOMAIN views
    BY <2>1, <2>3, ElementAdded, Zenon
  <2> QED
    BY <1>6, <2>2, <2>4, Zenon
<1>8. Grown
  BY <1>4, <1>7 DEF Grown, SameView
<1>9. Events!TasksOK'
  <2>1. Events!TaskSet \subseteq Events!TaskSet' /\ Events!ViewSet \subseteq Events!ViewSet'
    <3>1. Len(views') \in Nat /\ Len(views) <= Len(views') /\ DOMAIN tasks \subseteq DOMAIN tasks'
      BY <1>4, <1>7
    <3> QED
      BY <1>0, <3>1, TypesGrow, Zenon
  <2>2. tasks' \in Seq(Events!TaskSet') /\ views' \in Seq(Events!ViewSet')
    BY <1>4, <1>7, <2>1, WiderSeq, Zenon
  <2>3. (\A m \in DOMAIN tasks : (tasks[m].view = 0) = (tasks[m].kind \notin {"submit", "close"}))'
    BY <1>0, <1>4 DEF CameAs, Events!TasksOK
  <2> QED
    BY <2>2, <2>3, Zenon DEF Events!TasksOK, Events!TaskSet, Events!ViewSet
<1>10. Events!RanInOrder'
  <2>1. \A m \in DOMAIN tasks : Events!InOrder(tasks'[m])
    BY <1>0, <1>2, <1>4, Zenon DEF Events!RanInOrder
  <2> QED
    BY <1>4, <2>1, Zenon DEF Events!RanInOrder, Events!InOrder, Events!Ahead, Events!Matching
<1>11. Events!Id(v)' = <<n, Len(t.ran)>> /\ \A x \in DOMAIN views : Events!Id(x)' = Events!Id(x)
  BY <1>5, <1>7, <1>8, IdsStay DEF Events!Id, Events!DecodeModalMetadata
<1>12. Events!OpenedOnce'
  <2>1. ASSUME NEW x \in DOMAIN views
        PROVE  /\ Events!Id(x)'[1] = views'[x].by /\ Events!Id(x)'[2] < Len(tasks'[views'[x].by].ran)
               /\ Events!Id(x)' # Events!Id(v)'
               /\ \A y \in DOMAIN views : Events!Id(x)' = Events!Id(y)' => x = y
    <3>1. /\ Events!Id(x)[1] = views[x].by /\ Events!Id(x)[2] < Len(tasks[views[x].by].ran)
          /\ \A y \in DOMAIN views : Events!Id(x) = Events!Id(y) => x = y
      BY <1>0, <2>1, Zenon DEF Events!OpenedOnce
    <3>2. views[x].by \in DOMAIN tasks /\ views[x].metadata.c[2] \in Nat /\ views'[x] = views[x]
      BY <1>0, <1>7, <2>1, TasksTyped DEF Events!ViewSet
    <3>3. Events!Id(x)[2] \in Nat
      BY <3>2 DEF Events!Id, Events!DecodeModalMetadata
    <3>4. Len(tasks[views[x].by].ran) <= Len(tasks'[views[x].by].ran) /\ Len(tasks'[views[x].by].ran) \in Nat
          /\ Len(tasks[views[x].by].ran) \in Nat
      BY <1>4, <3>2 DEF CameAs
    <3>5. Events!Id(x) # <<n, Len(t.ran)>>
      BY <1>1, <3>1, <3>3
    <3>6. Events!Id(x)[2] < Len(tasks'[views[x].by].ran)
      BY <3>1, <3>3, <3>4, SMTT(30)
    <3> QED
      BY <1>11, <2>1, <3>1, <3>2, <3>5, <3>6
  <2>2. /\ Events!Id(v)'[1] = views'[v].by /\ Events!Id(v)'[2] < Len(tasks'[views'[v].by].ran)
    BY <1>1, <1>2, <1>4, <1>5, <1>7, <1>11
  <2>3. ASSUME NEW x \in DOMAIN views'
        PROVE  /\ Events!Id(x)'[1] = views'[x].by /\ Events!Id(x)'[2] < Len(tasks'[views'[x].by].ran)
               /\ \A y \in DOMAIN views' : Events!Id(x)' = Events!Id(y)' => x = y
    <3>1. x \in DOMAIN views \/ x = v
      BY <1>7, <2>3, Zenon
    <3>2. /\ Events!Id(x)'[1] = views'[x].by /\ Events!Id(x)'[2] < Len(tasks'[views'[x].by].ran)
      BY <2>1, <2>2, <3>1, Zenon
    <3>3. ASSUME NEW y \in DOMAIN views', Events!Id(x)' = Events!Id(y)' PROVE x = y
      BY <1>7, <2>1, <3>1, <3>3, Zenon
    <3> QED
      BY <3>2, <3>3, Zenon
  <2> QED
    BY <2>3, Zenon DEF Events!OpenedOnce
<1>13. Events!FormsFilled'
  BY <1>0, <1>4, <1>5, <1>7, <1>8, FormsGrow, Zenon
<1>14. \A m \in DOMAIN tasks : tasks'[m].related = tasks[m].related
  BY <1>2, <1>4
<1>15. Events!ContextsKept'
  <2>1. OpeningsKept'
    <3>1. SUFFICES ASSUME NEW m \in DOMAIN tasks', tasks'[m].pc = "open"
                   PROVE  Events!Kept(Events!Opening(m))'
      BY DEF OpeningsKept
    <3>2. m \in DOMAIN tasks /\ tasks'[m] = tasks[m]
      BY <1>2, <1>4, <3>1
    <3>3. Events!Kept(Events!Opening(m))
      BY <1>0, <3>1, <3>2, Zenon DEF Events!ContextsKept
    <3> QED
      BY <3>2, <3>3 DEF Events!Kept, Events!Opening
  <2>2. Events!Kept(Events!Id(v))'
    <3>1. Events!Kept(Events!Opening(n))
      BY <1>0, Zenon DEF Events!ContextsKept
    <3>2. Events!Kept(<<n, Len(t.ran)>>)
      BY <3>1, Zenon DEF Events!Opening
    <3> QED
      BY <1>11, <3>2 DEF Events!Kept
  <2>3. \A x \in DOMAIN views : Events!Kept(Events!Id(x)) => Events!Kept(Events!Id(x))'
    BY <1>11 DEF Events!Kept
  <2>4. \A c \in contexts' : c \in contexts
    OBVIOUS
  <2>5. \A x \in DOMAIN views' : x \in DOMAIN views \/ Events!Kept(Events!Id(x))'
    BY <1>7, <2>2, Zenon
  <2> QED
    BY <1>0, <1>8, <1>14, <2>1, <2>3, <2>4, <2>5, ContextsGrow, Zenon
<1>16. Events!RelatedSoFar'
  <2>1. \A m \in DOMAIN tasks : Quiet(m)
    BY <1>1, <1>4, <1>14 DEF Quiet
  <2>2. \A m \in DOMAIN tasks : RelatedOf(m)'
    <3>1. missing \subseteq missing'
      OBVIOUS
    <3> QED
      BY <1>0, <1>8, <1>14, <2>1, <3>1, RelatedStays, Zenon
  <2> QED
    BY <1>4, <2>2, RelatedOfAll
<1>17. Events!ContextsOK'
  BY <1>0, <1>4, ContextsOKStay
<1> QED
  BY <1>9, <1>10, <1>12, <1>13, <1>15, <1>16, <1>17, Zenon DEF Events!IndInv

LEMMA OpenViewKeeps ==
  ASSUME Events!IndInv, NEW n \in DOMAIN tasks, Events!OpenView(n)
  PROVE  Events!IndInv'
<1> SUFFICES Events!IndInv'
  OBVIOUS
<1>1. tasks[n].pc = "open" /\ UNCHANGED <<contexts, missing>>
  BY Zenon DEF Events!OpenView
<1>2. tasks[n].kind \in Events!Openers /\ Events!Ahead(tasks[n]) # {} /\ tasks[n].view = 0
  <2>1. Events!InOrder(tasks[n]) /\ Events!TasksOK
    BY DEF Events!IndInv, Events!RanInOrder
  <2> QED
    BY <1>1, <2>1 DEF Events!InOrder, Events!TasksOK, Events!Openers
<1>3. CASE /\ \E modal \in {modal \in Modals : Events!Builds(modal)} : views' = Append(views, View(n, modal))
           /\ Events!Ran(n, "returns", "run")
  <2>1. PICK modal \in Modals : views' = Append(views, View(n, modal))
    BY <1>3, Zenon
  <2> QED
    BY <1>1, <1>3, <2>1, ViewOpens, Zenon
<1>4. CASE views' = views /\ Events!Ran(n, "raises", "done")
  <2>1. UNCHANGED <<views, contexts, missing>>
    BY <1>1, <1>4
  <2>2. "raises" \in Ends /\ "done" \in {"run", "done"} /\ "raises" = IF tasks[n].kind = "submit" THEN "answers" ELSE "raises"
    BY <1>2 DEF Ends, Events!Openers
  <2> QED
    BY <1>2, <1>4, <2>1, <2>2, RanMoves, Zenon
<1> QED
  BY <1>3, <1>4, Zenon DEF Events!OpenView, View

(* An event comes, of a view or not: nothing of it has run yet.              *)
LEMMA TaskComes ==
  ASSUME Events!IndInv, SameViews, UNCHANGED <<contexts, missing>>,
         NEW u \in Events!TaskSet, tasks' = Append(tasks, u),
         u.ran = <<>>, u.related = Unknown, u.pc = IF u.view = 0 THEN "run" ELSE "get",
         (u.view = 0) = (u.kind \notin {"submit", "close"}),
         u.kind = "submit" => u.form \in Events!FormsOf(views'[u.view].blocks) /\ u.values = u.form
  PROVE  Events!IndInv'
<1> PICK n : n = Len(tasks) + 1
  OBVIOUS
<1>0. /\ Events!TasksOK /\ Events!ContextsOK /\ Events!RanInOrder /\ Events!OpenedOnce
      /\ Events!ContextsKept /\ Events!RelatedSoFar /\ Events!FormsFilled
  BY DEF Events!IndInv
<1>1. /\ tasks' \in Seq(Events!TaskSet) /\ Len(tasks') = Len(tasks) + 1 /\ tasks'[n] = u
      /\ \A m \in DOMAIN tasks : m \in DOMAIN tasks' /\ tasks'[m] = tasks[m]
      /\ \A m \in DOMAIN tasks' : m \in DOMAIN tasks \/ m = n
      /\ n \in DOMAIN tasks' /\ n \notin DOMAIN tasks
  <2>1. tasks \in Seq(Events!TaskSet)
    BY <1>0, Zenon DEF Events!TasksOK
  <2>2. /\ Append(tasks, u) \in Seq(Events!TaskSet) /\ Len(Append(tasks, u)) = Len(tasks) + 1
        /\ Append(tasks, u)[Len(tasks) + 1] = u
        /\ \A x \in DOMAIN tasks : x \in DOMAIN Append(tasks, u) /\ Append(tasks, u)[x] = tasks[x]
        /\ \A x \in DOMAIN Append(tasks, u) : x \in DOMAIN tasks \/ x = Len(tasks) + 1
        /\ Len(tasks) + 1 \in DOMAIN Append(tasks, u) /\ Len(tasks) + 1 \notin DOMAIN tasks
    BY <2>1, ElementAdded, Zenon
  <2> QED
    BY <2>2, Zenon
<1>2. Grown
  <2>1. \A m \in DOMAIN tasks : CameAs(tasks[m], tasks[m])
    BY <1>0, TasksTyped DEF CameAs, Events!TaskSet
  <2>2. \A m \in DOMAIN tasks : m \in DOMAIN tasks' /\ CameAs(tasks'[m], tasks[m])
    BY <1>1, <2>1, Zenon
  <2> QED
    BY <2>2, Zenon DEF Grown, SameViews
<1>3. u.pc \in {"run", "get"} /\ (u.pc = "get" => u.view # 0) /\ (u.pc = "run" => u.view = 0)
  OBVIOUS
<1>4. Events!TasksOK'
  <2>1. Events!TaskSet \subseteq Events!TaskSet' /\ Events!ViewSet \subseteq Events!ViewSet'
    <3>1. Len(views') \in Nat /\ Len(views) <= Len(views') /\ DOMAIN tasks \subseteq DOMAIN tasks'
      BY <1>0, <1>1, TasksTyped DEF SameViews
    <3> QED
      BY <1>0, <3>1, TypesGrow, Zenon
  <2>2. tasks' \in Seq(Events!TaskSet') /\ views' \in Seq(Events!ViewSet')
    BY <1>1, <2>1, WiderSeq, Zenon DEF SameViews
  <2>3. \A m \in DOMAIN tasks : (tasks[m].view = 0) = (tasks[m].kind \notin {"submit", "close"})
    BY <1>0, Zenon DEF Events!TasksOK
  <2>4. \A m \in DOMAIN tasks' : (tasks'[m].view = 0) = (tasks'[m].kind \notin {"submit", "close"})
    <3>1. SUFFICES ASSUME NEW m \in DOMAIN tasks' PROVE (tasks'[m].view = 0) = (tasks'[m].kind \notin {"submit", "close"})
      OBVIOUS
    <3>2. CASE m \in DOMAIN tasks
      <4>1. tasks'[m] = tasks[m]
        BY <1>1, <3>2, Zenon
      <4> QED
        BY <2>3, <3>2, <4>1
    <3>3. CASE m = n
      <4>1. tasks'[m] = u
        BY <1>1, <3>3, Zenon
      <4> QED
        BY <4>1
    <3> QED
      BY <1>1, <3>1, <3>2, <3>3, Zenon
  <2> QED
    BY <2>2, <2>4, Zenon DEF Events!TasksOK, Events!TaskSet, Events!ViewSet
<1>5. Events!RanInOrder'
  <2>1. Events!InOrder(u)
    <3>1. DOMAIN u.ran = {}
      OBVIOUS
    <3>2. Events!Ahead(u) = Events!Matching(u.kind, u.name)
      BY DEF Events!Ahead
    <3> QED
      BY <1>3, <3>1, <3>2 DEF Events!InOrder
  <2>2. \A m \in DOMAIN tasks' : Events!InOrder(tasks'[m])
    BY <1>0, <1>1, <2>1, Zenon DEF Events!RanInOrder
  <2> QED
    BY <2>2, Zenon DEF Events!RanInOrder, Events!InOrder, Events!Ahead, Events!Matching
<1>6. Events!OpenedOnce'
  BY <1>0, <1>2, OpenedStays, Zenon DEF SameViews
<1>7. Events!FormsFilled'
  <2>1. \A v \in DOMAIN views' : v \in DOMAIN views
    BY DEF SameViews
  <2>2. \A m \in DOMAIN tasks' :
          \/ m \in DOMAIN tasks \/ tasks'[m].kind # "submit"
          \/ tasks'[m].form \in Events!FormsOf(views'[tasks'[m].view].blocks) /\ tasks'[m].values = tasks'[m].form
    BY <1>1, Zenon
  <2> QED
    BY <1>0, <1>2, <2>1, <2>2, FormsGrow, Zenon
<1>8. Events!ContextsKept'
  <2>1. OpeningsKept'
    <3>1. SUFFICES ASSUME NEW m \in DOMAIN tasks', tasks'[m].pc = "open"
                   PROVE  Events!Kept(Events!Opening(m))'
      BY DEF OpeningsKept
    <3>2. m \in DOMAIN tasks /\ tasks'[m] = tasks[m]
      <4>1. m # n
        BY <1>1, <1>3, <3>1
      <4> QED
        BY <1>1, <3>1, <4>1, Zenon
    <3>3. Events!Kept(Events!Opening(m))
      BY <1>0, <3>1, <3>2, Zenon DEF Events!ContextsKept
    <3> QED
      BY <3>2, <3>3 DEF Events!Kept, Events!Opening
  <2>2. \A v \in DOMAIN views : Events!Kept(Events!Id(v)) => Events!Kept(Events!Id(v))'
    BY <1>2, IdsStay DEF Events!Kept
  <2>3. \A c \in contexts' : c \in contexts
    OBVIOUS
  <2>4. \A m \in DOMAIN tasks : tasks'[m].related = tasks[m].related
    BY <1>1, Zenon
  <2>5. DOMAIN views' = DOMAIN views
    BY DEF SameViews
  <2> QED
    BY <1>0, <1>2, <2>1, <2>2, <2>3, <2>4, <2>5, ContextsStay, Zenon
<1>9. Events!RelatedSoFar'
  <2>1. \A m \in DOMAIN tasks : Quiet(m)
    BY <1>1 DEF Quiet
  <2>2. \A m \in DOMAIN tasks : RelatedOf(m)'
    <3>1. missing \subseteq missing' /\ \A m \in DOMAIN tasks : tasks'[m].related = tasks[m].related
      BY <1>1
    <3> QED
      BY <1>0, <1>2, <2>1, <3>1, RelatedStays, Zenon
  <2>3. RelatedOf(n)'
    BY <1>1, <1>3 DEF RelatedOf
  <2>4. \A m \in DOMAIN tasks' : RelatedOf(m)'
    BY <1>1, <2>2, <2>3, Zenon
  <2> QED
    BY <2>4, RelatedOfAll, Zenon
<1>10. Events!ContextsOK'
  <2>1. DOMAIN tasks \subseteq DOMAIN tasks'
    BY <1>1
  <2> QED
    BY <1>0, <2>1, ContextsOKStay
<1> QED
  BY <1>4, <1>5, <1>6, <1>7, <1>8, <1>9, <1>10, Zenon DEF Events!IndInv

LEMMA ReceiveKeeps ==
  ASSUME Events!IndInv, NEW e \in Arrivals, Events!Receive(e)
  PROVE  Events!IndInv'
<1> DEFINE u == Events!Task(e, 0, <<>>, <<>>)
<1>0. Events!TasksOK
  BY DEF Events!IndInv
<1>1. /\ e.kind \in Events!Kinds /\ e.kind \notin {"submit", "close"} /\ e.name \in STRING
      /\ e.origin \in Events!Origins /\ e.trigger \in BOOLEAN
  <2>1. e \in [kind : Events!Kinds \ {"submit", "close"}, name : STRING, origin : Events!Origins, trigger : BOOLEAN]
    BY EventsAssumption
  <2> QED
    BY <2>1
<1>2. /\ u.ran = <<>> /\ u.related = Unknown /\ u.pc = "run" /\ u.view = 0 /\ u.kind = e.kind
      /\ u.name = e.name /\ u.origin = e.origin /\ u.trigger = e.trigger /\ u.form = <<>> /\ u.values = <<>>
  BY DEF Events!Task
<1>3. u \in Events!TaskSet
  <2>1. 0 \in 0..Len(views)
    BY <1>0, TasksTyped
  <2>2. Unknown \in Events!Origins /\ <<>> \in Seq(Events!Answers)
    BY DEF Events!Origins
  <2> QED
    BY <1>1, <2>1, <2>2 DEF Events!TaskSet, Events!Task
<1>4. tasks' = Append(tasks, u) /\ UNCHANGED <<views, contexts, missing>>
  BY DEF Events!Receive
<1> HIDE DEF u
<1>5. SameViews
  BY <1>0, <1>4, ViewsStay
<1>6. /\ u.pc = IF u.view = 0 THEN "run" ELSE "get"
      /\ (u.view = 0) = (u.kind \notin {"submit", "close"})
      /\ u.kind = "submit" => u.form \in Events!FormsOf(views'[u.view].blocks) /\ u.values = u.form
  BY <1>1, <1>2
<1> QED
  BY <1>2, <1>3, <1>4, <1>5, <1>6, TaskComes, Zenon

(* An event of a view that is open.                                          *)
NewOf(v, kind, form, values, u) ==
  /\ u \in Events!TaskSet /\ u.ran = <<>> /\ u.related = Unknown /\ u.pc = "get" /\ u.view = v /\ v # 0
  /\ u.kind = kind /\ u.form = form /\ u.values = values

LEMMA OfViewTyped ==
  ASSUME Events!TasksOK, NEW v \in DOMAIN views, NEW kind \in {"submit", "close"},
         NEW form \in Seq(Events!Answers), NEW values \in Seq(Events!Answers)
  PROVE  NewOf(v, kind, form, values, Events!OnView(kind, v, form, values))
<1> DEFINE u == Events!OnView(kind, v, form, values)
<1>1. v \in 0..Len(views) /\ v # 0 /\ views[v] \in Events!ViewSet
  BY TasksTyped
<1>2. views[v].callback \in STRING /\ Unknown \in Events!Origins /\ kind \in Events!Kinds
  BY <1>1 DEF Events!ViewSet, Events!Origins, Events!Kinds
<1>3. u = [kind |-> kind, name |-> views[v].callback, origin |-> Unknown, trigger |-> FALSE, view |-> v,
           form |-> form, values |-> values, pc |-> "get", related |-> Unknown, ran |-> <<>>]
  BY <1>1 DEF Events!OnView, Events!Task
<1>4. [kind |-> kind, name |-> views[v].callback, origin |-> Unknown, trigger |-> FALSE, view |-> v,
       form |-> form, values |-> values, pc |-> "get", related |-> Unknown, ran |-> <<>>] \in Events!TaskSet
  BY <1>1, <1>2 DEF Events!TaskSet
<1> HIDE DEF u
<1>5. NewOf(v, kind, form, values, u)
  BY <1>1, <1>3, <1>4 DEF NewOf
<1> QED
  BY <1>5 DEF u

LEMMA CloseKeeps ==
  ASSUME Events!IndInv, NEW v \in DOMAIN views, Events!Close(v)
  PROVE  Events!IndInv'
<1> DEFINE u == Events!OnView("close", v, <<>>, <<>>)
<1>0. Events!TasksOK
  BY DEF Events!IndInv
<1>1. <<>> \in Seq(Events!Answers) /\ "close" \in {"submit", "close"}
  OBVIOUS
<1>2. /\ u \in Events!TaskSet /\ u.ran = <<>> /\ u.related = Unknown /\ u.pc = "get" /\ u.view = v /\ v # 0
      /\ u.kind = "close" /\ u.form = <<>> /\ u.values = <<>>
  <2>1. NewOf(v, "close", <<>>, <<>>, u)
    BY <1>0, <1>1, OfViewTyped, Zenon
  <2> HIDE DEF u
  <2> QED
    BY <2>1, Zenon DEF NewOf
<1>3. /\ tasks' = Append(tasks, u) /\ UNCHANGED <<contexts, missing>>
      /\ views' = [views EXCEPT ![v].open = FALSE]
  BY Zenon DEF Events!Close
<1> HIDE DEF u
<1>4. SameViews
  BY <1>0, <1>3, ViewCloses, Zenon
<1>5. /\ u.pc = IF u.view = 0 THEN "run" ELSE "get"
      /\ (u.view = 0) = (u.kind \notin {"submit", "close"})
      /\ u.kind = "submit" => u.form \in Events!FormsOf(views'[u.view].blocks) /\ u.values = u.form
  BY <1>2
<1>6. UNCHANGED <<contexts, missing>>
  BY <1>3
<1> QED
  BY <1>2, <1>3, <1>4, <1>5, <1>6, TaskComes, Zenon

(* What a form holds comes back from its states.                             *)
LEMMA FormComesBack ==
  ASSUME Events!TasksOK, NEW v \in DOMAIN views, NEW form \in Events!FormsOf(views[v].blocks)
  PROVE  /\ form \in Seq(Events!Answers)
         /\ Events!FlatValues([i \in DOMAIN form |-> Events!ActionState(views[v].blocks[i], form[i])]) = form
<1> DEFINE blocks == views[v].blocks
           S == [type : Events!InputTypes, options : SUBSET STRING, initial : Events!Answers]
<1>1. blocks \in Seq(S)
  BY TasksTyped DEF Events!ViewSet
<1>2. Len(blocks) \in Nat /\ DOMAIN blocks = 1..Len(blocks) /\ \A i \in 1..Len(blocks) : blocks[i] \in S
  BY <1>1, SeqElements, Zenon
<1>3. /\ form = [i \in DOMAIN blocks |-> form[i]] /\ DOMAIN form = DOMAIN blocks
      /\ \A i \in DOMAIN blocks : form[i] \in blocks[i].options \cup {blocks[i].initial, Unknown}
  BY DEF Events!FormsOf
<1> HIDE DEF blocks
<1>4. \A i \in 1..Len(blocks) : form[i] \in Events!Answers /\ blocks[i].type \in Events!InputTypes
  <2>1. ASSUME NEW i \in 1..Len(blocks) PROVE form[i] \in Events!Answers /\ blocks[i].type \in Events!InputTypes
    <3>1. blocks[i].options \subseteq STRING /\ blocks[i].initial \in Events!Answers /\ blocks[i].type \in Events!InputTypes
      BY <1>2
    <3>2. form[i] \in blocks[i].options \cup {blocks[i].initial, Unknown}
      BY <1>2, <1>3
    <3> QED
      BY <3>1, <3>2 DEF Events!Answers
  <2> QED
    BY <2>1
<1> HIDE DEF S
<1>5. form \in Seq(Events!Answers)
  BY <1>2, <1>3, <1>4
<1> DEFINE states == [i \in DOMAIN form |-> Events!ActionState(blocks[i], form[i])]
<1>6. \A i \in DOMAIN form :
        (IF states[i].type \in {"select", "radio_select"} THEN states[i].selected ELSE states[i].value) = form[i]
  <2>1. SUFFICES ASSUME NEW i \in DOMAIN form
                 PROVE  LET a == Events!ActionState(blocks[i], form[i]) IN
                        (IF a.type \in {"select", "radio_select"} THEN a.selected ELSE a.value) = form[i]
    OBVIOUS
  <2>2. blocks[i].type \in Events!InputTypes
    BY <1>2, <1>3, <1>4
  <2> QED
    BY <2>2 DEF Events!ActionState, Events!InputTypes
<1>7. DOMAIN states = DOMAIN form
  OBVIOUS
<1> HIDE DEF states
<1>8. Events!FlatValues(states) = [i \in DOMAIN form |-> form[i]]
  BY <1>6, <1>7, Zenon DEF Events!FlatValues
<1>9. Events!FlatValues(states) = form
  BY <1>3, <1>8, Zenon
<1> QED
  BY <1>5, <1>9 DEF states, blocks

LEMMA SubmitKeeps ==
  ASSUME Events!IndInv, NEW v \in DOMAIN views, NEW form \in Events!FormsOf(views[v].blocks), Events!Submit(v, form)
  PROVE  Events!IndInv'
<1> DEFINE u == Events!OnView("submit", v, form, form)
<1>0. Events!TasksOK
  BY DEF Events!IndInv
<1>1. /\ form \in Seq(Events!Answers) /\ "submit" \in {"submit", "close"}
      /\ Events!FlatValues([i \in DOMAIN form |-> Events!ActionState(views[v].blocks[i], form[i])]) = form
  BY <1>0, FormComesBack, Zenon
<1>2. /\ u \in Events!TaskSet /\ u.ran = <<>> /\ u.related = Unknown /\ u.pc = "get" /\ u.view = v /\ v # 0
      /\ u.kind = "submit" /\ u.form = form /\ u.values = form
  <2>1. NewOf(v, "submit", form, form, u)
    BY <1>0, <1>1, OfViewTyped, Zenon
  <2> HIDE DEF u
  <2> QED
    BY <2>1, Zenon DEF NewOf
<1>3. tasks' = Append(tasks, u) /\ UNCHANGED <<views, contexts, missing>>
  BY <1>1, Zenon DEF Events!Submit
<1> HIDE DEF u
<1>4. SameViews
  BY <1>0, <1>3, ViewsStay, Zenon
<1>5. /\ u.pc = IF u.view = 0 THEN "run" ELSE "get"
      /\ (u.view = 0) = (u.kind \notin {"submit", "close"})
      /\ u.kind = "submit" => u.form \in Events!FormsOf(views'[u.view].blocks) /\ u.values = u.form
  <2>1. views'[u.view].blocks = views[v].blocks
    BY <1>2, <1>3
  <2> QED
    BY <1>2, <2>1
<1>6. UNCHANGED <<contexts, missing>>
  BY <1>3
<1> QED
  BY <1>2, <1>3, <1>4, <1>5, <1>6, TaskComes, Zenon

LEMMA EventsStart == Events!Init => Events!IndInv
<1> SUFFICES ASSUME Events!Init PROVE Events!IndInv
  OBVIOUS
<1>1. tasks = <<>> /\ views = <<>> /\ contexts = {} /\ missing = {}
  BY DEF Events!Init
<1>2. DOMAIN tasks = {} /\ DOMAIN views = {} /\ tasks \in Seq(Events!TaskSet) /\ views \in Seq(Events!ViewSet)
  BY <1>1
<1> QED
  BY <1>1, <1>2
     DEF Events!IndInv, Events!TasksOK, Events!ContextsOK, Events!RanInOrder, Events!OpenedOnce,
         Events!ContextsKept, Events!RelatedSoFar, Events!FormsFilled

LEMMA EventsRest == Events!IndInv /\ UNCHANGED Events!vars => Events!IndInv'
<1> SUFFICES ASSUME Events!IndInv, UNCHANGED Events!vars PROVE Events!IndInv'
  OBVIOUS
<1>1. UNCHANGED <<tasks, views, contexts, missing>>
  BY DEF Events!vars
<1>2. UNCHANGED Events!TaskSet /\ UNCHANGED Events!ViewSet
  BY <1>1 DEF Events!TaskSet, Events!ViewSet
<1>3. Events!TasksOK' /\ Events!ContextsOK' /\ Events!RanInOrder'
  BY <1>1, <1>2 DEF Events!IndInv, Events!TasksOK, Events!ContextsOK, Events!RanInOrder
<1>4. Events!OpenedOnce' /\ Events!FormsFilled'
  BY <1>1 DEF Events!IndInv, Events!OpenedOnce, Events!Id, Events!FormsFilled
<1>5. Events!ContextsKept'
  BY <1>1 DEF Events!IndInv, Events!ContextsKept, Events!Kept, Events!Opening, Events!Id, Events!OpenedFrom
<1>6. Events!RelatedSoFar'
  BY <1>1 DEF Events!IndInv, Events!RelatedSoFar, Events!Id, Events!OpenedFrom
<1> QED
  BY <1>3, <1>4, <1>5, <1>6 DEF Events!IndInv

LEMMA EventsKeep ==
  ASSUME Events!IndInv, Events!Next
  PROVE  Events!IndInv'
<1> SUFFICES Events!IndInv'
  OBVIOUS
<1>1. CASE \E e \in Arrivals : Events!Receive(e)
  BY <1>1, ReceiveKeeps, Zenon
<1>2. ASSUME NEW n \in DOMAIN tasks,
             \/ Events!HandlerReturns(n) \/ Events!HandlerRaises(n) \/ Events!HandlerAnswers(n) \/ Events!Finish(n)
             \/ Events!OpenModal(n) \/ Events!StoreContext(n) \/ Events!OpenView(n)
             \/ Events!GetContext(n) \/ Events!DeleteContext(n)
      PROVE  Events!IndInv'
  BY <1>2, HandlersKeep, FinishKeeps, OpenModalKeeps, StoreContextKeeps, OpenViewKeeps, GetContextKeeps,
     DeleteContextKeeps, Zenon
<1>3. ASSUME NEW v \in DOMAIN views,
             Events!Close(v) \/ \E form \in Events!FormsOf(views[v].blocks) : Events!Submit(v, form)
      PROVE  Events!IndInv'
  BY <1>3, CloseKeeps, SubmitKeeps, Zenon
<1>4. CASE Events!Tick
  BY <1>4, TickKeeps, Zenon
<1> QED
  BY <1>1, <1>2, <1>3, <1>4, Zenon DEF Events!Next

-----------------------------------------------------------------------------
(***************************************************************************)
(* What follows of the events                                              *)
(***************************************************************************)

LEMMA HandlersHaveRun == Events!IndInv => Events!HandlersRun
<1> SUFFICES ASSUME Events!IndInv PROVE Events!HandlersRun
  OBVIOUS
<1>1. \A t \in Events!ToSet(tasks) : Events!InOrder(t)
  BY Zenon DEF Events!IndInv, Events!RanInOrder, Events!ToSet
<1>2. \A t : Events!Matching(t.kind, t.name) =
              {i \in DOMAIN Handlers[t.kind] : Handlers[t.kind][i] = {} \/ t.name \in Handlers[t.kind][i]}
  BY DEF Events!Matching, Events!Matches
<1> QED
  BY <1>1, <1>2 DEF Events!HandlersRun, Events!InOrder

LEMMA RelatedFollows ==
  ASSUME Events!IndInv, NEW n \in DOMAIN tasks, tasks[n].view # 0, tasks[n].pc \in {"run", "done"}
  PROVE  LET t == tasks[n]
             by == views[t.view].by IN
         \/ t.related = tasks[by].origin
         \/ /\ t.related = Unknown
            /\ \/ Events!KeyOf(t) \in missing
               \/ \E u \in Events!OfView(t) : u # t /\ u.related = tasks[by].origin
<1> DEFINE t == tasks[n]
           from == Events!OpenedFrom(t.view)
<1>1. Events!TasksOK /\ Events!RelatedSoFar
  BY DEF Events!IndInv
<1>2. Events!KeyOf(t) = Events!Id(t.view) /\ from = tasks[views[t.view].by].origin
  BY <1>1, KeysAreIds, Zenon DEF Events!OpenedFrom
<1>3. RelatedOf(n)
  BY <1>1, Zenon DEF Events!RelatedSoFar, RelatedOf
<1>4. CASE t.related # from
  <2>1. /\ t.related = Unknown
        /\ \/ Events!Id(t.view) \in missing
           \/ \E m \in DOMAIN tasks : tasks[m].view = t.view /\ tasks[m].related = from
    BY <1>3, <1>4 DEF RelatedOf
  <2>2. ASSUME NEW m \in DOMAIN tasks, tasks[m].view = t.view, tasks[m].related = from
        PROVE  \E u \in Events!OfView(t) : u # t /\ u.related = from
    <3>1. tasks[m] \in Events!OfView(t)
      BY <2>2, Zenon DEF Events!OfView, Events!ToSet
    <3>2. tasks[m] # t
      BY <1>4, <2>2
    <3> QED
      BY <2>2, <3>1, <3>2, Zenon
  <2> QED
    BY <1>2, <2>1, <2>2, Zenon
<1> QED
  BY <1>2, <1>4, Zenon

(* What a form holds is of the modal the view shows.                         *)
LEMMA InitialIsShown ==
  ASSUME NEW input \in Events!Inputs, input.initial \in Events!ToSet(input.options) \ {Events!ModalChildToBlock(input).initial}
  PROVE  /\ input.type = "radio_select"
         /\ Events!ToSet(Events!FirstOf(input.options, MaxOptions)) # Events!ToSet(input.options)
<1>1. input.initial \notin Events!ShownOptions(input) /\ input.initial \in Events!ToSet(input.options)
  BY DEF Events!ModalChildToBlock
<1> QED
  BY <1>1, Zenon DEF Events!ShownOptions

FilledIn(t) ==
  /\ DOMAIN t.values = DOMAIN views[t.view].modal
  /\ \A i \in DOMAIN t.values :
       LET input == views[t.view].modal[i] IN
       /\ t.values[i] = t.form[i]
       /\ t.values[i] \in Events!ToSet(input.options) \cup {Unknown}
       /\ input.initial \in Events!ToSet(input.options) \ {views[t.view].blocks[i].initial} =>
            input.type = "radio_select" /\ Events!ToSet(Events!FirstOf(input.options, MaxOptions)) # Events!ToSet(input.options)

LEMMA FilledFollows ==
  ASSUME Events!IndInv, NEW n \in DOMAIN tasks, tasks[n].kind = "submit"
  PROVE  FilledIn(tasks[n])
<1> DEFINE t == tasks[n]
           view == views[t.view]
<1>1. Events!TasksOK /\ Events!FormsFilled
  BY DEF Events!IndInv
<1>2. t.view \in DOMAIN views /\ view.modal \in Modals
  <2>1. t \in Events!TaskSet /\ t.view # 0
    BY <1>1, TasksTyped DEF Events!TasksOK
  <2>2. t.view \in DOMAIN views
    BY <1>1, <2>1, TasksTyped DEF Events!TaskSet
  <2>3. view \in Events!ViewSet
    BY <1>1, <2>2, TasksTyped, Zenon
  <2> QED
    BY <2>2, <2>3 DEF Events!ViewSet
<1>3. view.blocks = Events!ModalToSlackView(view.modal)
  BY <1>1, <1>2, Zenon DEF Events!FormsFilled
<1>4. t.form \in Events!FormsOf(view.blocks) /\ t.values = t.form
  BY <1>1, Zenon DEF Events!FormsFilled
<1> HIDE DEF t, view
<1>5. /\ DOMAIN t.form = DOMAIN view.blocks
      /\ \A i \in DOMAIN view.blocks : t.form[i] \in view.blocks[i].options \cup {view.blocks[i].initial, Unknown}
  BY <1>4 DEF Events!FormsOf
<1>6. DOMAIN view.blocks = DOMAIN view.modal /\ \A i \in DOMAIN view.modal : view.modal[i] \in Events!Inputs
  BY <1>2, <1>3, BlocksTyped, Zenon
<1>7. ASSUME NEW i \in DOMAIN view.modal
      PROVE  /\ t.form[i] \in Events!ToSet(view.modal[i].options) \cup {Unknown}
             /\ view.modal[i].initial \in Events!ToSet(view.modal[i].options) \ {view.blocks[i].initial} =>
                  /\ view.modal[i].type = "radio_select"
                  /\ Events!ToSet(Events!FirstOf(view.modal[i].options, MaxOptions)) # Events!ToSet(view.modal[i].options)
  <2> DEFINE input == view.modal[i]
  <2>1. view.blocks[i] = Events!ModalChildToBlock(input)
    BY <1>3, <1>7, Zenon DEF Events!ModalToSlackView
  <2>2. input \in Events!Inputs
    BY <1>6, <1>7, Zenon
  <2> HIDE DEF input
  <2>3. Events!ShownOptions(input) \subseteq Events!ToSet(input.options)
    BY <2>2, OptionsShown
  <2>4. /\ view.blocks[i].options = Events!ShownOptions(input)
        /\ view.blocks[i].initial \in Events!ShownOptions(input) \cup {Unknown}
    BY <2>1 DEF Events!ModalChildToBlock
  <2>5. t.form[i] \in view.blocks[i].options \cup {view.blocks[i].initial, Unknown}
    BY <1>5, <1>6, <1>7
  <2>6. t.form[i] \in Events!ToSet(input.options) \cup {Unknown}
    BY <2>3, <2>4, <2>5
  <2>7. input.initial \in Events!ToSet(input.options) \ {view.blocks[i].initial} =>
          /\ input.type = "radio_select"
          /\ Events!ToSet(Events!FirstOf(input.options, MaxOptions)) # Events!ToSet(input.options)
    BY <2>1, <2>2, InitialIsShown
  <2> QED
    BY <2>6, <2>7 DEF input
<1>8. DOMAIN t.values = DOMAIN view.modal
  BY <1>4, <1>5, <1>6
<1> QED
  BY <1>4, <1>7, <1>8, Zenon DEF t, view, FilledIn

LEMMA ModalsReturn == Events!IndInv => Events!ModalReturns
<1> SUFFICES ASSUME Events!IndInv PROVE Events!ModalReturns
  OBVIOUS
<1>1. Events!Related
  BY RelatedFollows, Zenon DEF Events!Related, Events!ToSet
<1>2. Events!Filled
  <2>1. \A t \in Events!ToSet(tasks) : t.kind = "submit" => FilledIn(t)
    BY FilledFollows, Zenon DEF Events!ToSet
  <2> QED
    BY <2>1, Zenon DEF Events!Filled, FilledIn
<1> QED
  BY <1>1, <1>2, Zenon DEF Events!ModalReturns
=============================================================================
