--------------------------- MODULE DispatchProofs ---------------------------
(***************************************************************************)
(* What Dispatch guarantees for any number of tasks, processes, threads    *)
(* and messages, for every configuration and all TTLs.                     *)
(***************************************************************************)
EXTENDS Dispatch, TLAPS

USE DeliveryAssumption, ConfigAssumption, TTLAssumption, NobodyAssumption

-----------------------------------------------------------------------------
(***************************************************************************)
(* Facts about the operators the actions are built from                    *)
(***************************************************************************)

LEMMA IdsOfDelivery ==
  ASSUME NEW d \in Deliveries
  PROVE  /\ MessageOf[d] \in Messages
         /\ Thread(d) \in Ids /\ Thread(d) \in Threads
         /\ Channel(d) \in Ids
         /\ LockKey(d) \in Ids
         /\ HistoryIds(d) \in SUBSET Ids
BY DEF Thread, Channel, LockKey, HistoryIds, Ids

LEMMA StageFacts ==
  ASSUME NEW d \in Deliveries
  PROVE  /\ AfterHistory(d) \in Stages
         /\ NoLock \in LockType
         /\ \A l \in LockType : Aged(l) \in LockType
         /\ \A n \in Nat : \A m \in 0..n : Less(m) \in 0..n
BY DEF AfterHistory, Stages, Ended, NoLock, LockType, Aged, Less

LEMMA RouteHandlers ==
  ASSUME NEW d \in Deliveries, NEW sub
  PROVE  RouteFor(d, sub) \in Routes /\ HandlersOf[RouteFor(d, sub)] \in Nat
BY DEF RouteFor, Routes

-----------------------------------------------------------------------------
(***************************************************************************)
(* Every step keeps the types                                              *)
(***************************************************************************)

(* Leaving _dispatch_to_handlers keeps the types of what it writes. *)
LEMMA LeaveTypes ==
  ASSUME TypeOK, NEW d \in Deliveries, Returns(d) \/ Raises(d)
  PROVE  /\ pc' \in [Deliveries -> Stages]
         /\ isSubscribed' \in [Deliveries -> BOOLEAN]
         /\ todo' \in [Deliveries -> Nat]
         /\ disturbed' \subseteq Deliveries
<1>1. ASSUME NEW stage \in Stages, NEW outcome \in Stages, Leave(d, stage, outcome)
      PROVE  /\ pc' \in [Deliveries -> Stages]
             /\ isSubscribed' \in [Deliveries -> BOOLEAN]
             /\ todo' \in [Deliveries -> Nat]
             /\ disturbed' \subseteq Deliveries
  <2>1. pc' \in [Deliveries -> Stages]
    BY <1>1 DEF TypeOK, Leave, Goto
  <2>2. isSubscribed' \in [Deliveries -> BOOLEAN] /\ todo' \in [Deliveries -> Nat]
    BY <1>1 DEF TypeOK, Leave
  <2>3. disturbed' \subseteq Deliveries
    BY <1>1 DEF TypeOK, Leave
  <2> QED
    BY <2>1, <2>2, <2>3
<1>2. {"release", "unwind", "handled", "failed"} \subseteq Stages
  BY DEF Stages, Ended
<1> QED
  BY <1>1, <1>2 DEF Returns, Raises

LEMMA TypePreserved ==
  ASSUME TypeOK, HandlerRuns, [Next]_vars
  PROVE  TypeOK'
<1> USE DEF TypeOK
<1>1. ASSUME NEW d \in Deliveries, Receive(d) PROVE TypeOK'
  BY <1>1 DEF Receive, Goto, Stages, Ended, store, local, aux
<1>2. ASSUME NEW d \in Deliveries, Accept(d) PROVE TypeOK'
  BY <1>2, IdsOfDelivery, StageFacts DEF Accept, MarkSeen, Goto, Stages
<1>3. ASSUME NEW d \in Deliveries, SkipDuplicate(d) PROVE TypeOK'
  BY <1>3 DEF SkipDuplicate, Goto, Stages, Ended, store, local, aux
<1>4. ASSUME NEW d \in Deliveries, NEW i \in Ids, AppendHistory(d, i) PROVE TypeOK'
  <2>1. history' \in [Ids -> SUBSET Deliveries] /\ appends' \in [Deliveries -> SUBSET Ids]
    BY <1>4 DEF AppendHistory
  <2>2. pc' \in [Deliveries -> Stages]
    BY <1>4, StageFacts DEF AppendHistory, Goto
  <2> QED
    BY <1>4, <2>1, <2>2 DEF AppendHistory, aux
<1>5. ASSUME NEW d \in Deliveries, Acquire(d) PROVE TypeOK'
  BY <1>5, IdsOfDelivery DEF Acquire, TakeLock, LockType, Goto, Stages, aux
<1>6. ASSUME NEW d \in Deliveries, Conflict(d) PROVE TypeOK'
  BY <1>6 DEF Conflict, Goto, Stages, Ended, store, local, aux
<1>7. ASSUME NEW d \in Deliveries, ForceRelease(d) PROVE TypeOK'
  <2>1. locks' \in [Ids -> LockType]
    BY <1>7, StageFacts DEF ForceRelease
  <2>2. evicted' \subseteq Deliveries
    BY <1>7, IdsOfDelivery DEF ForceRelease, LockType, NoLock
  <2>3. pc' \in [Deliveries -> Stages]
    BY <1>7 DEF ForceRelease, Goto, Stages
  <2> QED
    BY <1>7, <2>1, <2>2, <2>3 DEF ForceRelease, local
<1>8. ASSUME NEW d \in Deliveries, LoseRace(d) PROVE TypeOK'
  BY <1>8 DEF LoseRace, Goto, Stages, Ended, store, local, aux
<1>9. ASSUME NEW d \in Deliveries, ReadSubscription(d) PROVE TypeOK'
  <2> DEFINE sub == Thread(d) \in subscribed
             n == HandlersOf[RouteFor(d, sub)]
  <2>1. n \in Nat
    BY RouteHandlers
  <2>2. CASE n = 0
    <3>1. Returns(d) /\ UNCHANGED <<store, appends, lease, window, evicted>>
      BY <1>9, <2>2 DEF ReadSubscription
    <3> QED
      BY <3>1, LeaveTypes DEF store
  <2>3. CASE n # 0
    <3>1. /\ isSubscribed' = [isSubscribed EXCEPT ![d] = sub]
          /\ todo' = [todo EXCEPT ![d] = n]
          /\ pc' = [pc EXCEPT ![d] = "handlers"]
          /\ UNCHANGED <<disturbed, store, appends, lease, window, evicted>>
      BY <1>9, <2>3 DEF ReadSubscription, Goto
    <3> HIDE DEF n
    <3>2. isSubscribed' \in [Deliveries -> BOOLEAN]
      <4>1. isSubscribed \in [Deliveries -> BOOLEAN]
        OBVIOUS
      <4>2. \A v \in BOOLEAN : [isSubscribed EXCEPT ![d] = v] \in [Deliveries -> BOOLEAN]
        BY <4>1
      <4> HIDE DEF TypeOK
      <4>3. sub \in BOOLEAN
        OBVIOUS
      <4> QED
        BY <3>1, <4>2, <4>3, Zenon
    <3> QED
      BY <3>1, <3>2, <2>1 DEF Stages, Ended, store
  <2> QED
    BY <2>2, <2>3
<1>10. ASSUME NEW d \in Deliveries, HandlerReturns(d) PROVE TypeOK'
  <2>1. CASE todo[d] = 1
    <3>1. Returns(d) /\ UNCHANGED <<store, appends, lease, window, evicted>>
      BY <1>10, <2>1 DEF HandlerReturns
    <3> QED
      BY <3>1, LeaveTypes DEF store
  <2>2. CASE todo[d] # 1
    <3>1. todo[d] - 1 \in Nat
      BY <1>10 DEF HandlerRuns, HandlerReturns
    <3>2. /\ todo' = [todo EXCEPT ![d] = todo[d] - 1]
          /\ UNCHANGED <<pc, isSubscribed, disturbed, store, appends, lease, window, evicted>>
      BY <1>10, <2>2 DEF HandlerReturns
    <3> QED
      BY <3>1, <3>2 DEF store
  <2> QED
    BY <2>1, <2>2
<1>11. ASSUME NEW d \in Deliveries, Release(d) PROVE TypeOK'
  <2>1. locks' \in [Ids -> LockType]
    BY <1>11, StageFacts DEF Release, ReleaseLock
  <2>2. pc' \in [Deliveries -> Stages]
    BY <1>11 DEF Release, Goto, Stages, Ended
  <2>3. lease' \in [Deliveries -> 0..LockTTL] /\ evicted' \subseteq Deliveries
    BY <1>11 DEF Release
  <2>4. UNCHANGED <<dedupe, subscribed, history, appends, isSubscribed, todo, window, disturbed>>
    BY <1>11 DEF Release
  <2> QED
    BY <2>1, <2>2, <2>3, <2>4
<1>12. ASSUME NEW d \in Deliveries, ChangeSubscription(d) PROVE TypeOK'
  BY <1>12, IdsOfDelivery DEF ChangeSubscription, local
<1>13. ASSUME NEW d \in Deliveries, AcceptReplyLost(d) PROVE TypeOK'
  BY <1>13 DEF AcceptReplyLost, MarkSeen, Goto, Stages, Ended, local
<1>14. ASSUME NEW d \in Deliveries, AcquireReplyLost(d) PROVE TypeOK'
  BY <1>14, IdsOfDelivery DEF AcquireReplyLost, TakeLock, LockType, Goto, Stages, Ended, local, aux
<1>15. ASSUME NEW d \in Deliveries, CallFails(d) PROVE TypeOK'
  BY <1>15 DEF CallFails, Goto, Stages, Ended, store, local, aux
<1>16. ASSUME NEW d \in Deliveries, ReadFails(d) PROVE TypeOK'
  BY <1>16, LeaveTypes DEF ReadFails, store
<1>17. ASSUME NEW d \in Deliveries, ReleaseFails(d) PROVE TypeOK'
  BY <1>17 DEF ReleaseFails, Goto, Stages, Ended, store
<1>18. ASSUME NEW d \in Deliveries, HandlerRaises(d) PROVE TypeOK'
  BY <1>18, LeaveTypes DEF HandlerRaises, store
<1>19. ASSUME NEW d \in Deliveries, NEW i \in Ids, AppendFails(d, i) PROVE TypeOK'
  BY <1>19 DEF AppendFails, Goto, Stages, Ended, store, aux
<1>20. ASSUME NEW p \in Processes, Crash(p) PROVE TypeOK'
  <2>1. \A f, tasks, none : Cleared(f, tasks, none) =
          [d \in Deliveries |-> IF d \in tasks THEN none ELSE f[d]]
    BY DEF Cleared
  <2>2. pc' \in [Deliveries -> Stages] /\ appends' \in [Deliveries -> SUBSET Ids]
    BY <1>20, <2>1 DEF Crash, Stages, Ended
  <2>3. lease' \in [Deliveries -> 0..LockTTL] /\ todo' \in [Deliveries -> Nat]
    BY <1>20, <2>1 DEF Crash
  <2>4. isSubscribed' \in [Deliveries -> BOOLEAN]
    BY <1>20, <2>1 DEF Crash
  <2>5. evicted' \subseteq Deliveries /\ disturbed' \subseteq Deliveries
    BY <1>20 DEF Crash
  <2>6. UNCHANGED <<store, window>>
    BY <1>20 DEF Crash
  <2> QED
    BY <2>2, <2>3, <2>4, <2>5, <2>6 DEF store
<1>21. ASSUME NEW t \in Threads, UnlockedEvent(t) PROVE TypeOK'
  BY <1>21 DEF UnlockedEvent, local
<1>22. ASSUME Tick PROVE TypeOK'
  BY <1>22, StageFacts, SMTT(30) DEF Tick, Less, Aged, LockType, NoLock
<1>23. CASE UNCHANGED vars
  BY <1>23 DEF vars, store, local, aux
<1> QED
  BY <1>1, <1>2, <1>3, <1>4, <1>5, <1>6, <1>7, <1>8, <1>9, <1>10, <1>11, <1>12, <1>13,
     <1>14, <1>15, <1>16, <1>17, <1>18, <1>19, <1>20, <1>21, <1>22, <1>23
     DEF Next, Step, Fault

-----------------------------------------------------------------------------
(***************************************************************************)
(* The handlers and the lock: which steps matter to them                   *)
(***************************************************************************)

(* A task among the handlers always has one to finish: it leaves as the last *)
(* one returns, and enters only with one to run.                             *)
LEMMA HandlerRunsPreserved ==
  ASSUME TypeOK, HandlerRuns, [Next]_vars
  PROVE  HandlerRuns'
<1> USE DEF TypeOK, HandlerRuns
<1>1. ASSUME NEW d \in Deliveries, Receive(d) \/ SkipDuplicate(d) \/ Conflict(d) \/ LoseRace(d)
      PROVE  HandlerRuns'
  BY <1>1 DEF Receive, SkipDuplicate, Conflict, LoseRace, Goto, local
<1>2. ASSUME NEW d \in Deliveries, Accept(d) \/ AcceptReplyLost(d) PROVE HandlerRuns'
  BY <1>2 DEF Accept, AcceptReplyLost, AfterHistory, Goto, local
<1>3. ASSUME NEW d \in Deliveries, NEW i \in Ids, AppendHistory(d, i) \/ AppendFails(d, i)
      PROVE  HandlerRuns'
  BY <1>3 DEF AppendHistory, AppendFails, AfterHistory, Goto
<1>4. ASSUME NEW d \in Deliveries, Acquire(d) \/ AcquireReplyLost(d) \/ ForceRelease(d)
      PROVE  HandlerRuns'
  BY <1>4 DEF Acquire, AcquireReplyLost, ForceRelease, Goto, local
<1>5. ASSUME NEW d \in Deliveries, Returns(d) \/ Raises(d) PROVE HandlerRuns'
  BY <1>5 DEF Returns, Raises, Leave, Goto
<1>6. ASSUME NEW d \in Deliveries, ReadSubscription(d) PROVE HandlerRuns'
  <2> DEFINE n == HandlersOf[RouteFor(d, Thread(d) \in subscribed)]
  <2>1. n \in Nat
    BY RouteHandlers
  <2>2. CASE n = 0
    BY <1>5, <1>6, <2>2 DEF ReadSubscription
  <2>3. CASE n # 0
    <3>1. todo' = [todo EXCEPT ![d] = n] /\ pc' = [pc EXCEPT ![d] = "handlers"]
      BY <1>6, <2>3 DEF ReadSubscription, Goto
    <3> QED
      BY <2>1, <2>3, <3>1
  <2> QED
    BY <2>2, <2>3
<1>7. ASSUME NEW d \in Deliveries, HandlerReturns(d) PROVE HandlerRuns'
  <2>1. CASE todo[d] = 1
    BY <1>5, <1>7, <2>1 DEF HandlerReturns
  <2>2. CASE todo[d] # 1
    BY <1>7, <2>2 DEF HandlerReturns
  <2> QED
    BY <2>1, <2>2
<1>8. ASSUME NEW d \in Deliveries, Release(d) \/ ReleaseFails(d) \/ CallFails(d)
      PROVE  HandlerRuns'
  BY <1>8 DEF Release, ReleaseFails, CallFails, Goto, local
<1>9. ASSUME NEW d \in Deliveries, ReadFails(d) \/ HandlerRaises(d) PROVE HandlerRuns'
  BY <1>5, <1>9 DEF ReadFails, HandlerRaises
<1>10. ASSUME NEW p \in Processes, Crash(p) PROVE HandlerRuns'
  BY <1>10 DEF Crash, Cleared
<1>11. CASE (\E d \in Deliveries : ChangeSubscription(d)) \/ (\E t \in Threads : UnlockedEvent(t))
            \/ Tick \/ UNCHANGED vars
  BY <1>11 DEF ChangeSubscription, UnlockedEvent, Tick, vars, local
<1> QED
  BY <1>1, <1>2, <1>3, <1>4, <1>6, <1>7, <1>8, <1>9, <1>10, <1>11 DEF Next, Step, Fault

(* Only tasks that take locks reach the lock, and only between the moment it *)
(* is given and the moment it is given back do they hold one.                *)
LEMMA LockersOnlyPreserved ==
  ASSUME TypeOK, LockersOnly, [Next]_vars
  PROVE  LockersOnly'
<1> USE DEF TypeOK, LockersOnly, InLock
<1>1. ASSUME NEW d \in Deliveries, Receive(d) \/ SkipDuplicate(d) \/ Conflict(d) \/ LoseRace(d)
      PROVE  LockersOnly'
  BY <1>1 DEF Receive, SkipDuplicate, Conflict, LoseRace, Goto, local
<1>2. ASSUME NEW d \in Deliveries, Accept(d) \/ AcceptReplyLost(d) PROVE LockersOnly'
  BY <1>2 DEF Accept, AcceptReplyLost, AfterHistory, Goto, local
<1>3. ASSUME NEW d \in Deliveries, NEW i \in Ids, AppendHistory(d, i) \/ AppendFails(d, i)
      PROVE  LockersOnly'
  BY <1>3 DEF AppendHistory, AppendFails, AfterHistory, Goto
<1>4. ASSUME NEW d \in Deliveries, Acquire(d) \/ AcquireReplyLost(d) \/ ForceRelease(d)
      PROVE  LockersOnly'
  BY <1>4 DEF Acquire, AcquireReplyLost, ForceRelease, Goto, local
<1>5. ASSUME NEW d \in Deliveries, pc[d] \in {"subscription", "handlers"}, UNCHANGED lease,
             Returns(d) \/ Raises(d)
      PROVE  LockersOnly'
  BY <1>5 DEF Returns, Raises, Leave, Goto
<1>6. ASSUME NEW d \in Deliveries, ReadSubscription(d) PROVE LockersOnly'
  <2>1. UNCHANGED lease /\ pc[d] = "subscription"
    BY <1>6 DEF ReadSubscription
  <2>2. Returns(d) \/ pc' = [pc EXCEPT ![d] = "handlers"]
    BY <1>6 DEF ReadSubscription, Goto
  <2> QED
    BY <1>5, <2>1, <2>2
<1>7. ASSUME NEW d \in Deliveries, HandlerReturns(d) PROVE LockersOnly'
  <2>1. UNCHANGED lease /\ pc[d] = "handlers"
    BY <1>7 DEF HandlerReturns
  <2>2. Returns(d) \/ UNCHANGED pc
    BY <1>7 DEF HandlerReturns
  <2> QED
    BY <1>5, <2>1, <2>2
<1>8. ASSUME NEW d \in Deliveries, Release(d) \/ ReleaseFails(d) \/ CallFails(d)
      PROVE  LockersOnly'
  BY <1>8 DEF Release, ReleaseFails, CallFails, Goto, local
<1>9. ASSUME NEW d \in Deliveries, ReadFails(d) \/ HandlerRaises(d) PROVE LockersOnly'
  BY <1>5, <1>9 DEF ReadFails, HandlerRaises
<1>10. ASSUME NEW p \in Processes, Crash(p) PROVE LockersOnly'
  BY <1>10 DEF Crash, Cleared, Running, Ended
<1>11. CASE Tick
  BY <1>11 DEF Tick, Less
<1>12. CASE (\E d \in Deliveries : ChangeSubscription(d)) \/ (\E t \in Threads : UnlockedEvent(t))
            \/ UNCHANGED vars
  BY <1>12 DEF ChangeSubscription, UnlockedEvent, vars, local
<1> QED
  BY <1>1, <1>2, <1>3, <1>4, <1>6, <1>7, <1>8, <1>9, <1>10, <1>11, <1>12 DEF Next, Step, Fault

(* The steps that touch a lock, in the backend or in a task. *)
LEMMA LockSteps ==
  ASSUME [Next]_vars
  PROVE  \/ \E d \in Deliveries : \/ Acquire(d) \/ AcquireReplyLost(d) \/ ForceRelease(d)
                                  \/ Release(d) \/ ReleaseFails(d)
         \/ \E p \in Processes : Crash(p)
         \/ Tick
         \/ UNCHANGED <<locks, lease, evicted>>
BY DEF Next, Step, Fault, Receive, Accept, SkipDuplicate, AcceptReplyLost, AppendHistory,
       AppendFails, Conflict, LoseRace, ReadSubscription, HandlerReturns, HandlerRaises,
       ChangeSubscription, CallFails, ReadFails, UnlockedEvent, MarkSeen, store, local, aux, vars

(* The backend's entry stays with the task that holds a valid lock. *)
LEMMA LeaseBackedPreserved ==
  ASSUME TypeOK, LeaseBacked, [Next]_vars
  PROVE  LeaseBacked'
<1> USE DEF TypeOK, LeaseBacked, Leased
<1>1. ASSUME NEW d \in Deliveries, Acquire(d) PROVE LeaseBacked'
  BY <1>1, IdsOfDelivery DEF Acquire, TakeLock, Free, NoLock, aux, LockType
<1>2. ASSUME NEW d \in Deliveries, AcquireReplyLost(d) PROVE LeaseBacked'
  BY <1>2, IdsOfDelivery DEF AcquireReplyLost, TakeLock, Free, NoLock, local, aux, LockType
<1>3. ASSUME NEW d \in Deliveries, ForceRelease(d) PROVE LeaseBacked'
  BY <1>3, IdsOfDelivery DEF ForceRelease, local
<1>4. ASSUME NEW d \in Deliveries, Release(d) \/ ReleaseFails(d) PROVE LeaseBacked'
  BY <1>4, IdsOfDelivery DEF Release, ReleaseFails, ReleaseLock, store
<1>5. ASSUME NEW p \in Processes, Crash(p) PROVE LeaseBacked'
  BY <1>5 DEF Crash, Cleared, store
<1>6. CASE Tick
  <2> SUFFICES ASSUME NEW e \in Deliveries, lease'[e] > 0, e \notin evicted
               PROVE  locks'[LockKey(e)] = [token |-> e, left |-> lease'[e]]
    BY <1>6 DEF Tick
  <2>1. lease'[e] = lease[e] - 1 /\ lease[e] > 1
    BY <1>6 DEF Tick, Less
  <2>2. locks[LockKey(e)] = [token |-> e, left |-> lease[e]]
    BY <2>1
  <2>3. locks'[LockKey(e)] = Aged(locks[LockKey(e)])
    BY <1>6, IdsOfDelivery DEF Tick
  <2> QED
    BY <2>1, <2>2, <2>3 DEF Aged
<1>7. CASE UNCHANGED <<locks, lease, evicted>>
  BY <1>7
<1> QED
  BY <1>1, <1>2, <1>3, <1>4, <1>5, <1>6, <1>7, LockSteps

-----------------------------------------------------------------------------
(***************************************************************************)
(* Mutual exclusion                                                        *)
(***************************************************************************)

(* Two tasks cannot both be the token of one entry. *)
LEMMA BackedIsExclusive == LeaseBacked => LeaseExclusive
  <1> SUFFICES ASSUME LeaseBacked, NEW d \in Deliveries, NEW e \in Deliveries,
                      Leased(d), Leased(e), LockKey(d) = LockKey(e)
               PROVE  d = e
    BY DEF LeaseExclusive
  <1>1. /\ locks[LockKey(d)] = [token |-> d, left |-> lease[d]]
        /\ locks[LockKey(e)] = [token |-> e, left |-> lease[e]]
    BY DEF LeaseBacked
  <1> QED
    BY <1>1

LEMMA LockInvariant == Spec => [](TypeOK /\ HandlerRuns /\ LockersOnly /\ LeaseBacked)
<1>1. Init => TypeOK /\ HandlerRuns /\ LockersOnly /\ LeaseBacked
  BY DEF Init, TypeOK, NoLock, LockType, Stages, HandlerRuns, LockersOnly, LeaseBacked, Leased
<1>2. TypeOK /\ HandlerRuns /\ LockersOnly /\ LeaseBacked /\ [Next]_vars
        => (TypeOK /\ HandlerRuns /\ LockersOnly /\ LeaseBacked)'
  BY TypePreserved, HandlerRunsPreserved, LockersOnlyPreserved, LeaseBackedPreserved
<1> QED
  BY <1>1, <1>2, PTL DEF Spec

(* In every behaviour each variable keeps its type. *)
THEOREM TypeCorrect == Spec => []TypeOK
BY LockInvariant, PTL

(* _handle_drop keeps tasks under one lock key apart for as long as their    *)
(* locks are valid, for any number of tasks and processes and any TTL, with  *)
(* crashes, lost answers and force-releases.                                 *)
THEOREM Exclusion == Spec => []LeaseExclusive
BY LockInvariant, BackedIsExclusive, PTL

-----------------------------------------------------------------------------
(***************************************************************************)
(* The duplicate check                                                     *)
(***************************************************************************)

(* Only a task that takes the key of its message opens a window, and the key *)
(* lasts as long as the window.                                              *)
LEMMA WindowPreserved ==
  ASSUME TypeOK, WindowBacked, HandledOncePerWindow, [Next]_vars
  PROVE  WindowBacked' /\ HandledOncePerWindow'
<1> USE DEF TypeOK, WindowBacked, HandledOncePerWindow
<1>1. ASSUME NEW d \in Deliveries, MarkSeen(d) PROVE WindowBacked' /\ HandledOncePerWindow'
  <2>1. \A e \in Deliveries : MessageOf[e] = MessageOf[d] => window[e] = 0
    BY <1>1, IdsOfDelivery DEF MarkSeen
  <2>2. /\ dedupe' = [dedupe EXCEPT ![MessageOf[d]] = DedupeTTL]
        /\ window' = [window EXCEPT ![d] = DedupeTTL]
    BY <1>1 DEF MarkSeen
  <2> QED
    BY <2>1, <2>2, IdsOfDelivery
<1>2. CASE Tick
  <2>1. ASSUME NEW d \in Deliveries
        PROVE  /\ window'[d] = Less(window[d]) /\ window[d] \in Nat
               /\ dedupe'[MessageOf[d]] = Less(dedupe[MessageOf[d]])
               /\ dedupe[MessageOf[d]] \in Nat /\ window[d] =< dedupe[MessageOf[d]]
    BY <1>2, IdsOfDelivery, TTLAssumption DEF Tick
  <2>2. \A d \in Deliveries : window'[d] =< dedupe'[MessageOf[d]]
    BY <2>1 DEF Less
  <2>3. \A d \in Deliveries : window[d] = 0 => window'[d] = 0
    BY <2>1 DEF Less
  <2>4. HandledOncePerWindow'
    BY <2>3
  <2> QED
    BY <2>2, <2>4
<1>3. CASE UNCHANGED <<dedupe, window>>
  BY <1>3
<1>4. (\E d \in Deliveries : MarkSeen(d)) \/ Tick \/ UNCHANGED <<dedupe, window>>
  BY DEF Next, Step, Fault, Receive, Accept, SkipDuplicate, AcceptReplyLost, AppendHistory,
         AppendFails, Acquire, AcquireReplyLost, Conflict, ForceRelease, LoseRace, Release,
         ReadSubscription, HandlerReturns, HandlerRaises, ChangeSubscription, CallFails,
         ReadFails, ReleaseFails, Crash, UnlockedEvent, store, local, aux, vars
<1> QED
  BY <1>1, <1>2, <1>3, <1>4

(* set_if_not_exists gives a message to one of its deliveries per            *)
(* dedupe_ttl_ms, wherever and however often it is delivered.                *)
THEOREM OncePerWindow == Spec => []HandledOncePerWindow
<1>1. Init => WindowBacked /\ HandledOncePerWindow
  BY DEF Init, WindowBacked, HandledOncePerWindow
<1>2. TypeOK /\ WindowBacked /\ HandledOncePerWindow /\ [Next]_vars
        => (WindowBacked /\ HandledOncePerWindow)'
  BY WindowPreserved
<1> QED
  BY <1>1, <1>2, TypeCorrect, PTL DEF Spec

-----------------------------------------------------------------------------
(***************************************************************************)
(* Routing under the lock                                                  *)
(***************************************************************************)

(* Two tasks of one thread have one lock key. *)
LEMMA SameThreadSameKey ==
  ASSUME NEW d \in Deliveries, NEW e \in Deliveries, Thread(d) = Thread(e)
  PROVE  LockKey(d) = LockKey(e)
BY DEF LockKey, Channel

LEMMA RoutedPreserved ==
  ASSUME TypeOK, LockersOnly, LeaseExclusive, RoutedUnderLock, [Next]_vars
  PROVE  RoutedUnderLock'
<1> USE DEF TypeOK, RoutedUnderLock, Leased
<1>1. ASSUME NEW d \in Deliveries,
             \/ Receive(d) \/ SkipDuplicate(d) \/ Accept(d) \/ AcceptReplyLost(d)
             \/ Conflict(d) \/ LoseRace(d) \/ CallFails(d)
      PROVE  RoutedUnderLock'
  BY <1>1 DEF Receive, SkipDuplicate, Accept, AcceptReplyLost, AfterHistory, Conflict, LoseRace,
              CallFails, Goto, store, local, aux
<1>2. ASSUME NEW d \in Deliveries, NEW i \in Ids, AppendHistory(d, i) \/ AppendFails(d, i)
      PROVE  RoutedUnderLock'
  BY <1>2 DEF AppendHistory, AppendFails, AfterHistory, Goto, store, aux
<1>3. ASSUME NEW d \in Deliveries, Acquire(d) \/ AcquireReplyLost(d) \/ ForceRelease(d)
      PROVE  RoutedUnderLock'
  BY <1>3 DEF Acquire, AcquireReplyLost, ForceRelease, Goto, local, aux
<1>4. ASSUME NEW d \in Deliveries, Release(d) \/ ReleaseFails(d) PROVE RoutedUnderLock'
  BY <1>4 DEF Release, ReleaseFails, Goto, store
<1>5. ASSUME NEW d \in Deliveries, Returns(d) \/ Raises(d), UNCHANGED <<subscribed, lease, evicted>>
      PROVE  RoutedUnderLock'
  BY <1>5 DEF Returns, Raises, Leave, Goto
<1>6. ASSUME NEW d \in Deliveries, ReadSubscription(d) PROVE RoutedUnderLock'
  <2>1. UNCHANGED <<subscribed, lease, evicted>>
    BY <1>6 DEF ReadSubscription, store
  <2>2. CASE Returns(d)
    BY <1>5, <2>1, <2>2
  <2>3. CASE ~Returns(d)
    <3>1. /\ isSubscribed' = [isSubscribed EXCEPT ![d] = (Thread(d) \in subscribed)]
          /\ pc' = [pc EXCEPT ![d] = "handlers"]
          /\ UNCHANGED disturbed
      BY <1>6, <2>3 DEF ReadSubscription, Goto
    <3> QED
      BY <2>1, <3>1
  <2> QED
    BY <2>2, <2>3
<1>7. ASSUME NEW d \in Deliveries, HandlerReturns(d) PROVE RoutedUnderLock'
  <2>1. UNCHANGED <<subscribed, lease, evicted>>
    BY <1>7 DEF HandlerReturns, store
  <2>2. Returns(d) \/ UNCHANGED <<pc, isSubscribed, disturbed>>
    BY <1>7 DEF HandlerReturns
  <2> QED
    BY <1>5, <2>1, <2>2
<1>8. ASSUME NEW d \in Deliveries, ReadFails(d) \/ HandlerRaises(d) PROVE RoutedUnderLock'
  BY <1>5, <1>8 DEF ReadFails, HandlerRaises, store
<1>9. ASSUME NEW d \in Deliveries, ChangeSubscription(d) PROVE RoutedUnderLock'
  <2> SUFFICES ASSUME NEW e \in Deliveries, pc[e] = "handlers", Locking(e), Leased(e),
                      e \notin disturbed'
               PROVE  isSubscribed[e] <=> Thread(e) \in subscribed'
    BY <1>9 DEF ChangeSubscription, local
  <2>1. e # d /\ (Leased(d) \/ Thread(e) # Thread(d)) /\ e \notin disturbed
    BY <1>9 DEF ChangeSubscription
  <2>2. Thread(e) # Thread(d)
    <3> SUFFICES ASSUME Thread(e) = Thread(d) PROVE FALSE
      OBVIOUS
    <3>1. Leased(d) /\ InLock(d) /\ InLock(e)
      BY <2>1 DEF LockersOnly, InLock
    <3> QED
      BY <2>1, <3>1, SameThreadSameKey DEF LeaseExclusive
  <2>3. Thread(e) \in subscribed' <=> Thread(e) \in subscribed
    BY <1>9, <2>2 DEF ChangeSubscription
  <2> QED
    BY <2>1, <2>3
<1>10. ASSUME NEW p \in Processes, Crash(p) PROVE RoutedUnderLock'
  BY <1>10 DEF Crash, Cleared, store
<1>11. ASSUME NEW t \in Threads, UnlockedEvent(t) PROVE RoutedUnderLock'
  BY <1>11 DEF UnlockedEvent, local
<1>12. CASE Tick
  BY <1>12 DEF Tick, Less
<1>13. CASE UNCHANGED vars
  BY <1>13 DEF vars, store, local, aux
<1> QED
  BY <1>1, <1>2, <1>3, <1>4, <1>6, <1>7, <1>8, <1>9, <1>10, <1>11, <1>12, <1>13
     DEF Next, Step, Fault

(* As long as a task's lock is valid, the subscription it routed its message *)
(* by is the thread's subscription, but for changes made by its own handlers *)
(* or without a valid lock.                                                  *)
THEOREM RoutingIsCurrent == Spec => []RoutedUnderLock
<1>1. Init => RoutedUnderLock
  BY DEF Init, RoutedUnderLock
<1>2. TypeOK /\ LockersOnly /\ LeaseExclusive /\ RoutedUnderLock /\ [Next]_vars => RoutedUnderLock'
  BY RoutedPreserved
<1> QED
  BY <1>1, <1>2, LockInvariant, Exclusion, PTL DEF Spec

-----------------------------------------------------------------------------
(***************************************************************************)
(* Releases                                                                *)
(***************************************************************************)

(* A lock goes by its TTL, by its own task or by force, and in no other way: *)
(* release_lock compares the token, so a late release changes nothing.       *)
THEOREM ReleasesAreOwn == Spec => OnlyOwnerReleases
<1> DEFINE Given(k, d) ==
             /\ LockKey(d) = k
             /\ \/ pc[d] \in {"release", "unwind"} /\ pc'[d] # pc[d] /\ locks[k].token = d
                \/ pc[d] = "force" /\ pc'[d] = "reacquire"
           Kept(k) == locks[k] # NoLock /\ locks'[k].token # locks[k].token
                        => \/ locks[k].left = 1 /\ pc' = pc
                           \/ \E d \in Deliveries : Given(k, d)
<1>1. ASSUME TypeOK, [Next]_vars, NEW k \in Ids, locks[k] # NoLock, locks'[k] # locks[k]
      PROVE  (locks[k].left = 1 /\ pc' = pc) \/ (\E d \in Deliveries : Given(k, d))
             \/ locks'[k].token = locks[k].token
  <2>1. ASSUME NEW d \in Deliveries, Acquire(d) \/ AcquireReplyLost(d) PROVE FALSE
    BY <1>1, <2>1, IdsOfDelivery DEF TypeOK, Acquire, AcquireReplyLost, TakeLock, Free
  <2>2. ASSUME NEW d \in Deliveries, ForceRelease(d) PROVE Given(k, d)
    <3>1. k = LockKey(d)
      BY <1>1, <2>2, IdsOfDelivery DEF TypeOK, ForceRelease
    <3> QED
      BY <1>1, <2>2, <3>1 DEF ForceRelease, Goto, TypeOK
  <2>3. ASSUME NEW d \in Deliveries, Release(d) PROVE Given(k, d)
    <3>1. k = LockKey(d) /\ locks[k].token = d
      BY <1>1, <2>3, IdsOfDelivery DEF TypeOK, Release, ReleaseLock
    <3>2. pc[d] \in {"release", "unwind"} /\ pc'[d] \in {"handled", "failed"}
      BY <1>1, <2>3 DEF Release, Goto, TypeOK
    <3> QED
      BY <3>1, <3>2
  <2>4. CASE Tick
    <3>1. locks'[k] = Aged(locks[k]) /\ locks[k] \in LockType /\ pc' = pc
      BY <1>1, <2>4 DEF Tick, TypeOK
    <3>2. CASE locks[k].left > 1
      BY <3>1, <3>2 DEF Aged, LockType
    <3>3. CASE locks[k].left = 1
      BY <3>1, <3>3
    <3> QED
      BY <1>1, <3>1, <3>2, <3>3 DEF LockType
  <2>5. ASSUME UNCHANGED locks PROVE FALSE
    BY <1>1, <2>5
  <2>6. ASSUME NEW d \in Deliveries, ReleaseFails(d) PROVE FALSE
    BY <2>5, <2>6 DEF ReleaseFails, store
  <2>7. ASSUME NEW p \in Processes, Crash(p) PROVE FALSE
    BY <2>5, <2>7 DEF Crash, store
  <2> QED
    BY <1>1, <2>1, <2>2, <2>3, <2>4, <2>5, <2>6, <2>7, LockSteps
<1>2. TypeOK /\ [Next]_vars => [\A k \in Ids : Kept(k)]_vars
  BY <1>1
<1> QED
  BY <1>2, TypeCorrect, PTL DEF Spec, OnlyOwnerReleases

-----------------------------------------------------------------------------
(***************************************************************************)
(* The history                                                             *)
(***************************************************************************)

(* Where a task has left the history step behind it, other than by failing. *)
Past == {"acquire", "force", "reacquire", "subscription", "handlers",
         "release", "unwind", "handled", "lock_error"}

Recorded ==
  \A d \in Deliveries : pc[d] \in Past => \A i \in HistoryIds(d) : d \in history[i]

(* A step that accepts no message and appends nothing neither takes a task    *)
(* past the history step nor forgets what it still has to append.             *)
LEMMA QuietSteps ==
  ASSUME TypeOK, [Next]_vars,
         ~ \E d \in Deliveries : Accept(d) \/ \E i \in Ids : AppendHistory(d, i)
  PROVE  /\ UNCHANGED history
         /\ \A d \in Deliveries :
              /\ pc'[d] \in Past => pc[d] \in Past
              /\ pc'[d] = "history" => pc[d] = "history" /\ appends'[d] = appends[d]
<1> DEFINE Quiet == /\ UNCHANGED history
                    /\ \A d \in Deliveries :
                         /\ pc'[d] \in Past => pc[d] \in Past
                         /\ pc'[d] = "history" => pc[d] = "history" /\ appends'[d] = appends[d]
<1> USE DEF TypeOK, Past
<1>1. ASSUME NEW d \in Deliveries,
             \/ Receive(d) \/ SkipDuplicate(d) \/ AcceptReplyLost(d) \/ CallFails(d)
             \/ Conflict(d) \/ LoseRace(d)
      PROVE  Quiet
  BY <1>1 DEF Receive, SkipDuplicate, AcceptReplyLost, CallFails, Conflict, LoseRace, Goto, store, local
<1>2. ASSUME NEW d \in Deliveries,
             Acquire(d) \/ AcquireReplyLost(d) \/ ForceRelease(d) \/ Release(d) \/ ReleaseFails(d)
      PROVE  Quiet
  BY <1>2 DEF Acquire, AcquireReplyLost, ForceRelease, Release, ReleaseFails, Goto, store, local
<1>3. ASSUME NEW d \in Deliveries,
             ReadSubscription(d) \/ HandlerReturns(d) \/ HandlerRaises(d) \/ ReadFails(d)
      PROVE  Quiet
  <2>1. UNCHANGED <<history, appends>> /\ pc[d] \in Past
    BY <1>3 DEF ReadSubscription, HandlerReturns, HandlerRaises, ReadFails, store
  <2>2. \/ UNCHANGED pc
        \/ \E stage \in Past \cup {"failed"} : pc' = [pc EXCEPT ![d] = stage]
    BY <1>3 DEF ReadSubscription, HandlerReturns, HandlerRaises, ReadFails, Returns, Raises, Leave, Goto
  <2> QED
    BY <2>1, <2>2
<1>4. ASSUME NEW d \in Deliveries, NEW i \in Ids, AppendFails(d, i)
      PROVE  Quiet
  BY <1>4 DEF AppendFails, Goto, store
<1>5. ASSUME NEW p \in Processes, Crash(p)
      PROVE  Quiet
  <2>1. /\ UNCHANGED history
        /\ \A d \in Deliveries :
             IF ProcessOf[d] = p /\ pc[d] \in Running THEN pc'[d] = "failed"
             ELSE /\ pc'[d] = pc[d]
                  /\ ProcessOf[d] # p => appends'[d] = appends[d]
    BY <1>5 DEF Crash, Cleared, store
  <2>2. "history" \in Running
    BY DEF Running, Stages, Ended
  <2> QED
    BY <2>1, <2>2
<1>6. CASE UNCHANGED <<history, pc, appends>>
  BY <1>6
<1>7. \/ \E d \in Deliveries :
           \/ Receive(d) \/ SkipDuplicate(d) \/ AcceptReplyLost(d) \/ CallFails(d)
           \/ Conflict(d) \/ LoseRace(d) \/ Acquire(d) \/ AcquireReplyLost(d) \/ ForceRelease(d)
           \/ Release(d) \/ ReleaseFails(d) \/ ReadSubscription(d) \/ HandlerReturns(d)
           \/ HandlerRaises(d) \/ ReadFails(d) \/ \E i \in Ids : AppendFails(d, i)
      \/ \E p \in Processes : Crash(p)
      \/ UNCHANGED <<history, pc, appends>>
  BY DEF Next, Step, Fault, ChangeSubscription, UnlockedEvent, Tick, local, vars, store
<1> QED
  BY <1>1, <1>2, <1>3, <1>4, <1>5, <1>6, <1>7

LEMMA RecordedPreserved ==
  ASSUME TypeOK, AppendsTracked, Recorded, [Next]_vars
  PROVE  AppendsTracked' /\ Recorded'
<1> USE DEF TypeOK, AppendsTracked, Recorded
<1>1. ASSUME NEW d \in Deliveries, Accept(d)
      PROVE  AppendsTracked' /\ Recorded'
  <2>1. /\ appends' = [appends EXCEPT ![d] = HistoryIds(d)] /\ history' = history
        /\ pc' = [pc EXCEPT ![d] = IF HistoryIds(d) = {} THEN AfterHistory(d) ELSE "history"]
    BY <1>1 DEF Accept, Goto
  <2>2. \A e \in Deliveries \ {d} : pc'[e] = pc[e] /\ appends'[e] = appends[e]
    BY <2>1
  <2>3. appends'[d] = HistoryIds(d) /\ (pc'[d] \in Past => HistoryIds(d) = {})
    BY <2>1 DEF Past
  <2> QED
    BY <2>1, <2>2, <2>3
<1>2. ASSUME NEW d \in Deliveries, NEW i \in Ids, AppendHistory(d, i)
      PROVE  AppendsTracked' /\ Recorded'
  <2>1. /\ history' = [history EXCEPT ![i] = @ \cup {d}]
        /\ appends' = [appends EXCEPT ![d] = @ \ {i}]
    BY <1>2 DEF AppendHistory
  <2>2. \A j \in Ids : history[j] \subseteq history'[j] /\ d \in history'[i]
    BY <2>1
  <2>3. \A e \in Deliveries \ {d} : pc'[e] = pc[e] /\ appends'[e] = appends[e]
    BY <1>2, <2>1 DEF AppendHistory, Goto
  <2>4. \A e \in Deliveries \ {d} :
          /\ pc'[e] = "history" => \A j \in HistoryIds(e) : j \in appends'[e] \/ e \in history'[j]
          /\ pc'[e] \in Past => \A j \in HistoryIds(e) : e \in history'[j]
    BY <2>2, <2>3, IdsOfDelivery
  <2>5. CASE pc[d] = "history"
    <3>1. \A j \in HistoryIds(d) : j \in appends'[d] \/ d \in history'[j]
      BY <2>1, <2>2, <2>5, IdsOfDelivery
    <3>2. pc'[d] \in Past => appends'[d] = {}
      BY <1>2, <2>1, <2>5 DEF AppendHistory, Goto, Past
    <3> QED
      BY <2>4, <3>1, <3>2
  <2>6. CASE pc[d] = "failed"
    <3>1. pc'[d] = "failed"
      BY <1>2, <2>6 DEF AppendHistory
    <3> QED
      BY <2>4, <3>1 DEF Past
  <2> QED
    BY <1>2, <2>5, <2>6 DEF AppendHistory
<1>3. CASE ~ \E d \in Deliveries : Accept(d) \/ \E i \in Ids : AppendHistory(d, i)
  BY <1>3, QuietSteps
<1> QED
  BY <1>1, <1>2, <1>3

(* Whatever fails and whoever crashes, no handler runs for a message that is  *)
(* not in the histories it belongs to, and no history has a message twice     *)
(* within one dedupe_ttl_ms.                                                  *)
THEOREM HistoryBeforeHandlers == Spec => []HistoryComplete
<1>1. Init => AppendsTracked /\ Recorded
  BY DEF Init, AppendsTracked, Recorded, Past
<1>2. TypeOK /\ AppendsTracked /\ Recorded /\ [Next]_vars => (AppendsTracked /\ Recorded)'
  BY RecordedPreserved
<1>3. TypeOK /\ HandledOncePerWindow /\ Recorded => HistoryComplete
  BY DEF TypeOK, HandledOncePerWindow, Recorded, Past, HistoryComplete
<1> QED
  BY <1>1, <1>2, <1>3, TypeCorrect, OncePerWindow, PTL DEF Spec
=============================================================================
