-------------------------- MODULE PlanEditsProofs ---------------------------
(***************************************************************************)
(* What PlanEdits guarantees for any number of callers, any number of      *)
(* posts and every set of statuses.                                        *)
(***************************************************************************)
EXTENDS PlanEdits, TLAPS

USE PlanAssumption, StartAssumption

-----------------------------------------------------------------------------
(***************************************************************************)
(* The task lists that mutations make                                      *)
(***************************************************************************)

OneIn(list) ==
  \A i, j \in DOMAIN list : list[i] = "in_progress" /\ list[j] = "in_progress" => i = j

GoodList(list) == list \in Seq(Statuses) /\ list # <<>> /\ OneIn(list)

LEMMA FinishedList ==
  ASSUME tasks \in Seq(Statuses), tasks # <<>>
  PROVE  /\ AllFinished \in Seq(Statuses) /\ AllFinished # <<>>
         /\ DOMAIN AllFinished = 1..Len(tasks) /\ Len(AllFinished) = Len(tasks)
         /\ \A i \in DOMAIN AllFinished : AllFinished[i] # "in_progress"
<1>1. /\ Len(tasks) \in Nat \ {0}
      /\ DOMAIN tasks = 1..Len(tasks)
      /\ \A i \in 1..Len(tasks) : tasks[i] \in Statuses
  OBVIOUS
<1>2. \A i \in 1..Len(tasks) : AllFinished[i] \in Statuses /\ AllFinished[i] # "in_progress"
  BY <1>1 DEF AllFinished, Finished, Statuses
<1>3. AllFinished \in [1..Len(tasks) -> Statuses]
  BY <1>1, <1>2 DEF AllFinished
<1>4. AllFinished \in Seq(Statuses) /\ Len(AllFinished) = Len(tasks)
  BY <1>1, <1>3
<1> QED
  BY <1>1, <1>2, <1>3, <1>4

LEMMA CurrentTask ==
  ASSUME tasks \in Seq(Statuses), tasks # <<>>, OneIn(tasks)
  PROVE  /\ Current \in DOMAIN tasks
         /\ \A i \in DOMAIN tasks : tasks[i] = "in_progress" => i = Current
<1> DEFINE inProgress == {i \in DOMAIN tasks : tasks[i] = "in_progress"}
           candidates == IF inProgress = {} THEN DOMAIN tasks ELSE inProgress
           Last(i) == \A j \in candidates : j <= i
<1>1. Len(tasks) \in Nat \ {0} /\ DOMAIN tasks = 1..Len(tasks)
  OBVIOUS
<1>2. \E i \in candidates : Last(i)
  <2>1. CASE inProgress = {}
    BY <1>1, <2>1
  <2>2. CASE inProgress # {}
    <3>1. PICK k \in inProgress : TRUE
      BY <2>2
    <3>2. inProgress = {k}
      BY <3>1 DEF OneIn
    <3> QED
      BY <1>1, <2>2, <3>1, <3>2
  <2> QED
    BY <2>1, <2>2
<1>3. Current = CHOOSE i \in candidates : Last(i)
  BY DEF Current
<1>4. Current \in candidates
  BY <1>2, <1>3
<1> QED
  BY <1>1, <1>4 DEF OneIn

LEMMA MutatedLists ==
  ASSUME tasks \in Seq(Statuses), tasks # <<>>, OneIn(tasks)
  PROVE  /\ GoodList(Append(AllFinished, "in_progress"))
         /\ GoodList(<<"in_progress">>)
         /\ GoodList(AllFinished)
         /\ \A status \in Statuses : GoodList([tasks EXCEPT ![Current] = status])
         /\ tasks[Current] \in Statuses
<1>1. GoodList(AllFinished)
  BY FinishedList DEF GoodList, OneIn
<1>2. GoodList(Append(AllFinished, "in_progress"))
  <2> DEFINE list == Append(AllFinished, "in_progress")
  <2>1. /\ list \in Seq(Statuses)
        /\ DOMAIN list = 1..(Len(tasks) + 1)
        /\ Len(list) = Len(tasks) + 1
        /\ \A i \in 1..Len(tasks) : list[i] = AllFinished[i]
    BY FinishedList DEF Statuses
  <2>2. Len(tasks) \in Nat /\ \A i \in 1..Len(tasks) : list[i] # "in_progress"
    BY FinishedList, <2>1
  <2>3. OneIn(list)
    BY <2>1, <2>2 DEF OneIn
  <2> QED
    BY <2>1, <2>2, <2>3 DEF GoodList
<1>3. GoodList(<<"in_progress">>)
  BY DEF GoodList, OneIn, Statuses
<1>4. ASSUME NEW status \in Statuses
      PROVE  GoodList([tasks EXCEPT ![Current] = status])
  BY CurrentTask DEF GoodList, OneIn
<1>5. tasks[Current] \in Statuses
  BY CurrentTask
<1> QED
  BY <1>1, <1>2, <1>3, <1>4, <1>5

-----------------------------------------------------------------------------
(***************************************************************************)
(* One lemma per action or group of actions                                *)
(***************************************************************************)

LEMMA InitInv ==
  Init => IndInv
<1> SUFFICES ASSUME Init PROVE IndInv
  OBVIOUS
<1>1. TypeOK
  BY DEF Init, TypeOK, Idle, CallerStates, Statuses
<1>2. OneInProgress
  BY DEF Init, OneInProgress
<1> QED
  BY <1>1, <1>2 DEF Init, IndInv, RoomForPost, Idle, TurnsDiffer, ChainIsLast, Linked, FuturesEnd, SentInTurn,
     SettledShowsAll, Queued, Before

(* A post touches no edit; the message it adds has none. *)
LEMMA PostingInv ==
  ASSUME IndInv, Post \/ OnPosted \/ PostFails
  PROVE  IndInv'
<1>1. CASE Post \/ PostFails
  <2>1. UNCHANGED <<tasks, version, posts, chain, shown, queue>>
    BY <1>1 DEF Post, PostFails
  <2>2. TypeOK
    BY DEF IndInv
  <2>3. posting' \in [busy : BOOLEAN, version : Nat]
    <3>1. version \in Nat
      BY <2>2 DEF TypeOK
    <3>2. CASE Post
      BY <3>1, <3>2 DEF Post
    <3>3. CASE PostFails
      BY <3>3 DEF PostFails, Idle
    <3> QED
      BY <1>1, <3>2, <3>3
  <2>4. TypeOK'
    BY <2>1, <2>2, <2>3 DEF TypeOK, queue
  <2>5. RoomForPost'
    BY <1>1 DEF IndInv, RoomForPost, Post, PostFails, Idle
  <2> QED
    BY <2>1, <2>4, <2>5 DEF IndInv, OneInProgress, TurnsDiffer, ChainIsLast, Linked, FuturesEnd, SentInTurn,
       SettledShowsAll, Queued, Before, NobodyCancelled, queue
<1>2. CASE OnPosted
  <2>1. TypeOK'
    <3>1. TypeOK
      BY DEF IndInv
    <3>2. posting' \in [busy : BOOLEAN, version : Nat] /\ posting.version \in Nat
      BY <1>2, <3>1, SMT DEF OnPosted, TypeOK, Idle
    <3>3. posts' \in 0..MaxPosts
      BY <1>2, <3>1 DEF OnPosted, IndInv, RoomForPost, TypeOK
    <3> QED
      BY <1>2, <3>1, <3>2, <3>3 DEF OnPosted, TypeOK, queue
  <2>2. TurnsDiffer' /\ ChainIsLast'
    BY <1>2 DEF OnPosted, IndInv, TypeOK, TurnsDiffer, ChainIsLast, Queued, queue
  <2>3. OneInProgress' /\ Linked' /\ FuturesEnd' /\ SentInTurn'
    BY <1>2 DEF OnPosted, IndInv, OneInProgress, Linked, FuturesEnd, SentInTurn, Before,
       NobodyCancelled, queue
  <2>4. SettledShowsAll' /\ RoomForPost'
    BY <1>2 DEF OnPosted, SettledShowsAll, RoomForPost, Idle
  <2> QED
    BY <2>1, <2>2, <2>3, <2>4 DEF IndInv
<1> QED
  BY <1>1, <1>2

(* A mutation is numbered after all the others and waits for the last of them. *)
LEMMA MutateInv ==
  ASSUME IndInv, NEW c \in Callers, NEW list, GoodList(list), Mutate(c, list)
  PROVE  IndInv'
<1> USE DEF Mutate, EnqueueEdit, CanMutate
<1>1. TypeOK'
  <2>1. TypeOK /\ list \in Seq(Statuses) /\ list # <<>>
    BY DEF IndInv, GoodList
  <2>2. posts \in 1..MaxPosts
    BY <2>1 DEF TypeOK
  <2>3. tasks' \in Seq(Statuses) /\ tasks' # <<>> /\ version' \in Nat
    BY <2>1 DEF TypeOK
  <2>4. chain' \in Callers \cup {Start} /\ prev' \in [Callers -> Callers \cup {Start}]
    BY <2>1 DEF TypeOK
  <2>5. bound' \in [Callers -> 1..MaxPosts] /\ turn' \in [Callers -> Nat]
    BY <2>1, <2>2 DEF TypeOK
  <2>6. /\ runner' \in [Callers -> {"none", "created", "waiting", "editing", "ended"}]
        /\ caller' \in [Callers -> CallerStates]
    BY <2>1 DEF TypeOK, CallerStates
  <2> QED
    BY <2>1, <2>3, <2>4, <2>5, <2>6 DEF TypeOK
<1>2. OneInProgress'
  BY DEF OneInProgress, GoodList, OneIn
<1>3. ~Queued(c) /\ runner[c] = "none"
  BY DEF IndInv, TypeOK, TurnsDiffer, Queued
<1>4. /\ turn'[c] = version + 1 /\ bound'[c] = posts /\ Queued(c)'
      /\ \A d \in Callers \ {c} : /\ turn'[d] = turn[d] /\ bound'[d] = bound[d]
                                  /\ runner'[d] = runner[d] /\ prev'[d] = prev[d]
                                  /\ caller'[d] = caller[d]
                                  /\ turn[d] <= version
      /\ caller'[c] = "awaiting" /\ runner'[c] = "created" /\ prev'[c] = chain /\ chain' = c
      /\ done' = done /\ content' = content
      /\ version' = version + 1 /\ version \in Nat /\ posts' = posts
      /\ turn \in [Callers -> Nat]
  BY DEF IndInv, TypeOK, TurnsDiffer, Queued
<1>5. TurnsDiffer'
  <2>1. \A d \in Callers : turn'[d] <= version' /\ (Queued(d)' <=> runner'[d] # "none")
    BY <1>3, <1>4 DEF IndInv, TurnsDiffer, Queued
  <2>2. \A d \in Callers : Queued(d)' => bound'[d] <= posts' /\ caller'[d] # "idle"
    <3>1. posts <= posts
      BY DEF IndInv, TypeOK
    <3> QED
      BY <1>4, <3>1 DEF IndInv, TurnsDiffer, Queued
  <2>3. \A d, e \in Callers : Queued(d)' /\ turn'[d] = turn'[e] => d = e
    BY <1>4 DEF IndInv, TurnsDiffer, Queued
  <2> QED
    BY <2>1, <2>2, <2>3 DEF TurnsDiffer
<1>6. ChainIsLast'
  BY <1>4 DEF ChainIsLast, Queued
<1>7. \A d, e \in Callers \ {c} : Before(d, e)' <=> Before(d, e)
  BY <1>4 DEF Before
<1>8. \A d \in Callers : ~Before(c, d)'
  BY <1>4 DEF Before
<1>9. NobodyCancelled' => NobodyCancelled
  BY <1>4 DEF NobodyCancelled
<1>10. Linked'
  <2> SUFFICES ASSUME NobodyCancelled', NEW e \in Callers, runner'[e] \in {"created", "waiting"}
               PROVE  IF prev'[e] = Start
                        THEN \A d \in Callers : ~Before(d, e)'
                        ELSE /\ Before(prev[e], e)'
                             /\ \A d \in Callers : Before(d, e)' => d = prev'[e] \/ Before(d, prev[e])'
    BY DEF Linked
  <2>1. CASE e = c /\ chain = Start
    <3>1. \A d \in Callers : Queued(d) => bound[d] # posts
      BY <2>1 DEF IndInv, ChainIsLast
    <3> QED
      BY <1>4, <1>8, <2>1, <3>1 DEF Before, Queued
  <2>2. CASE e = c /\ chain # Start
    <3>1. PICK p \in Callers : p = chain
      BY <2>2 DEF IndInv, TypeOK
    <3>2. Queued(p) /\ bound[p] = posts /\ turn[p] = version /\ p # c
      BY <1>3, <2>2, <3>1 DEF IndInv, ChainIsLast
    <3>3. Before(p, c)'
      BY <1>4, <3>2 DEF Before, Queued
    <3>4. ASSUME NEW d \in Callers, Before(d, c)', d # p
          PROVE  Before(d, p)'
      <4>1. d # c
        BY <1>8, <3>4
      <4>2. turn[d] > 0 /\ bound[d] = posts /\ turn[d] <= version
        BY <1>4, <3>4, <4>1 DEF Before
      <4>3. turn[d] # turn[p]
        BY <3>4, <4>2 DEF IndInv, TurnsDiffer, Queued
      <4> QED
        BY <1>4, <3>2, <4>1, <4>2, <4>3 DEF Before
    <3> QED
      BY <1>4, <2>2, <3>1, <3>3, <3>4
  <2>3. CASE e # c
    <3>1. /\ runner[e] \in {"created", "waiting"} /\ NobodyCancelled /\ prev'[e] = prev[e]
          /\ prev[e] \in Callers \cup {Start}
      BY <1>4, <1>9, <2>3 DEF IndInv, TypeOK
    <3>2. IF prev[e] = Start
            THEN \A d \in Callers : ~Before(d, e)
            ELSE /\ Before(prev[e], e)
                 /\ \A d \in Callers : Before(d, e) => d = prev[e] \/ Before(d, prev[e])
      BY <3>1 DEF IndInv, Linked
    <3>3. prev[e] # Start => prev[e] # c
      BY <1>3, <3>2 DEF Before, Queued
    <3>4. PICK p \in Callers \cup {Start} : p = prev[e]
      BY <3>1
    <3> QED
      BY <1>7, <1>8, <2>3, <3>1, <3>2, <3>3, <3>4
  <2> QED
    BY <2>1, <2>2, <2>3
<1>11. FuturesEnd'
  BY <1>3, <1>4, <1>9 DEF IndInv, FuturesEnd
<1>12. SentInTurn'
  <2> SUFFICES ASSUME NEW e \in Callers
               PROVE  /\ NobodyCancelled' /\ runner'[e] \in {"editing", "ended"} =>
                           \A d \in Callers : Before(d, e)' => runner'[d] = "ended"
                      /\ runner'[e] = "editing" => content'[e] \in turn'[e]..version'
    BY DEF SentInTurn
  <2>1. CASE e = c
    BY <1>4, <2>1
  <2>2. CASE e # c
    <3>1. \A d \in Callers : Before(d, e)' => d # c /\ Before(d, e)
      BY <1>7, <1>8, <2>2
    <3>2. turn[e] \in Nat /\ (runner[e] = "editing" => content[e] \in turn[e]..version)
      BY <1>4 DEF IndInv, SentInTurn
    <3>3. runner[e] = "editing" => content[e] \in turn[e]..(version + 1)
      BY <1>4, <3>2
    <3> QED
      BY <1>4, <1>9, <2>2, <3>1, <3>3 DEF IndInv, SentInTurn
  <2> QED
    BY <2>1, <2>2
<1>13. SettledShowsAll' /\ RoomForPost'
  BY <1>3, <1>4 DEF IndInv, FuturesEnd, SettledShowsAll, RoomForPost
<1> QED
  BY <1>1, <1>2, <1>5, <1>6, <1>10, <1>11, <1>12, <1>13 DEF IndInv

(* What does not change, for a step of the runner of c. *)
StepOf(c) ==
  /\ UNCHANGED <<tasks, version, posting, posts, chain, bound, turn>>
  /\ \A d \in Callers \ {c} :
       /\ runner'[d] = runner[d] /\ caller'[d] = caller[d] /\ done'[d] = done[d]
       /\ prev'[d] = prev[d] /\ content'[d] = content[d]

LEMMA StepKeeps ==
  ASSUME NEW c \in Callers, StepOf(c), NobodyCancelled', caller[c] \notin {"cancelled", "awaiting_cancelled"}
  PROVE  NobodyCancelled
BY DEF StepOf, NobodyCancelled

(* The parts of the invariant that speak of the plan and the order alone. *)
LEMMA StepInv ==
  ASSUME IndInv, NEW c \in Callers, StepOf(c), runner[c] # "none", runner'[c] # "none",
         caller[c] # "idle", caller'[c] # "idle"
  PROVE  /\ OneInProgress' /\ RoomForPost' /\ TurnsDiffer' /\ ChainIsLast'
         /\ \A d, e \in Callers : Before(d, e)' <=> Before(d, e)
<1>1. OneInProgress' /\ RoomForPost'
  BY DEF IndInv, OneInProgress, RoomForPost, StepOf
<1>2. TurnsDiffer' /\ ChainIsLast'
  BY DEF IndInv, TurnsDiffer, ChainIsLast, Queued, StepOf
<1>3. \A d, e \in Callers : Before(d, e)' <=> Before(d, e)
  BY DEF Before, StepOf
<1> QED
  BY <1>1, <1>2, <1>3

(* An edit is sent once everything before it has ended. *)
LEMMA FireInv ==
  ASSUME IndInv, NEW c \in Callers, runner[c] \in {"created", "waiting"}, Resolved(prev[c]), Fire(c),
         UNCHANGED <<tasks, version, posting, posts, chain, shown, caller, done, bound, turn>>
  PROVE  IndInv'
<1>1. /\ TypeOK /\ runner'[c] = "editing" /\ content'[c] = version /\ done' = done /\ caller' = caller
      /\ StepOf(c)
  BY DEF IndInv, TypeOK, Fire, StepOf
<1>2. TypeOK'
  <2>1. /\ runner' \in [Callers -> {"none", "created", "waiting", "editing", "ended"}]
        /\ prev' \in [Callers -> Callers \cup {Start}]
        /\ content' \in [Callers -> Nat]
    BY <1>1 DEF TypeOK, Fire
  <2> QED
    BY <1>1, <2>1 DEF TypeOK
<1>3. caller[c] # "idle"
  BY DEF IndInv, TurnsDiffer
<1>4. /\ OneInProgress' /\ RoomForPost' /\ TurnsDiffer' /\ ChainIsLast'
      /\ \A d, e \in Callers : Before(d, e)' <=> Before(d, e)
  BY <1>1, <1>3, StepInv
<1>5. NobodyCancelled' <=> NobodyCancelled
  BY <1>1 DEF NobodyCancelled
<1>6. Linked'
  <2> SUFFICES ASSUME NobodyCancelled', NEW e \in Callers, runner'[e] \in {"created", "waiting"}
               PROVE  IF prev'[e] = Start
                        THEN \A d \in Callers : ~Before(d, e)'
                        ELSE /\ Before(prev[e], e)'
                             /\ \A d \in Callers : Before(d, e)' => d = prev'[e] \/ Before(d, prev[e])'
    BY DEF Linked
  <2>1. e # c /\ prev'[e] = prev[e] /\ runner'[e] = runner[e]
    BY <1>1 DEF StepOf
  <2>2. PICK p \in Callers \cup {Start} : p = prev[e]
    BY <1>1 DEF TypeOK
  <2> QED
    BY <1>4, <1>5, <2>1, <2>2 DEF IndInv, Linked
<1>7. FuturesEnd'
  <2>1. \A d \in Callers \ {c} : runner'[d] = runner[d]
    BY <1>1 DEF StepOf
  <2> QED
    BY <1>1, <1>5, <2>1 DEF IndInv, FuturesEnd
<1>8. NobodyCancelled => \A d \in Callers : Before(d, c) => runner[d] = "ended"
  <2> SUFFICES ASSUME NobodyCancelled, NEW d \in Callers, Before(d, c) PROVE runner[d] = "ended"
    OBVIOUS
  <2>1. prev[c] # Start /\ Before(prev[c], c) /\ (d = prev[c] \/ Before(d, prev[c]))
    BY DEF IndInv, Linked
  <2>2. prev[c] \in Callers /\ runner[prev[c]] = "ended"
    BY <1>1, <2>1 DEF IndInv, FuturesEnd, TypeOK, Resolved
  <2> QED
    BY <2>1, <2>2 DEF IndInv, SentInTurn
<1>9. SentInTurn'
  <2> SUFFICES ASSUME NEW e \in Callers
               PROVE  /\ NobodyCancelled' /\ runner'[e] \in {"editing", "ended"} =>
                           \A d \in Callers : Before(d, e)' => runner'[d] = "ended"
                      /\ runner'[e] = "editing" => content'[e] \in turn'[e]..version'
    BY DEF SentInTurn
  <2>1. \A d \in Callers : runner[d] = "ended" => runner'[d] = "ended"
    BY <1>1 DEF StepOf
  <2>2. turn[c] \in 0..version /\ version \in Nat
    BY <1>1 DEF IndInv, TurnsDiffer, TypeOK
  <2>3. CASE e = c
    BY <1>1, <1>4, <1>5, <1>8, <2>1, <2>2, <2>3 DEF StepOf
  <2>4. CASE e # c
    BY <1>1, <1>4, <1>5, <2>1, <2>4 DEF StepOf, IndInv, SentInTurn
  <2> QED
    BY <2>3, <2>4
<1>10. SettledShowsAll'
  BY <1>1, <1>5 DEF IndInv, SettledShowsAll
<1> QED
  BY <1>2, <1>4, <1>6, <1>7, <1>9, <1>10 DEF IndInv

(* A runner that waits, or whose wait is interrupted, sends nothing. *)
LEMMA WaitInv ==
  ASSUME IndInv, NEW c \in Callers, runner[c] \in {"created", "waiting"}, runner'[c] = "waiting",
         StepOf(c), TypeOK', done' = done, shown' = shown, content' = content,
         NobodyCancelled' => NobodyCancelled /\ prev' = prev,
         caller'[c] # "idle"
  PROVE  IndInv'
<1>1. TypeOK /\ caller[c] # "idle"
  BY DEF IndInv, TurnsDiffer, Queued
<1>2. /\ OneInProgress' /\ RoomForPost' /\ TurnsDiffer' /\ ChainIsLast'
      /\ \A d, e \in Callers : Before(d, e)' <=> Before(d, e)
  BY <1>1, StepInv
<1>3. Linked'
  <2> SUFFICES ASSUME NobodyCancelled', NEW e \in Callers, runner'[e] \in {"created", "waiting"}
               PROVE  IF prev'[e] = Start
                        THEN \A d \in Callers : ~Before(d, e)'
                        ELSE /\ Before(prev[e], e)'
                             /\ \A d \in Callers : Before(d, e)' => d = prev'[e] \/ Before(d, prev[e])'
    BY DEF Linked
  <2>1. prev'[e] = prev[e] /\ runner[e] \in {"created", "waiting"} /\ NobodyCancelled
    BY DEF StepOf
  <2>2. PICK p \in Callers \cup {Start} : p = prev[e]
    BY <1>1 DEF TypeOK
  <2> QED
    BY <1>2, <2>1, <2>2 DEF IndInv, Linked
<1>4. \A d \in Callers : (runner[d] = "ended" <=> runner'[d] = "ended")
                         /\ (runner[d] = "editing" <=> runner'[d] = "editing")
  BY DEF StepOf
<1>5. FuturesEnd' /\ SentInTurn'
  BY <1>2, <1>4 DEF IndInv, FuturesEnd, SentInTurn, StepOf
<1>6. SettledShowsAll'
  BY DEF IndInv, SettledShowsAll, StepOf
<1> QED
  BY <1>2, <1>3, <1>5, <1>6 DEF IndInv

(* An edit that ends leaves its message showing it, for all the edits before  *)
(* it have ended.                                                             *)
LEMMA EndInv ==
  ASSUME IndInv, NEW c \in Callers, runner[c] = "editing", runner'[c] = "ended", StepOf(c), TypeOK',
         done'[c] # "pending", caller'[c] # "idle", NobodyCancelled' => NobodyCancelled,
         done'[c] = "ok" => Lands(c), UNCHANGED shown \/ Lands(c)
  PROVE  IndInv'
<1>1. TypeOK /\ caller[c] # "idle"
  BY DEF IndInv, TurnsDiffer, Queued
<1>2. /\ OneInProgress' /\ RoomForPost' /\ TurnsDiffer' /\ ChainIsLast'
      /\ \A d, e \in Callers : Before(d, e)' <=> Before(d, e)
  BY <1>1, StepInv
<1>3. Linked'
  <2> SUFFICES ASSUME NobodyCancelled', NEW e \in Callers, runner'[e] \in {"created", "waiting"}
               PROVE  IF prev'[e] = Start
                        THEN \A d \in Callers : ~Before(d, e)'
                        ELSE /\ Before(prev[e], e)'
                             /\ \A d \in Callers : Before(d, e)' => d = prev'[e] \/ Before(d, prev[e])'
    BY DEF Linked
  <2>1. prev'[e] = prev[e] /\ runner[e] \in {"created", "waiting"} /\ NobodyCancelled
    BY DEF StepOf
  <2>2. PICK p \in Callers \cup {Start} : p = prev[e]
    BY <1>1 DEF TypeOK
  <2> QED
    BY <1>2, <2>1, <2>2 DEF IndInv, Linked
<1>4. FuturesEnd'
  BY DEF IndInv, FuturesEnd, StepOf
<1>5. SentInTurn'
  BY <1>2 DEF IndInv, SentInTurn, StepOf
<1>6. SettledShowsAll'
  <2> SUFFICES ASSUME NobodyCancelled', chain # Start, done'[chain] = "ok"
               PROVE  shown'[posts] = version
    BY DEF SettledShowsAll, StepOf
  <2>1. /\ chain \in Callers /\ bound[chain] = posts /\ turn[chain] = version /\ turn[chain] > 0
        /\ version \in Nat /\ posts \in 0..MaxPosts /\ shown \in [1..MaxPosts -> Nat]
        /\ bound[chain] \in 1..MaxPosts
    BY <1>1 DEF IndInv, ChainIsLast, Queued, TypeOK
  <2>2. NobodyCancelled /\ bound[c] \in 1..MaxPosts /\ turn[c] \in Nat /\ content[c] \in turn[c]..version
    BY <1>1 DEF IndInv, TypeOK, SentInTurn
  <2>3. CASE chain = c
    <3>1. PICK v \in (IF Native THEN content[c]..version ELSE {content[c]}) :
            shown' = [shown EXCEPT ![bound[c]] = v]
      BY <2>3 DEF Lands
    <3>2. v = version
      BY <2>1, <2>2, <2>3, <3>1
    <3> QED
      BY <2>1, <2>3, <3>1, <3>2
  <2>4. CASE chain # c
    <3>1. done[chain] = "ok"
      BY <2>1, <2>4 DEF StepOf
    <3>2. runner[chain] = "ended" /\ shown[posts] = version
      BY <2>1, <2>2, <3>1 DEF IndInv, FuturesEnd, SettledShowsAll
    <3>3. ~Before(c, chain)
      BY <2>1, <2>2, <3>2 DEF IndInv, SentInTurn
    <3>4. bound[c] # posts
      <4>1. Queued(c) /\ turn[c] <= version
        BY DEF IndInv, TurnsDiffer
      <4>2. turn[c] # turn[chain]
        BY <2>1, <2>4, <4>1 DEF IndInv, TurnsDiffer
      <4> QED
        BY <2>1, <2>2, <3>3, <4>1, <4>2 DEF Before, Queued
    <3> QED
      BY <2>1, <2>2, <3>2, <3>4 DEF Lands
  <2> QED
    BY <2>3, <2>4
<1> QED
  BY <1>2, <1>3, <1>4, <1>5, <1>6 DEF IndInv

(* Steps that concern a caller only. *)
LEMMA CallerInv ==
  ASSUME IndInv, NEW c \in Callers, TypeOK', caller'[c] # "idle", NobodyCancelled' => NobodyCancelled,
         UNCHANGED <<tasks, version, posting, posts, chain, shown, runner, done, prev, bound, content, turn>>,
         \A d \in Callers \ {c} : caller'[d] = caller[d]
  PROVE  IndInv'
<1>1. OneInProgress' /\ RoomForPost' /\ TurnsDiffer' /\ ChainIsLast'
  BY DEF IndInv, OneInProgress, RoomForPost, TurnsDiffer, ChainIsLast, Queued
<1>2. \A d, e \in Callers : Before(d, e)' <=> Before(d, e)
  BY DEF Before
<1>3. Linked' /\ FuturesEnd' /\ SentInTurn' /\ SettledShowsAll'
  BY DEF IndInv, Linked, FuturesEnd, SentInTurn, SettledShowsAll, Before
<1> QED
  BY <1>1, <1>3 DEF IndInv

-----------------------------------------------------------------------------
(***************************************************************************)
(* The invariant                                                           *)
(***************************************************************************)

LEMMA CallInv ==
  ASSUME IndInv, NEW c \in Callers, Call(c)
  PROVE  IndInv'
<1>1. tasks \in Seq(Statuses) /\ tasks # <<>> /\ OneIn(tasks)
  BY DEF IndInv, TypeOK, OneInProgress, OneIn
<1>2. CASE AddTask(c)
  BY <1>1, <1>2, MutatedLists, MutateInv DEF AddTask
<1>3. CASE UpdateTask(c)
  <2>1. PICK status \in Updates \cup {tasks[Current]} : Mutate(c, [tasks EXCEPT ![Current] = status])
    BY <1>3 DEF UpdateTask
  <2>2. status \in Statuses
    BY <1>1, MutatedLists
  <2> QED
    BY <1>1, <2>1, <2>2, MutatedLists, MutateInv
<1>4. CASE Reset(c)
  BY <1>1, <1>4, MutatedLists, MutateInv DEF Reset
<1>5. CASE Complete(c)
  BY <1>1, <1>5, MutatedLists, MutateInv DEF Complete
<1>6. CASE TooEarly(c)
  <2>1. TypeOK' /\ caller'[c] # "idle" /\ \A d \in Callers \ {c} : caller'[d] = caller[d]
    BY <1>6 DEF TooEarly, IndInv, TypeOK, CallerStates
  <2>2. NobodyCancelled' => NobodyCancelled
    BY <1>6 DEF TooEarly, NobodyCancelled, IndInv, TypeOK
  <2> QED
    BY <1>6, <2>1, <2>2, CallerInv DEF TooEarly
<1> QED
  BY <1>2, <1>3, <1>4, <1>5, <1>6 DEF Call

LEMMA RunInv ==
  ASSUME IndInv, NEW c \in Callers, Run(c)
  PROVE  IndInv'
<1>1. TypeOK
  BY DEF IndInv
<1>2. CASE RunnerStarts(c)
  <2>1. CASE Resolved(prev[c])
    BY <1>2, <2>1, FireInv DEF RunnerStarts
  <2>2. CASE ~Resolved(prev[c])
    <3>1. runner' = [runner EXCEPT ![c] = "waiting"] /\ UNCHANGED <<prev, content>>
      BY <1>2, <2>2 DEF RunnerStarts
    <3>2. TypeOK' /\ StepOf(c) /\ runner'[c] = "waiting"
      BY <1>1, <1>2, <3>1 DEF RunnerStarts, TypeOK, StepOf
    <3>3. caller[c] # "idle"
      BY <1>2 DEF RunnerStarts, IndInv, TurnsDiffer
    <3>4. NobodyCancelled' => NobodyCancelled
      BY <1>2 DEF RunnerStarts, NobodyCancelled
    <3> QED
      BY <1>2, <3>1, <3>2, <3>3, <3>4, WaitInv DEF RunnerStarts
  <2> QED
    BY <2>1, <2>2
<1>3. CASE PredecessorDone(c)
  BY <1>3, FireInv DEF PredecessorDone
<1>4. ASSUME NEW outcome \in {"ok", "error"}, runner[c] = "editing", EndRunner(c, outcome),
             outcome = "ok" => Lands(c), UNCHANGED shown \/ Lands(c)
      PROVE  IndInv'
  <2>1. shown' \in [1..MaxPosts -> Nat]
    <3>1. CASE UNCHANGED shown
      BY <1>1, <3>1 DEF TypeOK
    <3>2. CASE Lands(c)
      <4>1. PICK v \in (IF Native THEN content[c]..version ELSE {content[c]}) :
              shown' = [shown EXCEPT ![bound[c]] = v]
        BY <3>2 DEF Lands
      <4>2. content[c] \in Nat /\ version \in Nat
        BY <1>1 DEF TypeOK
      <4>3. v \in Nat
        BY <4>2
      <4> QED
        BY <1>1, <4>1, <4>3 DEF TypeOK
    <3> QED
      BY <1>4, <3>1, <3>2
  <2>2. TypeOK'
    BY <1>1, <1>4, <2>1 DEF EndRunner, TypeOK
  <2>3. StepOf(c) /\ runner'[c] = "ended" /\ done'[c] = outcome /\ caller' = caller
    BY <1>1, <1>4 DEF EndRunner, TypeOK, StepOf
  <2>4. caller[c] # "idle"
    BY <1>4 DEF IndInv, TurnsDiffer
  <2>5. NobodyCancelled' => NobodyCancelled
    BY <2>3 DEF NobodyCancelled
  <2> QED
    BY <1>4, <2>2, <2>3, <2>4, <2>5, EndInv
<1>5. CASE EditSucceeds(c)
  BY <1>4, <1>5 DEF EditSucceeds
<1>6. CASE EditFails(c)
  BY <1>4, <1>6 DEF EditFails
<1>7. CASE CallerResumes(c)
  <2>1. TypeOK' /\ caller'[c] \in {"raised", "returned"} /\ \A d \in Callers \ {c} : caller'[d] = caller[d]
    BY <1>1, <1>7 DEF CallerResumes, TypeOK, CallerStates
  <2>2. NobodyCancelled' => NobodyCancelled
    BY <1>7, <2>1 DEF CallerResumes, NobodyCancelled
  <2> QED
    BY <1>7, <2>1, <2>2, CallerInv DEF CallerResumes
<1>8. CASE CancelledCallerResumes(c)
  <2>1. TypeOK' /\ caller'[c] = "cancelled" /\ \A d \in Callers \ {c} : caller'[d] = caller[d]
    BY <1>1, <1>8 DEF CancelledCallerResumes, TypeOK, CallerStates
  <2>2. ~NobodyCancelled'
    BY <2>1 DEF NobodyCancelled
  <2> QED
    BY <1>8, <2>1, <2>2, CallerInv DEF CancelledCallerResumes
<1> QED
  BY <1>2, <1>3, <1>5, <1>6, <1>7, <1>8 DEF Run

LEMMA CancelInv ==
  ASSUME IndInv, NEW c \in Callers, Cancel(c)
  PROVE  IndInv'
<1>1. TypeOK
  BY DEF IndInv
<1>2. CASE CancelCreated(c)
  <2>1. TypeOK' /\ StepOf(c) /\ runner'[c] = "ended" /\ caller'[c] = "cancelled"
    BY <1>1, <1>2 DEF CancelCreated, TypeOK, CallerStates, StepOf
  <2>2. ~NobodyCancelled'
    BY <2>1 DEF NobodyCancelled
  <2>3. OneInProgress' /\ RoomForPost' /\ TurnsDiffer' /\ ChainIsLast'
    BY <1>2, <2>1, StepInv DEF CancelCreated
  <2>4. Linked' /\ SettledShowsAll'
    BY <2>2 DEF Linked, SettledShowsAll
  <2>5. FuturesEnd' /\ SentInTurn'
    BY <1>2, <2>1, <2>2 DEF CancelCreated, IndInv, FuturesEnd, SentInTurn, StepOf
  <2> QED
    BY <2>1, <2>3, <2>4, <2>5 DEF IndInv
<1>3. CASE CancelWaiting(c)
  <2>1. TypeOK' /\ StepOf(c) /\ caller'[c] = "awaiting_cancelled"
    BY <1>1, <1>3 DEF CancelWaiting, TypeOK, CallerStates, StepOf
  <2>2. ~NobodyCancelled'
    BY <2>1 DEF NobodyCancelled
  <2> QED
    BY <1>3, <2>1, <2>2, WaitInv DEF CancelWaiting
<1>4. CASE CancelEditing(c)
  <2>1. shown' \in [1..MaxPosts -> Nat]
    <3>1. CASE UNCHANGED shown
      BY <1>1, <3>1 DEF TypeOK
    <3>2. CASE Lands(c)
      <4>1. PICK v \in (IF Native THEN content[c]..version ELSE {content[c]}) :
              shown' = [shown EXCEPT ![bound[c]] = v]
        BY <3>2 DEF Lands
      <4>2. content[c] \in Nat /\ version \in Nat
        BY <1>1 DEF TypeOK
      <4>3. v \in Nat
        BY <4>2
      <4> QED
        BY <1>1, <4>1, <4>3 DEF TypeOK
    <3> QED
      BY <1>4, <3>1, <3>2 DEF CancelEditing
  <2>2. TypeOK'
    BY <1>1, <1>4, <2>1 DEF CancelEditing, TypeOK, CallerStates
  <2>3. StepOf(c) /\ runner'[c] = "ended" /\ done'[c] = "error" /\ caller'[c] = "cancelled"
    BY <1>1, <1>4 DEF CancelEditing, TypeOK, StepOf
  <2>4. ~NobodyCancelled'
    BY <2>3 DEF NobodyCancelled
  <2> QED
    BY <1>4, <2>2, <2>3, <2>4, EndInv DEF CancelEditing
<1> QED
  BY <1>2, <1>3, <1>4 DEF Cancel

LEMMA NextInv ==
  IndInv /\ [Next]_vars => IndInv'
<1> SUFFICES ASSUME IndInv, [Next]_vars PROVE IndInv'
  OBVIOUS
<1>1. CASE UNCHANGED vars
  BY <1>1 DEF vars, queue, IndInv, TypeOK, OneInProgress, RoomForPost, TurnsDiffer, ChainIsLast, Linked,
     FuturesEnd, SentInTurn, SettledShowsAll, Queued, Before, NobodyCancelled
<1>2. CASE Post \/ OnPosted \/ PostFails
  BY <1>2, PostingInv
<1>3. ASSUME NEW c \in Callers, Call(c) \/ Run(c) \/ Cancel(c)
      PROVE  IndInv'
  BY <1>3, CallInv, RunInv, CancelInv
<1> QED
  BY <1>1, <1>2, <1>3 DEF Next

(* The invariant behind the theorems below, for any number of callers and     *)
(* posts.                                                                     *)
THEOREM InvariantHolds == Spec => []IndInv
<1> QED
  BY InitInv, NextInv, PTL DEF Spec

(* Every variable keeps its type. *)
THEOREM TypesKept == Spec => []TypeOK
<1>1. IndInv => TypeOK
  BY DEF IndInv
<1> QED
  BY <1>1, InvariantHolds, PTL

(* A plan never has two tasks in progress (plan.py 203-279).                  *)
THEOREM SingleTaskInProgress == Spec => []OneInProgress
<1>1. IndInv => OneInProgress
  BY DEF IndInv
<1> QED
  BY <1>1, InvariantHolds, PTL

(* When the last edit queued has succeeded the message shows every mutation   *)
(* (plan.py 288-343).                                                         *)
THEOREM SettledPlanIsShown == Spec => []SettledShowsAll
<1>1. IndInv => SettledShowsAll
  BY DEF IndInv
<1> QED
  BY <1>1, InvariantHolds, PTL

-----------------------------------------------------------------------------
(***************************************************************************)
(* The order of the edits                                                  *)
(***************************************************************************)

(* After a step the edit that it sent has nothing unfinished before it. *)
LEMMA SendsInTurn ==
  ASSUME IndInv, IndInv', [Next]_vars, NobodyCancelled', NEW c \in Callers, NEW d \in Callers,
         Sends(c), Before(d, c)
  PROVE  runner[d] = "ended"
<1>1. CASE RunnerStarts(c) \/ PredecessorDone(c)
  <2>1. Fire(c) /\ UNCHANGED <<turn, bound>> /\ runner' = [runner EXCEPT ![c] = "editing"]
    BY <1>1 DEF RunnerStarts, PredecessorDone, Fire, Sends, IndInv, TypeOK
  <2>2. Before(d, c)' /\ runner'[c] = "editing" /\ d # c
    BY <2>1 DEF Before, Sends, IndInv, TypeOK
  <2>3. runner'[d] = "ended"
    BY <2>2 DEF IndInv, SentInTurn
  <2> QED
    BY <2>1, <2>2, <2>3 DEF IndInv, TypeOK
<1>2. CASE ~(RunnerStarts(c) \/ PredecessorDone(c))
  <2>1. runner \in [Callers -> {"none", "created", "waiting", "editing", "ended"}]
    BY DEF IndInv, TypeOK
  <2>2. CASE UNCHANGED runner
    BY <2>2 DEF Sends
  <2>3. ASSUME NEW e \in Callers, Call(e)
        PROVE  FALSE
    BY <2>1, <2>3 DEF Sends, Call, AddTask, UpdateTask, Reset, Complete, TooEarly, Mutate, EnqueueEdit
  <2>4. ASSUME NEW e \in Callers, Run(e) \/ Cancel(e), ~UNCHANGED runner
        PROVE  FALSE
    <3>1. e = c \/ runner'[c] = runner[c]
      BY <2>1, <2>4 DEF Run, Cancel, RunnerStarts, PredecessorDone, Fire, EditSucceeds, EditFails,
         EndRunner, CallerResumes, CancelledCallerResumes, CancelCreated, CancelWaiting, CancelEditing
    <3>2. e = c
      BY <3>1 DEF Sends
    <3> QED
      BY <1>2, <2>1, <2>4, <3>2 DEF Sends, Run, Cancel, EditSucceeds, EditFails, EndRunner, CallerResumes,
         CancelledCallerResumes, CancelCreated, CancelWaiting, CancelEditing
  <2> QED
    BY <2>2, <2>3, <2>4 DEF Next, vars, queue, Post, OnPosted, PostFails
<1> QED
  BY <1>1, <1>2

(* While no caller is cancelled the edits of a message are sent one at a      *)
(* time, in the order of the mutations: what the docstring of _enqueue_edit   *)
(* promises (plan.py 288-331).                                                *)
THEOREM EditsAreOrdered == Spec => OneEditAtATime
<1> DEFINE Ordered ==
      NobodyCancelled' => \A c, d \in Callers : Sends(c) /\ Before(d, c) => runner[d] = "ended"
<1>1. IndInv /\ IndInv' /\ [Next]_vars => [Ordered]_vars
  BY SendsInTurn
<1>2. Spec => [][Ordered]_vars
  BY <1>1, InvariantHolds, PTL DEF Spec
<1> QED
  BY <1>2 DEF OneEditAtATime
=============================================================================
