----------------------------- MODULE PlanEdits ------------------------------
(***************************************************************************)
(* A Plan (packages/chat/src/chat/plan.py): a task list posted as one      *)
(* message, whose mutations edit that message in the background.           *)
(*                                                                         *)
(* Every mutation changes the model at once and queues one edit: a runner  *)
(* task that waits for the future of the edit before it, renders the model *)
(* as it is then, calls the adapter and completes its own future.  The     *)
(* caller of the mutation awaits the runner.  Callers run in several tasks *)
(* of one event loop, and any of them may be cancelled, which asyncio      *)
(* passes on to the runner it awaits.                                      *)
(*                                                                         *)
(* What a message shows is the number of mutations it reflects.            *)
(***************************************************************************)
EXTENDS Naturals, Sequences, FiniteSets

CONSTANTS
  Callers,    \* the calls of add_task, update_task, reset and complete
  MaxPosts,   \* how often the plan may be posted (a bound)
  Updates,    \* the statuses that update_task is called with
  Native      \* is_supported: the adapter has post_object and edit_object

Statuses == {"pending", "in_progress", "complete", "error"}

ASSUME PlanAssumption ==
  MaxPosts \in Nat \ {0} /\ Updates \subseteq Statuses /\ Native \in BOOLEAN

Start    == "start"     \* the resolved future that on_posted puts at the head of a chain

ASSUME StartAssumption == Start \notin Callers

VARIABLES
  tasks,      \* _model.tasks: their statuses
  version,    \* the mutations applied so far
  posting,    \* the version rendered by the post under way, or Idle
  posts,      \* messages posted; the last one is _bound, none means _bound is None
  chain,      \* _bound.update_chain: the caller whose future it is
  shown,      \* per message: the version the platform shows
  caller,     \* per caller: "idle", "awaiting", or how the call ended
  runner,     \* per caller: where its runner is
  done,       \* per caller: its future
  prev,       \* per caller: the future its runner waits for
  bound,      \* per caller: the message its runner edits
  content,    \* per caller: the version its edit carries
  turn        \* auxiliary, per caller: which mutation it made, the first being 1

queue == <<caller, runner, done, prev, bound, content, turn>>
vars  == <<tasks, version, posting, posts, chain, shown, queue>>

Idle == [busy |-> FALSE, version |-> 0]

Init ==
  /\ tasks = <<"in_progress">>
  /\ version = 0
  /\ posting = Idle
  /\ posts = 0
  /\ chain = Start
  /\ shown = [m \in 1..MaxPosts |-> 0]
  /\ caller = [c \in Callers |-> "idle"]
  /\ runner = [c \in Callers |-> "none"]
  /\ done = [c \in Callers |-> "pending"]
  /\ prev = [c \in Callers |-> Start]
  /\ bound = [c \in Callers |-> 1]
  /\ content = [c \in Callers |-> 0]
  /\ turn = [c \in Callers |-> 0]

-----------------------------------------------------------------------------
(***************************************************************************)
(* Posting                                                                 *)
(***************************************************************************)

(* post_postable_object renders the plan and awaits the adapter; a plan may  *)
(* be posted again.                                                          *)
Post ==
  /\ ~posting.busy
  /\ posts < MaxPosts
  /\ posting' = [busy |-> TRUE, version |-> version]
  /\ UNCHANGED <<tasks, version, posts, chain, shown, queue>>

(* on_posted: the new message, with a chain of its own. *)
OnPosted ==
  /\ posting.busy
  /\ posts' = posts + 1
  /\ shown' = [shown EXCEPT ![posts + 1] = posting.version]
  /\ chain' = Start
  /\ posting' = Idle
  /\ UNCHANGED <<tasks, version, queue>>

PostFails ==
  /\ posting.busy
  /\ posting' = Idle
  /\ UNCHANGED <<tasks, version, posts, chain, shown, queue>>

-----------------------------------------------------------------------------
(***************************************************************************)
(* Mutations                                                               *)
(***************************************************************************)

CanMutate == posts > 0

Finished(status) == IF status = "in_progress" THEN "complete" ELSE status

AllFinished == [i \in DOMAIN tasks |-> Finished(tasks[i])]

(* The last task in progress, or else the last one. *)
Current ==
  LET inProgress == {i \in DOMAIN tasks : tasks[i] = "in_progress"}
      candidates == IF inProgress = {} THEN DOMAIN tasks ELSE inProgress
  IN  CHOOSE i \in candidates : \A j \in candidates : j <= i

(* _enqueue_edit up to its await: the new future is the end of the chain. *)
EnqueueEdit(c) ==
  /\ prev' = [prev EXCEPT ![c] = chain]
  /\ chain' = c
  /\ bound' = [bound EXCEPT ![c] = posts]
  /\ runner' = [runner EXCEPT ![c] = "created"]
  /\ caller' = [caller EXCEPT ![c] = "awaiting"]
  /\ turn' = [turn EXCEPT ![c] = version + 1]
  /\ UNCHANGED <<done, content, posting, posts, shown>>

Mutate(c, newTasks) ==
  /\ caller[c] = "idle"
  /\ CanMutate
  /\ tasks' = newTasks
  /\ version' = version + 1
  /\ EnqueueEdit(c)

(* Mutant: the task before stays in progress. *)
AddTaskOnly(c) == Mutate(c, Append(tasks, "in_progress"))

AddTask(c) == Mutate(c, Append(AllFinished, "in_progress"))

(* An output, which leaves the status, or a status. *)
UpdateTask(c) ==
  \E status \in Updates \cup {tasks[Current]} :
    Mutate(c, [tasks EXCEPT ![Current] = status])

(* Mutant: a reset plan has no task. *)
ResetEmpty(c) == Mutate(c, <<>>)

Reset(c) == Mutate(c, <<"in_progress">>)

Complete(c) == Mutate(c, AllFinished)

(* Before the plan is posted a mutation does nothing and returns None. *)
TooEarly(c) ==
  /\ caller[c] = "idle"
  /\ ~CanMutate
  /\ caller' = [caller EXCEPT ![c] = "returned"]
  /\ UNCHANGED <<tasks, version, posting, posts, chain, shown, runner, done, prev, bound,
                 content, turn>>

-----------------------------------------------------------------------------
(***************************************************************************)
(* The runner of an edit                                                   *)
(***************************************************************************)

Resolved(f) == IF f = Start THEN TRUE ELSE done[f] # "pending"

(* The edit is rendered as the adapter is called: get_fallback_text, or the  *)
(* model object itself.                                                      *)
Fire(c) ==
  /\ runner' = [runner EXCEPT ![c] = "editing"]
  /\ prev' = [prev EXCEPT ![c] = Start]
  /\ content' = [content EXCEPT ![c] = version]

(* The runner's first step; it goes straight on when its predecessor is done. *)
(* The event loop starts tasks in the order they were created.                *)
RunnerStarts(c) ==
  /\ runner[c] = "created"
  /\ \A d \in Callers : runner[d] = "created" => turn[c] <= turn[d]
  /\ IF Resolved(prev[c])
       THEN Fire(c)
       ELSE /\ runner' = [runner EXCEPT ![c] = "waiting"]
            /\ UNCHANGED <<prev, content>>
  /\ UNCHANGED <<tasks, version, posting, posts, chain, shown, caller, done, bound, turn>>

(* Mutant: the edit is not held back. *)
NoWait(c) ==
  /\ runner[c] = "waiting"
  /\ Fire(c)
  /\ UNCHANGED <<tasks, version, posting, posts, chain, shown, caller, done, bound, turn>>

PredecessorDone(c) ==
  /\ runner[c] = "waiting"
  /\ Resolved(prev[c])
  /\ Fire(c)
  /\ UNCHANGED <<tasks, version, posting, posts, chain, shown, caller, done, bound, turn>>

EndRunner(c, outcome) ==
  /\ runner' = [runner EXCEPT ![c] = "ended"]
  /\ done' = [done EXCEPT ![c] = outcome]
  /\ content' = [content EXCEPT ![c] = 0]
  /\ UNCHANGED <<tasks, version, posting, posts, chain, caller, prev, bound, turn>>

(* A native edit hands over the model object: the adapter may see what it is *)
(* when the request is built, never less than when it was called.            *)
Lands(c) ==
  \E v \in (IF Native THEN content[c]..version ELSE {content[c]}) :
    shown' = [shown EXCEPT ![bound[c]] = v]

EditSucceeds(c) ==
  /\ runner[c] = "editing"
  /\ Lands(c)
  /\ EndRunner(c, "ok")

(* Mutant: only a successful edit completes its future. *)
EditFailsQuietly(c) ==
  /\ runner[c] = "editing"
  /\ UNCHANGED shown
  /\ runner' = [runner EXCEPT ![c] = "ended"]
  /\ UNCHANGED <<tasks, version, posting, posts, chain, done, caller, prev, bound, content, turn>>

(* The adapter raises; the platform may have made the edit all the same. *)
EditFails(c) ==
  /\ runner[c] = "editing"
  /\ UNCHANGED shown \/ Lands(c)
  /\ EndRunner(c, "error")

(* The caller's await of the runner returns, and raises what the edit raised. *)
CallerResumes(c) ==
  /\ caller[c] = "awaiting"
  /\ runner[c] = "ended"
  /\ caller' = [caller EXCEPT ![c] = IF done[c] = "error" THEN "raised" ELSE "returned"]
  /\ UNCHANGED <<tasks, version, posting, posts, chain, shown, runner, done, prev, bound, content, turn>>

-----------------------------------------------------------------------------
(***************************************************************************)
(* Cancelling a caller cancels the runner it awaits.  What that does       *)
(* depends on where the runner is.                                         *)
(***************************************************************************)

(* It has not had its first step: it never runs, and its future is left      *)
(* pending.                                                                  *)
CancelCreated(c) ==
  /\ caller[c] = "awaiting"
  /\ runner[c] = "created"
  /\ runner' = [runner EXCEPT ![c] = "ended"]
  /\ caller' = [caller EXCEPT ![c] = "cancelled"]
  /\ UNCHANGED <<tasks, version, posting, posts, chain, shown, done, prev, bound, content, turn>>

(* It waits for its predecessor: suppress(BaseException) takes the           *)
(* CancelledError, and the runner goes on as if its predecessor were done.    *)
CancelWaiting(c) ==
  /\ caller[c] = "awaiting"
  /\ runner[c] = "waiting"
  /\ prev' = [prev EXCEPT ![c] = Start]
  /\ caller' = [caller EXCEPT ![c] = "awaiting_cancelled"]
  /\ UNCHANGED <<tasks, version, posting, posts, chain, shown, runner, done, bound, content, turn>>

(* It is in the adapter's call: the edit is given up, wherever it had got to. *)
CancelEditing(c) ==
  /\ caller[c] = "awaiting"
  /\ runner[c] = "editing"
  /\ UNCHANGED shown \/ Lands(c)
  /\ runner' = [runner EXCEPT ![c] = "ended"]
  /\ done' = [done EXCEPT ![c] = "error"]
  /\ caller' = [caller EXCEPT ![c] = "cancelled"]
  /\ UNCHANGED <<tasks, version, posting, posts, chain, prev, bound, content, turn>>

(* The caller whose runner took the cancellation goes on as if nothing were;  *)
(* "cancelled" only records that somebody tried.                              *)
CancelledCallerResumes(c) ==
  /\ caller[c] = "awaiting_cancelled"
  /\ runner[c] = "ended"
  /\ caller' = [caller EXCEPT ![c] = "cancelled"]
  /\ UNCHANGED <<tasks, version, posting, posts, chain, shown, runner, done, prev, bound, content, turn>>

-----------------------------------------------------------------------------

Call(c) == AddTask(c) \/ UpdateTask(c) \/ Reset(c) \/ Complete(c) \/ TooEarly(c)

Run(c) ==
  \/ RunnerStarts(c)
  \/ PredecessorDone(c)
  \/ EditSucceeds(c)
  \/ EditFails(c)
  \/ CallerResumes(c)
  \/ CancelledCallerResumes(c)

Cancel(c) == CancelCreated(c) \/ CancelWaiting(c) \/ CancelEditing(c)

Next ==
  \/ Post \/ OnPosted \/ PostFails
  \/ \E c \in Callers : Call(c) \/ Run(c) \/ Cancel(c)

Spec == Init /\ [][Next]_vars

(* The event loop runs every ready task, and the adapter's calls end. *)
FairSpec == Spec /\ WF_vars(OnPosted \/ PostFails) /\ \A c \in Callers : WF_vars(Run(c))

-----------------------------------------------------------------------------
(***************************************************************************)
(* Properties                                                              *)
(***************************************************************************)

CallerStates == {"idle", "awaiting", "awaiting_cancelled", "returned", "raised", "cancelled"}

(* Every variable has its type. *)
TypeOK ==
  /\ tasks \in Seq(Statuses) /\ tasks # <<>>
  /\ version \in Nat
  /\ posting \in [busy : BOOLEAN, version : Nat]
  /\ posts \in 0..MaxPosts
  /\ chain \in Callers \cup {Start}
  /\ shown \in [1..MaxPosts -> Nat]
  /\ caller \in [Callers -> CallerStates]
  /\ runner \in [Callers -> {"none", "created", "waiting", "editing", "ended"}]
  /\ done \in [Callers -> {"pending", "ok", "error"}]
  /\ prev \in [Callers -> Callers \cup {Start}]
  /\ bound \in [Callers -> 1..MaxPosts]
  /\ content \in [Callers -> Nat]
  /\ turn \in [Callers -> Nat]

(* A plan never has two tasks in progress, whatever mixture of add_task,      *)
(* update_task with any status, reset and complete is called.                 *)
OneInProgress ==
  \A i, j \in DOMAIN tasks :
    tasks[i] = "in_progress" /\ tasks[j] = "in_progress" => i = j

NobodyCancelled == \A c \in Callers : caller[c] \notin {"cancelled", "awaiting_cancelled"}

Sends(c) == runner[c] # "editing" /\ runner'[c] = "editing"

Before(d, c) == turn[d] > 0 /\ turn[d] < turn[c] /\ bound[d] = bound[c]

(* The docstring of _enqueue_edit: the adapter is called for the edits of a   *)
(* message strictly in the order the mutations were made.                     *)
EditsInOrder ==
  [][\A c, d \in Callers : Sends(c) /\ Before(d, c) => runner[d] \notin {"created", "waiting"}]_vars

(* As long as no caller is cancelled it holds, and more: no edit is sent      *)
(* before the edits of the mutations before it have ended.                    *)
OneEditAtATime ==
  [][NobodyCancelled' =>
       \A c, d \in Callers : Sends(c) /\ Before(d, c) => runner[d] = "ended"]_vars

(* Once the last queued edit of the current message has succeeded, the        *)
(* message shows every mutation that was made, although each edit renders the *)
(* plan later than the mutation that queued it.                               *)
SettledShowsAll ==
  NobodyCancelled /\ chain # Start /\ done[chain] = "ok" => shown[posts] = version

(* A failed edit does not stop the ones behind it: every caller returns,      *)
(* unless some caller is cancelled.                                           *)
CallersReturn ==
  \A c \in Callers :
    caller[c] = "awaiting" ~> (caller[c] \in {"returned", "raised"} \/ ~NobodyCancelled)

-----------------------------------------------------------------------------
(***************************************************************************)
(* The inductive invariant behind them                                     *)
(***************************************************************************)

Queued(c) == turn[c] > 0

RoomForPost == posting.busy => posts < MaxPosts

(* A caller that made a mutation has a runner and is numbered by it. *)
TurnsDiffer ==
  /\ \A c \in Callers : turn[c] <= version /\ (Queued(c) <=> runner[c] # "none")
  /\ \A c \in Callers : Queued(c) => bound[c] <= posts /\ caller[c] # "idle"
  /\ \A c, d \in Callers : Queued(c) /\ turn[c] = turn[d] => c = d

(* A chain ends with the last mutation made on the current message. *)
ChainIsLast ==
  IF chain = Start
    THEN \A d \in Callers : Queued(d) => bound[d] # posts
    ELSE Queued(chain) /\ bound[chain] = posts /\ turn[chain] = version

(* A runner that has not called the adapter waits for the edit right before it. *)
Linked ==
  \A c \in Callers :
    NobodyCancelled /\ runner[c] \in {"created", "waiting"} =>
      IF prev[c] = Start
        THEN \A d \in Callers : ~Before(d, c)
        ELSE Before(prev[c], c) /\ \A d \in Callers : Before(d, c) => d = prev[c] \/ Before(d, prev[c])

(* A future is completed as its runner ends. *)
FuturesEnd ==
  \A c \in Callers :
    /\ done[c] # "pending" => runner[c] = "ended"
    /\ NobodyCancelled /\ runner[c] = "ended" => done[c] # "pending"

(* An edit that was sent has nothing unfinished before it, and renders its own *)
(* mutation.                                                                   *)
SentInTurn ==
  \A c \in Callers :
    /\ NobodyCancelled /\ runner[c] \in {"editing", "ended"} =>
         \A d \in Callers : Before(d, c) => runner[d] = "ended"
    /\ runner[c] = "editing" => content[c] \in turn[c]..version

IndInv ==
  /\ TypeOK
  /\ OneInProgress
  /\ RoomForPost
  /\ TurnsDiffer
  /\ ChainIsLast
  /\ Linked
  /\ FuturesEnd
  /\ SentInTurn
  /\ SettledShowsAll
=============================================================================
