------------------------------ MODULE Dispatch ------------------------------
(***************************************************************************)
(* The message pipeline of the Chat class (packages/chat/src/chat/chat.py):*)
(* process_message and handle_incoming_message with the duplicate check,   *)
(* the message history, the lock on the thread or channel, the routing to  *)
(* the registered handlers and the release of the lock.                    *)
(*                                                                         *)
(* Several processes, each with one Chat instance, share one state backend.*)
(* A delivery is one call of process_message: one asyncio task that works  *)
(* on one message.  The platform may deliver a message more than once, to  *)
(* the same process or to another.  Every await is a point where other     *)
(* tasks run, so each action below is what one task does between two       *)
(* awaits; a call of the state backend takes effect in one action.         *)
(*                                                                         *)
(* Time is relative.  A key with a time to live carries what is left of it,*)
(* Tick takes one unit from every such key, and a key with nothing left is *)
(* expired: expires_at <= now in the code.                                 *)
(***************************************************************************)
EXTENDS Naturals, FiniteSets

CONSTANTS
  Deliveries,     \* the calls of process_message
  Messages,       \* the platform's messages: what dedupe:{adapter}:{id} tells apart
  Threads,        \* thread ids
  Channels,       \* channel ids; a channel-level thread is its own channel
  Processes,      \* processes that share the state backend
  MessageOf,      \* the message a delivery carries
  ProcessOf,      \* the process a delivery arrives at
  ThreadOf,       \* adapter-parsed thread of a message
  ChannelOf,      \* adapter.channel_id_from_thread_id
  ScopeOf,        \* lock_scope, resolved for a thread
  FromSelf,       \* messages with author.is_me
  Mentions,       \* messages with is_mention, or whose text mentions the bot
  DirectThreads,  \* threads for which adapter.is_dm holds
  StrategyOf,     \* the concurrency strategy of a process's Chat
  Resolutions,    \* what on_lock_conflict may answer
  PersistHistory, \* adapter.persist_message_history
  HandlersOf,     \* number of handlers that run on each route
  LockTTL,        \* DEFAULT_LOCK_TTL_MS, in ticks
  DedupeTTL       \* dedupe_ttl_ms, in ticks

Ids    == Threads \cup Channels
Routes == {"direct", "subscribed", "mention", "pattern"}

ASSUME DeliveryAssumption ==
  /\ MessageOf \in [Deliveries -> Messages]
  /\ ProcessOf \in [Deliveries -> Processes]
  /\ ThreadOf  \in [Messages -> Threads]
  /\ ChannelOf \in [Threads -> Channels]
  /\ ScopeOf   \in [Threads -> {"thread", "channel"}]

ASSUME ConfigAssumption ==
  /\ FromSelf \subseteq Messages
  /\ Mentions \subseteq Messages
  /\ DirectThreads \subseteq Threads
  /\ StrategyOf \in [Processes -> {"drop", "queue", "debounce", "concurrent"}]
  /\ Resolutions \subseteq {"drop", "force"}
  /\ PersistHistory \in BOOLEAN
  /\ HandlersOf \in [Routes -> Nat]

ASSUME TTLAssumption ==
  /\ LockTTL \in Nat \ {0}
  /\ DedupeTTL \in Nat \ {0}

ASSUME NobodyAssumption == "nobody" \notin Deliveries

VARIABLES
  locks,       \* backend: the lock entry of each id, its token and what is left of its TTL
  dedupe,      \* backend: what is left of the dedupe key of each message
  subscribed,  \* backend: the subscribed threads
  history,     \* backend: per id, the deliveries whose message was appended to its list
  pc,          \* where each task is
  appends,     \* per task: history lists it has still to append to
  lease,       \* per task: what is left of the lock it was given (lock.expires_at)
  isSubscribed,\* per task: is_subscribed as _dispatch_to_handlers read it
  todo,        \* per task: handlers of the chosen list still to run
  window,      \* auxiliary: what is left of the TTL since the task passed the duplicate check
  evicted,     \* auxiliary: tasks whose lock another task removed with force_release_lock
  disturbed    \* auxiliary: tasks whose thread's subscription changed since they read it, by
               \* their own hand or by one that held no valid lock on the thread

store  == <<locks, dedupe, subscribed, history>>
local  == <<appends, lease, isSubscribed, todo>>
aux    == <<window, evicted, disturbed>>
vars   == <<store, pc, local, aux>>

Ended   == {"ignored", "duplicate", "handled", "lock_error", "failed"}
Stages  == {"idle", "dedupe", "history", "acquire", "force", "reacquire",
            "subscription", "handlers", "release", "unwind"} \cup Ended
Running == Stages \ (Ended \cup {"idle"})

(* A token is a fresh random string and a task is given at most one lock, so  *)
(* the task itself stands for the token.                                      *)
NoLock   == [token |-> "nobody", left |-> 0]
LockType == {NoLock} \cup [token : Deliveries, left : 1..LockTTL]

Thread(d)  == ThreadOf[MessageOf[d]]
Channel(d) == ChannelOf[Thread(d)]

(* Mutant: the scope follows the message and not the configuration. *)
LockKeyByMessage(d) == IF MessageOf[d] \in Mentions THEN Channel(d) ELSE Thread(d)

(* _get_lock_key *)
LockKey(d) == IF ScopeOf[Thread(d)] = "channel" THEN Channel(d) ELSE Thread(d)

(* Mutant: lists keyed by message. *)
HistoryIdsByMessage(d) == IF PersistHistory THEN {MessageOf[d]} ELSE {}

(* The history lists that handle_incoming_message appends to. *)
HistoryIds(d) == IF PersistHistory THEN {Thread(d), Channel(d)} ELSE {}

(* "queue" and "debounce" fall back to "drop". *)
Locking(d) == StrategyOf[ProcessOf[d]] # "concurrent"

AfterHistory(d) == IF Locking(d) THEN "acquire" ELSE "subscription"

Init ==
  /\ locks = [k \in Ids |-> NoLock]
  /\ dedupe = [m \in Messages |-> 0]
  /\ subscribed = {}
  /\ history = [i \in Ids |-> {}]
  /\ pc = [d \in Deliveries |-> "idle"]
  /\ appends = [d \in Deliveries |-> {}]
  /\ lease = [d \in Deliveries |-> 0]
  /\ isSubscribed = [d \in Deliveries |-> FALSE]
  /\ todo = [d \in Deliveries |-> 0]
  /\ window = [d \in Deliveries |-> 0]
  /\ evicted = {}
  /\ disturbed = {}

Goto(d, stage) == pc' = [pc EXCEPT ![d] = stage]

(* _dispatch_to_handlers is left: for the finally clause of _handle_drop when  *)
(* the task took a lock, else straight out of handle_incoming_message.  What   *)
(* the call kept in local variables is gone.                                   *)
Leave(d, stage, outcome) ==
  /\ Goto(d, IF Locking(d) THEN stage ELSE outcome)
  /\ isSubscribed' = [isSubscribed EXCEPT ![d] = FALSE]
  /\ todo' = [todo EXCEPT ![d] = 0]
  /\ disturbed' = disturbed \ {d}

Returns(d) == Leave(d, "release", "handled")
Raises(d)  == Leave(d, "unwind", "failed")

-----------------------------------------------------------------------------
(***************************************************************************)
(* Arrival and the duplicate check                                         *)
(***************************************************************************)

(* The adapter calls process_message; the bot's own messages are skipped. *)
Receive(d) ==
  /\ pc[d] = "idle"
  /\ Goto(d, IF MessageOf[d] \in FromSelf THEN "ignored" ELSE "dedupe")
  /\ UNCHANGED <<store, local, aux>>

(* Mutant: a set that does not look. *)
MarkSeenBlindly(d) ==
  /\ dedupe' = [dedupe EXCEPT ![MessageOf[d]] = DedupeTTL]
  /\ window' = [window EXCEPT ![d] = DedupeTTL]

(* set_if_not_exists took the key: the message is this task's. *)
MarkSeen(d) ==
  /\ dedupe[MessageOf[d]] = 0
  /\ dedupe' = [dedupe EXCEPT ![MessageOf[d]] = DedupeTTL]
  /\ window' = [window EXCEPT ![d] = DedupeTTL]

Accept(d) ==
  /\ pc[d] = "dedupe"
  /\ MarkSeen(d)
  /\ appends' = [appends EXCEPT ![d] = HistoryIds(d)]
  /\ Goto(d, IF HistoryIds(d) = {} THEN AfterHistory(d) ELSE "history")
  /\ UNCHANGED <<locks, subscribed, history, lease, isSubscribed, todo,
                 evicted, disturbed>>

SkipDuplicate(d) ==
  /\ pc[d] = "dedupe"
  /\ dedupe[MessageOf[d]] > 0
  /\ Goto(d, "duplicate")
  /\ UNCHANGED <<store, local, aux>>

(* The backend set the key, its answer never came: the task ends with an     *)
(* error, and the message is marked as seen.                                 *)
AcceptReplyLost(d) ==
  /\ pc[d] = "dedupe"
  /\ MarkSeen(d)
  /\ Goto(d, "failed")
  /\ UNCHANGED <<locks, subscribed, history, local, evicted, disturbed>>

-----------------------------------------------------------------------------
(***************************************************************************)
(* The message history: both appends run at once, under asyncio.gather.    *)
(* When one fails gather raises at once, and the other one still runs.     *)
(***************************************************************************)

AppendHistory(d, i) ==
  /\ pc[d] \in {"history", "failed"}
  /\ i \in appends[d]
  /\ history' = [history EXCEPT ![i] = @ \cup {d}]
  /\ appends' = [appends EXCEPT ![d] = @ \ {i}]
  /\ IF pc[d] = "history" /\ appends[d] = {i}
       THEN Goto(d, AfterHistory(d))
       ELSE UNCHANGED pc
  /\ UNCHANGED <<locks, dedupe, subscribed, lease, isSubscribed, todo, aux>>

(* Mutant: gather(return_exceptions=True). *)
AppendFailsSilently(d, i) ==
  /\ pc[d] = "history"
  /\ i \in appends[d]
  /\ appends' = [appends EXCEPT ![d] = @ \ {i}]
  /\ IF appends[d] = {i} THEN Goto(d, AfterHistory(d)) ELSE UNCHANGED pc
  /\ UNCHANGED <<store, lease, isSubscribed, todo, aux>>

AppendFails(d, i) ==
  /\ pc[d] \in {"history", "failed"}
  /\ i \in appends[d]
  /\ appends' = [appends EXCEPT ![d] = @ \ {i}]
  /\ Goto(d, "failed")
  /\ UNCHANGED <<store, lease, isSubscribed, todo, aux>>

-----------------------------------------------------------------------------
(***************************************************************************)
(* _handle_drop: the lock                                                  *)
(***************************************************************************)

Free(k) == locks[k] = NoLock

(* Mutant: a lock that a process holds lets the process in again. *)
TakeLockReentrant(d) ==
  /\ \/ Free(LockKey(d))
     \/ \E e \in Deliveries : locks[LockKey(d)].token = e /\ ProcessOf[e] = ProcessOf[d]
  /\ locks' = [locks EXCEPT ![LockKey(d)] = [token |-> d, left |-> LockTTL]]

(* acquire_lock succeeds on a free or an expired entry. *)
TakeLock(d) ==
  /\ Free(LockKey(d))
  /\ locks' = [locks EXCEPT ![LockKey(d)] = [token |-> d, left |-> LockTTL]]

Acquire(d) ==
  /\ pc[d] \in {"acquire", "reacquire"}
  /\ TakeLock(d)
  /\ lease' = [lease EXCEPT ![d] = LockTTL]
  /\ Goto(d, "subscription")
  /\ UNCHANGED <<dedupe, subscribed, history, appends, isSubscribed, todo, aux>>

(* The backend gave the lock, its answer never came: nobody will release it. *)
AcquireReplyLost(d) ==
  /\ pc[d] \in {"acquire", "reacquire"}
  /\ TakeLock(d)
  /\ Goto(d, "failed")
  /\ UNCHANGED <<dedupe, subscribed, history, local, aux>>

(* The first acquire_lock returned None, and on_lock_conflict answers.  It    *)
(* may be a callback that is awaited: how long it takes is how long the task  *)
(* stays before force_release_lock.                                           *)
Conflict(d) ==
  /\ pc[d] = "acquire"
  /\ ~Free(LockKey(d))
  /\ \E resolution \in Resolutions :
       Goto(d, IF resolution = "force" THEN "force" ELSE "lock_error")
  /\ UNCHANGED <<store, local, aux>>

ForceRelease(d) ==
  /\ pc[d] = "force"
  /\ locks' = [locks EXCEPT ![LockKey(d)] = NoLock]
  /\ evicted' = evicted \cup ({locks[LockKey(d)].token} \ {"nobody"})
  /\ Goto(d, "reacquire")
  /\ UNCHANGED <<dedupe, subscribed, history, local, window, disturbed>>

(* Another task took the lock between force_release_lock and acquire_lock:   *)
(* LockError, although the policy is "force".                                *)
LoseRace(d) ==
  /\ pc[d] = "reacquire"
  /\ ~Free(LockKey(d))
  /\ Goto(d, "lock_error")
  /\ UNCHANGED <<store, local, aux>>

(* Mutants: release whatever lock is there; insist on still holding it. *)
ReleaseAnyLock(d) == locks' = [locks EXCEPT ![LockKey(d)] = NoLock]

ReleaseHeldLock(d) ==
  /\ locks[LockKey(d)].token = d
  /\ locks' = [locks EXCEPT ![LockKey(d)] = NoLock]

(* release_lock removes the entry when its token is still the task's. *)
ReleaseLock(d) ==
  locks' = IF locks[LockKey(d)].token = d
             THEN [locks EXCEPT ![LockKey(d)] = NoLock]
             ELSE locks

(* The finally clause of _handle_drop, on the normal path and on an exception. *)
Release(d) ==
  /\ pc[d] \in {"release", "unwind"}
  /\ ReleaseLock(d)
  /\ lease' = [lease EXCEPT ![d] = 0]
  /\ evicted' = evicted \ {d}
  /\ Goto(d, IF pc[d] = "release" THEN "handled" ELSE "failed")
  /\ UNCHANGED <<dedupe, subscribed, history, appends, isSubscribed, todo, window, disturbed>>

-----------------------------------------------------------------------------
(***************************************************************************)
(* _dispatch_to_handlers: routing and the handlers                         *)
(***************************************************************************)

(* A direct message counts as a mention when no direct handler is there. *)
RouteFor(d, sub) ==
  LET direct == Thread(d) \in DirectThreads
  IN  IF direct /\ HandlersOf["direct"] > 0        THEN "direct"
      ELSE IF sub                                  THEN "subscribed"
      ELSE IF direct \/ MessageOf[d] \in Mentions  THEN "mention"
      ELSE "pattern"

ReadSubscription(d) ==
  /\ pc[d] = "subscription"
  /\ LET sub == Thread(d) \in subscribed
         n   == HandlersOf[RouteFor(d, sub)]
     IN  IF n = 0
           THEN Returns(d)
           ELSE /\ isSubscribed' = [isSubscribed EXCEPT ![d] = sub]
                /\ todo' = [todo EXCEPT ![d] = n]
                /\ Goto(d, "handlers")
                /\ UNCHANGED disturbed
  /\ UNCHANGED <<store, appends, lease, window, evicted>>

(* A task that still has a valid lock: neither expired nor forced away. *)
Leased(d) == lease[d] > 0 /\ d \notin evicted

(* thread.subscribe() or thread.unsubscribe() in a handler. *)
ChangeSubscription(d) ==
  /\ pc[d] = "handlers"
  /\ \/ subscribed' = subscribed \cup {Thread(d)}
     \/ subscribed' = subscribed \ {Thread(d)}
  /\ disturbed' = disturbed \cup
       {e \in Deliveries : /\ pc[e] = "handlers"
                           /\ e = d \/ (~Leased(d) /\ Thread(e) = Thread(d))}
  /\ UNCHANGED <<locks, dedupe, history, pc, local, window, evicted>>

HandlerReturns(d) ==
  /\ pc[d] = "handlers"
  /\ IF todo[d] = 1
       THEN Returns(d)
       ELSE /\ todo' = [todo EXCEPT ![d] = @ - 1]
            /\ UNCHANGED <<pc, isSubscribed, disturbed>>
  /\ UNCHANGED <<store, appends, lease, window, evicted>>

(* The remaining handlers of the list do not run. *)
HandlerRaises(d) ==
  /\ pc[d] = "handlers"
  /\ Raises(d)
  /\ UNCHANGED <<store, appends, lease, window, evicted>>

-----------------------------------------------------------------------------
(***************************************************************************)
(* What goes wrong from outside                                            *)
(***************************************************************************)

(* A call of the backend, or the on_lock_conflict callback, raises and has   *)
(* changed nothing.                                                          *)
CallFails(d) ==
  /\ pc[d] \in {"dedupe", "acquire", "force", "reacquire"}
  /\ Goto(d, "failed")
  /\ UNCHANGED <<store, local, aux>>

(* is_subscribed is called inside the try block: the lock is still released. *)
ReadFails(d) ==
  /\ pc[d] = "subscription"
  /\ Raises(d)
  /\ UNCHANGED <<store, appends, lease, window, evicted>>

(* A release_lock that fails leaves the lock to its TTL. *)
ReleaseFails(d) ==
  /\ pc[d] \in {"release", "unwind"}
  /\ lease' = [lease EXCEPT ![d] = 0]
  /\ evicted' = evicted \ {d}
  /\ Goto(d, "failed")
  /\ UNCHANGED <<store, appends, isSubscribed, todo, window, disturbed>>

Cleared(f, tasks, none) == [d \in Deliveries |-> IF d \in tasks THEN none ELSE f[d]]

(* A process dies with all its tasks, the remaining append of a failed one   *)
(* included; the backend keeps its state.  It is started again at once.      *)
Crash(p) ==
  LET dying   == {d \in Deliveries : ProcessOf[d] = p /\ pc[d] \in Running}
      pending == {d \in Deliveries : ProcessOf[d] = p /\ appends[d] # {}}
  IN  /\ dying \cup pending # {}
      /\ pc' = Cleared(pc, dying, "failed")
      /\ appends' = Cleared(appends, pending, {})
      /\ lease' = Cleared(lease, dying, 0)
      /\ isSubscribed' = Cleared(isSubscribed, dying, FALSE)
      /\ todo' = Cleared(todo, dying, 0)
      /\ evicted' = evicted \ dying
      /\ disturbed' = disturbed \ dying
      /\ UNCHANGED <<store, window>>

(* A button, reaction, slash or modal handler changes a subscription: those  *)
(* events take no lock.                                                      *)
UnlockedEvent(t) ==
  /\ \/ subscribed' = subscribed \cup {t}
     \/ subscribed' = subscribed \ {t}
  /\ disturbed' = disturbed \cup {d \in Deliveries : pc[d] = "handlers" /\ Thread(d) = t}
  /\ UNCHANGED <<locks, dedupe, history, pc, local, window, evicted>>

Less(n) == IF n > 0 THEN n - 1 ELSE 0

(* Mutant: a lock without a TTL. *)
AgedNever(lock) == lock

(* An expired entry counts as none. *)
Aged(lock) == IF lock.left > 1 THEN [lock EXCEPT !.left = @ - 1] ELSE NoLock

Tick ==
  /\ \/ \E k \in Ids : locks[k].left > 0
     \/ \E m \in Messages : dedupe[m] > 0
     \/ \E d \in Deliveries : lease[d] > 0 \/ window[d] > 0
  /\ locks' = [k \in Ids |-> Aged(locks[k])]
  /\ dedupe' = [m \in Messages |-> Less(dedupe[m])]
  /\ lease' = [d \in Deliveries |-> Less(lease[d])]
  /\ window' = [d \in Deliveries |-> Less(window[d])]
  /\ UNCHANGED <<subscribed, history, pc, appends, isSubscribed, todo,
                 evicted, disturbed>>

-----------------------------------------------------------------------------

(* What a task does by itself. *)
Step(d) ==
  \/ Accept(d)
  \/ SkipDuplicate(d)
  \/ \E i \in Ids : AppendHistory(d, i)
  \/ Acquire(d)
  \/ Conflict(d)
  \/ ForceRelease(d)
  \/ LoseRace(d)
  \/ ReadSubscription(d)
  \/ HandlerReturns(d)
  \/ Release(d)

Fault(d) ==
  \/ AcceptReplyLost(d)
  \/ AcquireReplyLost(d)
  \/ CallFails(d)
  \/ ReadFails(d)
  \/ ReleaseFails(d)
  \/ HandlerRaises(d)
  \/ \E i \in Ids : AppendFails(d, i)

Next ==
  \/ \E d \in Deliveries :
       Receive(d) \/ Step(d) \/ ChangeSubscription(d) \/ Fault(d)
  \/ \E p \in Processes : Crash(p)
  \/ \E t \in Threads : UnlockedEvent(t)
  \/ Tick

Spec == Init /\ [][Next]_vars

(* The event loop runs every ready task, backend calls return or raise, the  *)
(* application's handlers return, and time passes.                           *)
FairSpec == Spec /\ WF_vars(Tick) /\ \A d \in Deliveries : WF_vars(Step(d))

-----------------------------------------------------------------------------
(***************************************************************************)
(* Properties                                                              *)
(***************************************************************************)

(* Every variable has its type. *)
TypeOK ==
  /\ locks \in [Ids -> LockType]
  /\ dedupe \in [Messages -> 0..DedupeTTL]
  /\ subscribed \subseteq Threads
  /\ history \in [Ids -> SUBSET Deliveries]
  /\ pc \in [Deliveries -> Stages]
  /\ appends \in [Deliveries -> SUBSET Ids]
  /\ lease \in [Deliveries -> 0..LockTTL]
  /\ isSubscribed \in [Deliveries -> BOOLEAN]
  /\ todo \in [Deliveries -> Nat]
  /\ window \in [Deliveries -> 0..DedupeTTL]
  /\ evicted \subseteq Deliveries
  /\ disturbed \subseteq Deliveries

InLock(d) == Locking(d) /\ pc[d] \in {"subscription", "handlers", "release", "unwind"}

(* Two tasks are never at work under the same lock key while both hold a lock *)
(* that has not expired and was not forced away: the lock that _handle_drop   *)
(* takes around _dispatch_to_handlers keeps them apart, whatever processes    *)
(* they run in and however releases, expiries and force-releases interleave.  *)
LeaseExclusive ==
  \A d, e \in Deliveries :
    d # e /\ InLock(d) /\ InLock(e) /\ Leased(d) /\ Leased(e)
      => LockKey(d) # LockKey(e)

(* Of the deliveries of one message, at most one passes the duplicate check   *)
(* within one dedupe_ttl_ms, however many processes they arrive at.           *)
HandledOncePerWindow ==
  \A d, e \in Deliveries :
    d # e /\ MessageOf[d] = MessageOf[e] => window[d] = 0 \/ window[e] = 0

(* Handlers run on the route that the thread's subscription calls for: as     *)
(* long as the lock is valid, what _dispatch_to_handlers read is still so,    *)
(* unless the task's own handlers or somebody without a valid lock on the     *)
(* thread changed it.  The subscription is read under the lock, so a message  *)
(* that waits for nobody cannot be routed by what held before its             *)
(* predecessor's handlers subscribed.                                         *)
RoutedUnderLock ==
  \A d \in Deliveries :
    pc[d] = "handlers" /\ Locking(d) /\ Leased(d) /\ d \notin disturbed
      => (isSubscribed[d] <=> Thread(d) \in subscribed)

(* A message whose task reached the lock, even one that is then refused it,   *)
(* is in the history of its thread and of its channel; and a message enters   *)
(* a history at most once per dedupe_ttl_ms.                                  *)
HistoryComplete ==
  /\ \A d \in Deliveries :
       pc[d] \in {"acquire", "force", "reacquire", "subscription", "handlers",
                 "release", "unwind", "handled", "lock_error"}
         => \A i \in HistoryIds(d) : d \in history[i]
  /\ \A i \in Ids : \A d, e \in history[i] :
       d # e /\ MessageOf[d] = MessageOf[e] => window[d] = 0 \/ window[e] = 0

(* A lock leaves the backend only because its time is up, because its own     *)
(* task releases it, or because a task that met the conflict forces it away:  *)
(* a task whose lock expired while its handlers ran never releases the lock   *)
(* of its successor.                                                          *)
OnlyOwnerReleases ==
  [][\A k \in Ids :
       locks[k] # NoLock /\ locks'[k].token # locks[k].token
         => \/ locks[k].left = 1 /\ pc' = pc
            \/ \E d \in Deliveries :
                 /\ LockKey(d) = k
                 /\ \/ pc[d] \in {"release", "unwind"} /\ pc'[d] # pc[d] /\ locks[k].token = d
                    \/ pc[d] = "force" /\ pc'[d] = "reacquire"]_vars

(* No task's lock stays valid for ever: it is released, forced away, or, when *)
(* the process died or an answer of the backend was lost, it expires.         *)
LocksAreFreed ==
  \A d \in Deliveries : locks[LockKey(d)].token = d ~> locks[LockKey(d)].token # d

(* Every task ends: nobody waits for a lock, and losing the lock while the    *)
(* handlers run does not keep a task from finishing.                          *)
DeliveriesEnd ==
  \A d \in Deliveries : pc[d] \in Running ~> pc[d] \in Ended

-----------------------------------------------------------------------------
(***************************************************************************)
(* The inductive invariant behind the safety properties                    *)
(***************************************************************************)

(* A task among the handlers has one of them still to finish. *)
HandlerRuns == \A d \in Deliveries : pc[d] = "handlers" => todo[d] > 0

(* Only tasks that take locks come near one. *)
LockersOnly ==
  \A d \in Deliveries :
    /\ pc[d] \in {"acquire", "force", "reacquire", "release", "unwind"} => Locking(d)
    /\ lease[d] > 0 => InLock(d)

(* A task's valid lock is the backend's entry, with the same time left. *)
LeaseBacked ==
  \A d \in Deliveries :
    Leased(d) => locks[LockKey(d)] = [token |-> d, left |-> lease[d]]

(* The key of a message outlives the window of each task that passed the check. *)
WindowBacked == \A d \in Deliveries : window[d] <= dedupe[MessageOf[d]]

(* A task in the history step has appended to each list or is about to. *)
AppendsTracked ==
  \A d \in Deliveries :
    pc[d] = "history" => \A i \in HistoryIds(d) : i \in appends[d] \/ d \in history[i]

IndInv ==
  /\ TypeOK
  /\ HandlerRuns
  /\ LockersOnly
  /\ LeaseBacked
  /\ WindowBacked
  /\ HandledOncePerWindow
  /\ AppendsTracked
  /\ HistoryComplete
  /\ RoutedUnderLock
=============================================================================
