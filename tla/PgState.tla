------------------------------ MODULE PgState -------------------------------
(***************************************************************************)
(* PostgresStateAdapter                                                    *)
(* (packages/chat-adapter-state-pg/src/chat_adapter_state_pg/__init__.py): *)
(* the state of the bots of several processes in the tables of one         *)
(* database.                                                               *)
(*                                                                         *)
(* A statement commits by itself and is one step; an operation of several  *)
(* statements is several steps, and others' steps come in between.  The    *)
(* statement that dequeues is two steps: it finds the row by its snapshot, *)
(* and then deletes the row if it is still there.  A row of a list or a    *)
(* queue is its seq and its expiry; one list and one queue stand for all,  *)
(* and all calls ask for the same maximal length, as those of the message  *)
(* history do.                                                             *)
(***************************************************************************)
EXTENDS SharedStore, FiniteSets

VARIABLES
  connected,      \* the clients whose adapter has _connected
  subscriptions,  \* chat_state_subscriptions
  locks,          \* chat_state_locks
  cached,         \* chat_state_cache
  listed,         \* chat_state_lists: a set of rows
  queued,         \* chat_state_queues: a set of rows
  seq,            \* the seq of the next row
  pc,             \* per client: the statement it comes to next
  arg,            \* per client: the time to live of the operation under way
  seen,           \* per client: the seqs that the statement of its dequeue has read
  issued,         \* auxiliary: the tokens made so far
  reply,          \* what the last operation on locks, values or subscriptions returned
  taken,          \* auxiliary: the seqs of the entries handed out, in order
  cut             \* auxiliary: an append_to_list failed, and none has trimmed since

rows   == <<listed, queued, seq, taken, cut>>
calls  == <<pc, arg, seen>>
single == <<subscriptions, locks, cached>>
vars   == <<now, connected, single, rows, calls, issued, reply>>

NoRow == Stamped(None, 0)

Init ==
  /\ now = 0
  /\ connected = {}
  /\ subscriptions = {}
  /\ locks = [t \in Threads |-> NoRow]
  /\ cached = NoRow
  /\ listed = {}
  /\ queued = {}
  /\ seq = 1
  /\ pc = [c \in Processes |-> "idle"]
  /\ arg = [c \in Processes |-> Never]
  /\ seen = [c \in Processes |-> {}]
  /\ issued = {}
  /\ reply = <<>>
  /\ taken = <<>>
  /\ cut = FALSE

Goto(c, statement) == pc' = [pc EXCEPT ![c] = statement]

(* The operation is over. *)
Ends(c) ==
  /\ Goto(c, "idle")
  /\ arg' = [arg EXCEPT ![c] = Never]
  /\ seen' = [seen EXCEPT ![c] = {}]

-----------------------------------------------------------------------------

Tick ==
  /\ now < MaxTime
  /\ now' = now + 1
  /\ UNCHANGED <<connected, single, rows, calls, issued, reply>>

(* The schema is there or made: the tables are never dropped. *)
Connect(c) ==
  /\ pc[c] = "idle"
  /\ connected' = connected \cup {c}
  /\ UNCHANGED <<now, single, rows, calls, issued, reply>>

(* An operation under way goes on. *)
Disconnect(c) ==
  /\ connected' = connected \ {c}
  /\ UNCHANGED <<now, single, rows, calls, issued, reply>>

(* A new call: _ensure_connected. *)
Called(c) == pc[c] = "idle" /\ c \in connected /\ UNCHANGED <<now, connected>>

(* An operation of one statement. *)
Single(c) == Called(c) /\ UNCHANGED <<rows, calls>>

(* A statement of an operation under way. *)
At(c, statement) == pc[c] = statement /\ UNCHANGED <<now, connected, single, issued, reply>>

(* A statement raises, and the operation with it. *)
StatementFails(c) ==
  /\ pc[c] # "idle"
  /\ Ends(c)
  /\ cut' = (cut \/ pc[c] = "trim list")
  /\ UNCHANGED <<now, connected, single, listed, queued, seq, taken, issued, reply>>

Subscribe(c, t) ==
  /\ Single(c)
  /\ subscriptions' = subscriptions \cup {t}
  /\ reply' = <<>>
  /\ UNCHANGED <<locks, cached, issued>>

Unsubscribe(c, t) ==
  /\ Single(c)
  /\ subscriptions' = subscriptions \ {t}
  /\ reply' = <<>>
  /\ UNCHANGED <<locks, cached, issued>>

IsSubscribed(c, t) ==
  /\ Single(c)
  /\ reply' = When(t \in subscriptions, t)
  /\ UNCHANGED <<single, issued>>

-----------------------------------------------------------------------------
(* Locks *)

AcquireLock(c, t, h, ttl) ==
  /\ Single(c)
  /\ h \notin issued
  /\ issued' = issued \cup {h}
  /\ locks' = IF Over(locks[t]) THEN [locks EXCEPT ![t] = Stamped(h, Until(ttl))] ELSE locks
  /\ reply' = When(Over(locks[t]), h)
  /\ UNCHANGED <<subscriptions, cached>>

ForceReleaseLock(c, t) ==
  /\ Single(c)
  /\ locks' = [locks EXCEPT ![t] = NoRow]
  /\ reply' = <<>>
  /\ UNCHANGED <<subscriptions, cached, issued>>

ReleaseLock(c, t, h) ==
  /\ Single(c)
  /\ locks' = IF locks[t].of = h THEN [locks EXCEPT ![t] = NoRow] ELSE locks
  /\ reply' = <<>>
  /\ UNCHANGED <<subscriptions, cached, issued>>

ExtendLock(c, t, h, ttl) ==
  LET holds == locks[t].of = h /\ ~Over(locks[t])
  IN  /\ Single(c)
      /\ locks' = IF holds THEN [locks EXCEPT ![t].expires = Until(ttl)] ELSE locks
      /\ reply' = When(holds, h)
      /\ UNCHANGED <<subscriptions, cached, issued>>

-----------------------------------------------------------------------------
(* Cached values *)

(* Finding no row that is not expired, get goes on to remove one that is. *)
Get(c) ==
  /\ Called(c)
  /\ reply' = When(~Over(cached), cached.of)
  /\ Goto(c, IF Over(cached) THEN "clean up" ELSE "idle")
  /\ UNCHANGED <<single, rows, arg, seen, issued>>

(* Mutant: remove the row, expired or not. *)
CleanUpBlindly(c) ==
  /\ pc[c] = "clean up"
  /\ cached' = NoRow
  /\ Ends(c)
  /\ UNCHANGED <<now, connected, subscriptions, locks, rows, issued, reply>>

(* By now another client may have set the value. *)
CleanUp(c) ==
  /\ pc[c] = "clean up"
  /\ cached' = IF Over(cached) THEN NoRow ELSE cached
  /\ Ends(c)
  /\ UNCHANGED <<now, connected, subscriptions, locks, rows, issued, reply>>

SetValue(c, v, ttl) ==
  /\ Single(c)
  /\ cached' = Stamped(v, Until(ttl))
  /\ reply' = <<>>
  /\ UNCHANGED <<subscriptions, locks, issued>>

(* ON CONFLICT DO NOTHING: a row is a conflict, expired or not. *)
SetIfNotExists(c, v, ttl) ==
  /\ Single(c)
  /\ cached' = IF cached = NoRow THEN Stamped(v, Until(ttl)) ELSE cached
  /\ reply' = When(cached = NoRow, v)
  /\ UNCHANGED <<subscriptions, locks, issued>>

Delete(c) ==
  /\ Single(c)
  /\ cached' = NoRow
  /\ reply' = <<>>
  /\ UNCHANGED <<subscriptions, locks, issued>>

-----------------------------------------------------------------------------
(* Lists and queues *)

New(ttl) == [seq |-> seq, expires |-> Until(ttl)]

Live(S) == {r \in S : ~Over(r)}

(* ORDER BY seq ASC LIMIT n *)
Oldest(S, n) == {r \in S : Cardinality({q \in S : q.seq < r.seq}) < n}

(* LIMIT of the rows beyond MaxLength, and never fewer than 0 *)
Overflow(S) == IF Cardinality(S) > MaxLength THEN Oldest(S, Cardinality(S) - MaxLength) ELSE {}

AppendToList(c, ttl) ==
  /\ Called(c)
  /\ seq <= MaxRows
  /\ listed' = listed \cup {New(ttl)}
  /\ seq' = seq + 1
  /\ arg' = [arg EXCEPT ![c] = ttl]
  /\ Goto(c, "trim list")
  /\ UNCHANGED <<single, queued, taken, cut, seen, issued, reply>>

(* Mutant: one of the newest goes, too. *)
TrimListShort(c) ==
  /\ At(c, "trim list")
  /\ listed' = listed \ Oldest(listed, (Cardinality(listed) + 1) - MaxLength)
  /\ cut' = FALSE
  /\ IF arg[c] = Never THEN Ends(c) ELSE Goto(c, "touch list") /\ UNCHANGED <<arg, seen>>
  /\ UNCHANGED <<queued, seq, taken>>

TrimList(c) ==
  /\ At(c, "trim list")
  /\ listed' = listed \ Overflow(listed)
  /\ cut' = FALSE
  /\ IF arg[c] = Never THEN Ends(c) ELSE Goto(c, "touch list") /\ UNCHANGED <<arg, seen>>
  /\ UNCHANGED <<queued, seq, taken>>

(* Rows that have run out stay until they overflow, and come back to life:    *)
(* all rows of the list get the new expiry.                                   *)
TouchList(c) ==
  /\ At(c, "touch list")
  /\ listed' = {[r EXCEPT !.expires = Until(arg[c])] : r \in listed}
  /\ Ends(c)
  /\ UNCHANGED <<queued, seq, taken, cut>>

(* enqueue purges, inserts, trims and counts. *)
Enqueue(c, ttl) ==
  /\ Called(c)
  /\ seq <= MaxRows
  /\ queued' = Live(queued)
  /\ arg' = [arg EXCEPT ![c] = ttl]
  /\ Goto(c, "insert")
  /\ UNCHANGED <<single, listed, seq, taken, cut, seen, issued, reply>>

(* Mutant: the expiry of the entry is not stored. *)
InsertForever(c) ==
  /\ At(c, "insert")
  /\ seq <= MaxRows
  /\ queued' = queued \cup {New(Never)}
  /\ seq' = seq + 1
  /\ Goto(c, "trim queue")
  /\ UNCHANGED <<listed, taken, cut, arg, seen>>

InsertEntry(c) ==
  /\ At(c, "insert")
  /\ seq <= MaxRows
  /\ queued' = queued \cup {New(arg[c])}
  /\ seq' = seq + 1
  /\ Goto(c, "trim queue")
  /\ UNCHANGED <<listed, taken, cut, arg, seen>>

(* Mutant: what is over is counted with the rows that have expired. *)
TrimQueueByAll(c) ==
  /\ At(c, "trim queue")
  /\ queued' = queued \ (IF Cardinality(queued) > MaxLength
                           THEN Oldest(Live(queued), Cardinality(queued) - MaxLength) ELSE {})
  /\ Ends(c)
  /\ UNCHANGED <<listed, seq, taken, cut>>

(* The count that is returned is left out. *)
TrimQueue(c) ==
  /\ At(c, "trim queue")
  /\ queued' = queued \ Overflow(Live(queued))
  /\ Ends(c)
  /\ UNCHANGED <<listed, seq, taken, cut>>

(* dequeue purges, finds the oldest row and deletes it. *)
Dequeue(c) ==
  /\ Called(c)
  /\ queued' = Live(queued)
  /\ Goto(c, "pick")
  /\ UNCHANGED <<single, listed, seq, taken, cut, arg, seen, issued, reply>>

PickEntry(c) ==
  /\ At(c, "pick")
  /\ IF Live(queued) = {}
       THEN Ends(c)
       ELSE /\ seen' = [seen EXCEPT ![c] = {r.seq : r \in Live(queued)}]
            /\ Goto(c, "take") /\ UNCHANGED arg
  /\ UNCHANGED rows

Picked(c) == CHOOSE n \in seen[c] : \A o \in seen[c] : n <= o

(* Mutant: SELECT, then DELETE, whatever became of the row. *)
TakeBlindly(c) ==
  /\ At(c, "take")
  /\ queued' = {r \in queued : r.seq # Picked(c)}
  /\ taken' = Append(taken, Picked(c))
  /\ Ends(c)
  /\ UNCHANGED <<listed, seq, cut>>

(* Of two that found one row the second finds it deleted, and returns None. *)
TakeEntry(c) ==
  /\ At(c, "take")
  /\ queued' = {r \in queued : r.seq # Picked(c)}
  /\ taken' = IF queued' = queued THEN taken ELSE Append(taken, Picked(c))
  /\ Ends(c)
  /\ UNCHANGED <<listed, seq, cut>>

-----------------------------------------------------------------------------

Connection == Tick \/ \E c \in Processes : Connect(c) \/ Disconnect(c) \/ StatementFails(c)

Subscriptions == \E c \in Processes, t \in Threads : Subscribe(c, t) \/ Unsubscribe(c, t) \/ IsSubscribed(c, t)

Locks ==
  \E c \in Processes, t \in Threads :
    \/ ForceReleaseLock(c, t)
    \/ \E h \in Handles :
         \/ ReleaseLock(c, t, h)
         \/ \E ttl \in TTLs : AcquireLock(c, t, h, ttl) \/ ExtendLock(c, t, h, ttl)

Cache ==
  \E c \in Processes :
    \/ Get(c) \/ CleanUp(c) \/ Delete(c)
    \/ \E v \in Values, ttl \in TTLs \cup {Never} : SetValue(c, v, ttl) \/ SetIfNotExists(c, v, ttl)

Lists ==
  \E c \in Processes :
    \/ \E ttl \in TTLs \cup {Never} : AppendToList(c, ttl)
    \/ TrimList(c) \/ TouchList(c)

Queues ==
  \E c \in Processes :
    \/ \E ttl \in TTLs : Enqueue(c, ttl)
    \/ InsertEntry(c) \/ TrimQueue(c) \/ Dequeue(c) \/ PickEntry(c) \/ TakeEntry(c)

Next == Connection \/ Subscriptions \/ Locks \/ Cache \/ Lists \/ Queues

Spec == Init /\ [][Next]_vars

-----------------------------------------------------------------------------
(***************************************************************************)
(* Properties                                                              *)
(***************************************************************************)

Rows == [seq : 1..MaxRows, expires : Nat \cup {Never}]

(* Rows of one table differ in their seq, and an operation under way is at a  *)
(* statement of its own.                                                      *)
TypeOK ==
  /\ now \in 0..MaxTime
  /\ connected \subseteq Processes
  /\ subscriptions \subseteq Threads
  /\ locks \in [Threads -> StampedSet(Handles \cup {None})]
  /\ cached \in StampedSet(Values \cup {None})
  /\ listed \subseteq Rows
  /\ queued \subseteq {r \in Rows : r.expires # Never}
  /\ \A r, q \in listed \cup queued : r.seq = q.seq => r = q
  /\ pc \in [Processes -> {"idle", "clean up", "trim list", "touch list", "insert", "trim queue", "pick", "take"}]
  /\ arg \in [Processes -> TTLs \cup {Never}]
  /\ seen \in [Processes -> SUBSET (1..MaxRows)]
  /\ \A c \in Processes : (seen[c] # {}) = (pc[c] = "take")
  /\ seq \in 1..(MaxRows + 1) /\ taken \in Seq(1..MaxRows) /\ cut \in BOOLEAN
  /\ issued \subseteq Handles

Contract == INSTANCE StateContract WITH
  subscribed <- subscriptions,
  lock       <- [t \in Threads |-> Left(locks[t])],
  entry      <- Left(cached),
  list       <- Left(Stamped(<<>>, 0)),
  queue      <- <<>>,
  Durable    <- TRUE,
  Blocks     <- TRUE,
  Lapses     <- FALSE

(* Subscriptions, locks and values, for any processes on one database: the    *)
(* adapter is a store that loses nothing with a connection, in which a value  *)
(* that has run out may still keep set_if_not_exists from setting another.    *)
KeepsContract == Contract!Spec

(* However the statements of appends interleave, a list settles on the        *)
(* MaxLength newest rows: it is more only between an insert and its trim, and *)
(* after an insert whose trim failed.                                         *)
ListSettles ==
  (~cut /\ \A c \in Processes : pc[c] # "trim list") =>
    {r.seq : r \in listed} = {n \in 1..(seq - 1) : n + MaxLength >= seq}

(* No entry is handed out twice. *)
HandedOutOnce == \A i, j \in DOMAIN taken : taken[i] = taken[j] => i = j

Leaves(r) ==
  \/ taken' = Append(taken, r.seq)
  \/ Cardinality({q \in Live(queued) : q.seq > r.seq}) >= MaxLength

(* A live entry leaves the queue only to be handed out, or when MaxLength     *)
(* newer ones are live.                                                       *)
QueueKeeps == [][\A r \in Live(queued) : r \notin queued' => Leaves(r)]_vars

-----------------------------------------------------------------------------
(***************************************************************************)
(* What makes them inductive                                               *)
(***************************************************************************)

(* Rows are numbered one after another, in whichever table they are; an entry *)
(* that was handed out is no longer queued, and one to be inserted runs out.  *)
Numbered ==
  /\ \A r \in listed \cup queued : r.seq < seq
  /\ \A r \in listed, q \in queued : r.seq # q.seq
  /\ \A i \in DOMAIN taken : taken[i] < seq /\ \A r \in queued : r.seq # taken[i]
  /\ \A c \in Processes : pc[c] = "insert" => arg[c] # Never
  /\ cached = NoRow \/ cached.of \in Values

(* Where only lists are appended to, a list is a stretch of the newest rows:  *)
(* all rows or at least MaxLength of them, and no more unless there is to be  *)
(* a trim, or one has failed.                                                 *)
Stretch ==
  \E first \in 1..seq :
    /\ {r.seq : r \in listed} = first..(seq - 1)
    /\ first = 1 \/ first + MaxLength <= seq
    /\ cut \/ (\E c \in Processes : pc[c] = "trim list") \/ seq <= first + MaxLength

IndInv == TypeOK /\ Numbered /\ HandedOutOnce

-----------------------------------------------------------------------------

FindsNone(c) == TakeEntry(c) /\ taken' = taken

(* Violated.  __init__.py 681 says of dequeue: "Atomically select + delete    *)
(* the oldest non-expired entry."  If it returns none, no entry that it has   *)
(* read is still there.                                                       *)
DequeueAtomic ==
  [][\A c \in Processes : FindsNone(c) => \A r \in Live(queued) : r.seq \notin seen[c]]_vars
=============================================================================
