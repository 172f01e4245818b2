--------------------------- MODULE StateContract ----------------------------
(***************************************************************************)
(* What a StateAdapter (packages/chat/src/chat/types.py 410-447) promises: *)
(* every operation takes effect at once, and what has a time to live runs  *)
(* out on its own.  The protocol class leaves the words to the adapters:   *)
(* this is what they have in common.  A store may keep what has run out,   *)
(* or forget it at any time; where else the adapters differ the contract   *)
(* leaves the choice open or has a constant that says which way it goes.   *)
(*                                                                         *)
(* One cache key, one list and one queue stand for all of them.  A time to *)
(* live is a number of ticks, counted down.                                *)
(***************************************************************************)
EXTENDS Naturals, Sequences

CONSTANTS
  Threads,    \* the threads that are locked and subscribed
  Handles,    \* locks: each acquire_lock makes a new token
  Values,     \* what is stored
  TTLs,       \* times to live, in ticks, not 0
  Never,      \* the time to live of what does not run out, no number
  MaxSizes,   \* the max_length and max_size that are passed
  None,       \* no lock, no value
  Durable,    \* whether everything outlives a connection
  Blocks,     \* whether a value that has run out may keep others from being set
  Lapses      \* whether a queue may go when its last entry runs out

VARIABLES
  subscribed,     \* the subscribed threads
  lock,           \* per thread: the lock handed out last, with the time left
  entry,          \* the cached value, with the time left
  list,           \* the list, with the time left
  queue,          \* the queued entries, each with the time left
  issued,         \* the handles used so far
  reply           \* what the last operation returned, <<>> for None and False

vars == <<subscribed, lock, entry, list, queue, issued, reply>>

Of(x, ttl)  == [of |-> x, left |-> ttl]
NoLock      == Of(None, 0)
NoEntry     == Of(None, 0)
NoList      == Of(<<>>, 0)

Live(x) == x.left # 0
Aged(x) == IF x.left \in Nat \ {0} THEN Of(x.of, x.left - 1) ELSE x

Newest(s, n) == IF Len(s) > n THEN SubSeq(s, Len(s) - n + 1, Len(s)) ELSE s

When(yes, x) == IF yes THEN <<x>> ELSE <<>>

Init ==
  /\ subscribed = {}
  /\ lock = [t \in Threads |-> NoLock]
  /\ entry = NoEntry
  /\ list = NoList
  /\ queue = <<>>
  /\ issued = {}
  /\ reply = <<>>

-----------------------------------------------------------------------------

Tick ==
  /\ lock' = [t \in Threads |-> Aged(lock[t])]
  /\ entry' = Aged(entry)
  /\ list' = Aged(list)
  /\ \/ queue' = [i \in DOMAIN queue |-> Aged(queue[i])]
     \/ /\ Lapses /\ queue # <<>>
        /\ ~Live(Aged(queue[Len(queue)]))
        /\ queue' = <<>>
  /\ UNCHANGED <<subscribed, issued, reply>>

Forget ==
  /\ ~Live(entry)
  /\ entry' = NoEntry
  /\ UNCHANGED <<subscribed, lock, list, queue, issued, reply>>

(* A store that is not durable loses parts of itself with its connection. *)
Disconnect ==
  /\ ~Durable
  /\ subscribed' \in {subscribed, {}}
  /\ lock' \in {lock, [t \in Threads |-> NoLock]}
  /\ entry' \in {entry, NoEntry}
  /\ list' \in {list, NoList}
  /\ queue' \in {queue, <<>>}
  /\ UNCHANGED <<issued, reply>>

Subscription(t) ==
  /\ \/ subscribed' = subscribed \cup {t} /\ reply' = <<>>
     \/ subscribed' = subscribed \ {t} /\ reply' = <<>>
     \/ UNCHANGED subscribed /\ reply' = When(t \in subscribed, t)
  /\ UNCHANGED <<lock, entry, list, queue, issued>>

-----------------------------------------------------------------------------
(* Locks *)

Lapsed == {t \in Threads : ~Live(lock[t])}

Without(ts) == [t \in Threads |-> IF t \in ts THEN NoLock ELSE lock[t]]

AcquireLock(t, h, ttl) ==
  /\ h \notin issued
  /\ issued' = issued \cup {h}
  /\ \E forgotten \in SUBSET Lapsed :
       lock' = IF Live(lock[t]) THEN Without(forgotten)
                                ELSE [Without(forgotten) EXCEPT ![t] = Of(h, ttl)]
  /\ reply' = When(~Live(lock[t]), h)
  /\ UNCHANGED <<subscribed, entry, list, queue>>

ReleaseLock(t, h) ==
  /\ lock' = IF lock[t].of = h THEN Without({t}) ELSE lock
  /\ reply' = <<>>
  /\ UNCHANGED <<subscribed, entry, list, queue, issued>>

ForceReleaseLock(t) ==
  /\ lock' = Without({t})
  /\ reply' = <<>>
  /\ UNCHANGED <<subscribed, entry, list, queue, issued>>

(* The lock must still be the one handed out last for the thread.  Once it    *)
(* has run out it may be extended or not.                                     *)
ExtendLock(t, h, ttl) ==
  /\ \/ /\ lock[t].of = h
        /\ lock' = [lock EXCEPT ![t] = Of(h, ttl)]
        /\ reply' = <<h>>
     \/ /\ lock[t].of # h \/ ~Live(lock[t])
        /\ lock' \in {lock, Without({t} \cap Lapsed)}
        /\ reply' = <<>>
  /\ UNCHANGED <<subscribed, entry, list, queue, issued>>

-----------------------------------------------------------------------------
(* Cached values *)

Get ==
  /\ entry' \in {entry, IF Live(entry) THEN entry ELSE NoEntry}
  /\ reply' = When(Live(entry), entry.of)
  /\ UNCHANGED <<subscribed, lock, list, queue, issued>>

SetValue(v, ttl) ==
  /\ entry' = Of(v, ttl)
  /\ reply' = <<>>
  /\ UNCHANGED <<subscribed, lock, list, queue, issued>>

SetIfNotExists(v, ttl) ==
  /\ \/ /\ ~Live(entry)
        /\ entry' = Of(v, ttl)
        /\ reply' = <<v>>
     \/ /\ Live(entry) \/ (Blocks /\ entry # NoEntry)
        /\ entry' = entry
        /\ reply' = <<>>
  /\ UNCHANGED <<subscribed, lock, list, queue, issued>>

Delete ==
  /\ entry' = NoEntry
  /\ reply' = <<>>
  /\ UNCHANGED <<subscribed, lock, list, queue, issued>>

-----------------------------------------------------------------------------
(* Lists and queues keep the newest.  Without a time to live an append keeps  *)
(* the one the list has, or takes it away.                                    *)

Items == IF Live(list) THEN list.of ELSE <<>>

Trimmed(s, size) == IF size = 0 THEN s ELSE Newest(s, size)

AppendToList(v, size, ttl) ==
  /\ \E left \in {ttl} \cup (IF ttl = Never /\ Live(list) THEN {list.left} ELSE {}) :
       list' = Of(Trimmed(Append(Items, v), size), left)
  /\ reply' = <<>>
  /\ UNCHANGED <<subscribed, lock, entry, queue, issued>>

GetList ==
  /\ list' \in {list, IF Live(list) THEN list ELSE NoList}
  /\ reply' = Items
  /\ UNCHANGED <<subscribed, lock, entry, queue, issued>>

(* Stale entries may be dropped, or served. *)
Enqueue(v, ttl, size) ==
  /\ \E kept \in {queue, SelectSeq(queue, Live)} :
       /\ queue' = Newest(Append(kept, Of(v, ttl)), size)
       /\ reply' = <<Len(queue')>>
  /\ UNCHANGED <<subscribed, lock, entry, list, issued>>

Dequeue ==
  /\ \E kept \in {queue, SelectSeq(queue, Live)} :
       IF kept = <<>> THEN queue' = kept /\ reply' = <<>>
                      ELSE queue' = Tail(kept) /\ reply' = <<Head(kept).of>>
  /\ UNCHANGED <<subscribed, lock, entry, list, issued>>

QueueDepth ==
  /\ \E kept \in {queue, SelectSeq(queue, Live)} : reply' = <<Len(kept)>>
  /\ UNCHANGED <<subscribed, lock, entry, list, queue, issued>>

-----------------------------------------------------------------------------

Next ==
  \/ Tick \/ Forget \/ Disconnect
  \/ \E t \in Threads : Subscription(t) \/ ForceReleaseLock(t)
  \/ \E t \in Threads, h \in Handles :
       \/ ReleaseLock(t, h)
       \/ \E ttl \in TTLs : AcquireLock(t, h, ttl) \/ ExtendLock(t, h, ttl)
  \/ Get \/ Delete \/ GetList \/ Dequeue \/ QueueDepth
  \/ \E v \in Values, ttl \in TTLs \cup {Never} :
       \/ SetValue(v, ttl) \/ SetIfNotExists(v, ttl)
       \/ \E size \in MaxSizes \cup {0} : AppendToList(v, size, ttl)
  \/ \E v \in Values, ttl \in TTLs, size \in MaxSizes : Enqueue(v, ttl, size)

Spec == Init /\ [][Next]_vars
=============================================================================
