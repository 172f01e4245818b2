---------------------------- MODULE MemoryState -----------------------------
(***************************************************************************)
(* MemoryStateAdapter                                                      *)
(* (packages/chat-adapter-state-memory/src/chat_adapter_state_memory/      *)
(* __init__.py): the state of a bot in the dictionaries of its process.    *)
(*                                                                         *)
(* An entry carries the instant at which it runs out and stays in its      *)
(* dictionary until an operation comes across it.  No operation awaits     *)
(* anything, so each is one step; the clock does not move within one.      *)
(* One cache key, one list key and one queue stand for all of them; a      *)
(* dictionary without a key is an entry of None.                           *)
(***************************************************************************)
EXTENDS Naturals, Sequences

CONSTANTS Threads, Handles, Values, TTLs, Never, MaxSizes, None,
  MaxTime,    \* the last instant (a bound)
  Cap         \* the longest list and queue (a bound)

ASSUME MemoryAssumption ==
  /\ TTLs \subseteq Nat \ {0}
  /\ Never \notin Nat
  /\ MaxSizes \subseteq Nat \ {0}
  /\ None \notin Handles \cup Values
  /\ MaxTime \in Nat /\ Cap \in Nat

VARIABLES
  now,            \* _now_ms()
  connected,      \* _connected
  subscriptions,  \* _subscriptions
  locks,          \* _locks: per thread
  cached,         \* _cache, at a key of a value
  listed,         \* _cache, at a key of a list
  queues,         \* _queues, at one thread
  issued,         \* auxiliary: the tokens made so far
  reply           \* what the last operation returned, <<>> for None and False

vars == <<now, connected, subscriptions, locks, cached, listed, queues, issued, reply>>

At(x, instant) == [of |-> x, expires |-> instant]
NoLock         == At(None, 0)
NoValue        == At(None, 0)
NoList         == At(<<>>, 0)

(* expires_at of something stored now. *)
Until(ttl) == IF ttl = Never THEN Never ELSE now + ttl

Expired(x) == x.expires # Never /\ x.expires <= now

When(yes, x) == IF yes THEN <<x>> ELSE <<>>

Init ==
  /\ now = 0
  /\ connected = FALSE
  /\ subscriptions = {}
  /\ locks = [t \in Threads |-> NoLock]
  /\ cached = NoValue
  /\ listed = NoList
  /\ queues = <<>>
  /\ issued = {}
  /\ reply = <<>>

-----------------------------------------------------------------------------

Tick ==
  /\ now < MaxTime
  /\ now' = now + 1
  /\ UNCHANGED <<connected, subscriptions, locks, cached, listed, queues, issued, reply>>

Connect ==
  /\ connected' = TRUE
  /\ UNCHANGED <<now, subscriptions, locks, cached, listed, queues, issued, reply>>

(* The cache is not cleared. *)
Disconnect ==
  /\ connected' = FALSE
  /\ subscriptions' = {}
  /\ locks' = [t \in Threads |-> NoLock]
  /\ queues' = <<>>
  /\ UNCHANGED <<now, cached, listed, issued, reply>>

Subscribe(t) ==
  /\ connected
  /\ subscriptions' = subscriptions \cup {t}
  /\ reply' = <<>>
  /\ UNCHANGED <<now, connected, locks, cached, listed, queues, issued>>

Unsubscribe(t) ==
  /\ connected
  /\ subscriptions' = subscriptions \ {t}
  /\ reply' = <<>>
  /\ UNCHANGED <<now, connected, locks, cached, listed, queues, issued>>

IsSubscribed(t) ==
  /\ connected
  /\ reply' = When(t \in subscriptions, t)
  /\ UNCHANGED <<now, connected, subscriptions, locks, cached, listed, queues, issued>>

-----------------------------------------------------------------------------
(***************************************************************************)
(* Locks                                                                   *)
(***************************************************************************)

CleanExpiredLocks == [t \in Threads |-> IF Expired(locks[t]) THEN NoLock ELSE locks[t]]

(* Mutant: a lock is free only when it was removed. *)
AcquireRemoved(t, h, ttl) ==
  LET free == locks[t] = NoLock
  IN  /\ connected
      /\ h \notin issued
      /\ issued' = issued \cup {h}
      /\ locks' = IF free THEN [locks EXCEPT ![t] = At(h, Until(ttl))] ELSE locks
      /\ reply' = When(free, h)
      /\ UNCHANGED <<now, connected, subscriptions, cached, listed, queues>>

AcquireLock(t, h, ttl) ==
  LET left == CleanExpiredLocks
      free == Expired(left[t])
  IN  /\ connected
      /\ h \notin issued
      /\ issued' = issued \cup {h}
      /\ locks' = IF free THEN [left EXCEPT ![t] = At(h, Until(ttl))] ELSE left
      /\ reply' = When(free, h)
      /\ UNCHANGED <<now, connected, subscriptions, cached, listed, queues>>

ForceReleaseLock(t) ==
  /\ connected
  /\ locks' = [locks EXCEPT ![t] = NoLock]
  /\ reply' = <<>>
  /\ UNCHANGED <<now, connected, subscriptions, cached, listed, queues, issued>>

ReleaseLock(t, h) ==
  /\ connected
  /\ locks' = IF locks[t].of = h THEN [locks EXCEPT ![t] = NoLock] ELSE locks
  /\ reply' = <<>>
  /\ UNCHANGED <<now, connected, subscriptions, cached, listed, queues, issued>>

(* At the instant it expires a lock can be extended, though it is free for    *)
(* others.                                                                    *)
ExtendLock(t, h, ttl) ==
  /\ connected
  /\ \/ /\ locks[t].of # h
        /\ UNCHANGED locks
        /\ reply' = <<>>
     \/ /\ locks[t].of = h
        /\ locks[t].expires < now
        /\ locks' = [locks EXCEPT ![t] = NoLock]
        /\ reply' = <<>>
     \/ /\ locks[t].of = h
        /\ locks[t].expires >= now
        /\ locks' = [locks EXCEPT ![t].expires = Until(ttl)]
        /\ reply' = <<h>>
  /\ UNCHANGED <<now, connected, subscriptions, cached, listed, queues, issued>>

-----------------------------------------------------------------------------
(***************************************************************************)
(* Cached values                                                           *)
(***************************************************************************)

Get ==
  /\ connected
  /\ cached' = IF Expired(cached) THEN NoValue ELSE cached
  /\ reply' = When(~Expired(cached), cached.of)
  /\ UNCHANGED <<now, connected, subscriptions, locks, listed, queues, issued>>

SetValue(v, ttl) ==
  /\ connected
  /\ cached' = At(v, Until(ttl))
  /\ reply' = <<>>
  /\ UNCHANGED <<now, connected, subscriptions, locks, listed, queues, issued>>

SetIfNotExists(v, ttl) ==
  /\ connected
  /\ cached' = IF Expired(cached) THEN At(v, Until(ttl)) ELSE cached
  /\ reply' = When(Expired(cached), v)
  /\ UNCHANGED <<now, connected, subscriptions, locks, listed, queues, issued>>

Delete ==
  /\ connected
  /\ cached' = NoValue
  /\ reply' = <<>>
  /\ UNCHANGED <<now, connected, subscriptions, locks, listed, queues, issued>>

-----------------------------------------------------------------------------
(***************************************************************************)
(* Lists and queues                                                        *)
(***************************************************************************)

Newest(s, n) == IF Len(s) > n THEN SubSeq(s, Len(s) - n + 1, Len(s)) ELSE s

(* Mutant: the first value is stored by itself, not in a list. *)
AppendBare(v, size, ttl) ==
  LET items == IF Expired(listed) THEN <<>> ELSE listed.of
  IN  /\ connected
      /\ Len(items) < Cap
      /\ listed' = At(IF items = <<>> THEN v ELSE Newest(Append(items, v), size), Until(ttl))
      /\ reply' = <<>>
      /\ UNCHANGED <<now, connected, subscriptions, locks, cached, queues, issued>>

(* max_length is optional: 0 stands for none. *)
AppendToList(v, size, ttl) ==
  LET items == IF Expired(listed) THEN <<>> ELSE listed.of
      longer == Append(items, v)
  IN  /\ connected
      /\ Len(items) < Cap
      /\ listed' = At(IF size = 0 THEN longer ELSE Newest(longer, size), Until(ttl))
      /\ reply' = <<>>
      /\ UNCHANGED <<now, connected, subscriptions, locks, cached, queues, issued>>

GetList ==
  /\ connected
  /\ listed' = IF Expired(listed) THEN NoList ELSE listed
  /\ reply' = IF Expired(listed) THEN <<>> ELSE listed.of
  /\ UNCHANGED <<now, connected, subscriptions, locks, cached, queues, issued>>

Enqueue(v, ttl, size) ==
  /\ connected
  /\ Len(queues) < Cap
  /\ queues' = Newest(Append(queues, At(v, Until(ttl))), size)
  /\ reply' = <<Len(queues')>>
  /\ UNCHANGED <<now, connected, subscriptions, locks, cached, listed, issued>>

(* The expiry of an entry is not looked at. *)
Dequeue ==
  /\ connected
  /\ IF queues = <<>> THEN UNCHANGED queues /\ reply' = <<>>
                      ELSE queues' = Tail(queues) /\ reply' = <<Head(queues).of>>
  /\ UNCHANGED <<now, connected, subscriptions, locks, cached, listed, issued>>

QueueDepth ==
  /\ connected
  /\ reply' = <<Len(queues)>>
  /\ UNCHANGED <<now, connected, subscriptions, locks, cached, listed, queues, issued>>

-----------------------------------------------------------------------------

Connection == Tick \/ Connect \/ Disconnect

Subscriptions == \E t \in Threads : Subscribe(t) \/ Unsubscribe(t) \/ IsSubscribed(t)

Locks ==
  \E t \in Threads :
    \/ ForceReleaseLock(t)
    \/ \E h \in Handles :
         \/ ReleaseLock(t, h)
         \/ \E ttl \in TTLs : AcquireLock(t, h, ttl) \/ ExtendLock(t, h, ttl)

Cache ==
  \/ Get
  \/ Delete
  \/ \E v \in Values, ttl \in TTLs \cup {Never} : SetValue(v, ttl) \/ SetIfNotExists(v, ttl)

Lists ==
  \/ GetList
  \/ \E v \in Values, ttl \in TTLs \cup {Never}, size \in MaxSizes \cup {0} : AppendToList(v, size, ttl)

Queues ==
  \/ Dequeue
  \/ QueueDepth
  \/ \E v \in Values, ttl \in TTLs, size \in MaxSizes : Enqueue(v, ttl, size)

Next == Connection \/ Subscriptions \/ Locks \/ Cache \/ Lists \/ Queues

Spec == Init /\ [][Next]_vars

-----------------------------------------------------------------------------
(***************************************************************************)
(* Properties                                                              *)
(***************************************************************************)

Instants == Nat \cup {Never}

Stored(S) == [of : S, expires : Instants]

(* Every variable has its type. *)
TypeOK ==
  /\ now \in 0..MaxTime
  /\ connected \in BOOLEAN
  /\ subscriptions \subseteq Threads
  /\ locks \in [Threads -> [of : Handles \cup {None}, expires : Nat]]
  /\ cached \in Stored(Values \cup {None})
  /\ listed \in Stored(Seq(Values))
  /\ queues \in Seq(Stored(Values))
  /\ issued \subseteq Handles

(* What is left of a stored thing's time. *)
Left(x) == [of   |-> x.of,
            left |-> IF x.expires = Never THEN Never ELSE IF x.expires <= now THEN 0 ELSE x.expires - now]

Contract == INSTANCE StateContract WITH
  subscribed <- subscriptions,
  lock       <- [t \in Threads |-> Left(locks[t])],
  entry      <- Left(cached),
  list       <- Left(listed),
  queue      <- [i \in DOMAIN queues |-> Left(queues[i])],
  Durable    <- FALSE,
  Blocks     <- FALSE,
  Lapses     <- FALSE

(* Although an entry that has run out stays in its dictionary until somebody  *)
(* comes across it, no operation ever shows it: the adapter keeps the         *)
(* contract of a store whose entries run out on their own.                    *)
KeepsContract == Contract!Spec
=============================================================================
