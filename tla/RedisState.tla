----------------------------- MODULE RedisState -----------------------------
(***************************************************************************)
(* RedisStateAdapter                                                       *)
(* (packages/chat-adapter-state-redis/src/chat_adapter_state_redis/        *)
(* __init__.py), and IoRedisStateAdapter, which differs in its tokens:     *)
(* the state of the bots of several processes in one redis server.         *)
(*                                                                         *)
(* Every operation is one command or one script, which the server runs at  *)
(* once, so each is one step of the process that calls it.  A key of the   *)
(* server runs out as a whole: that of a list or a queue with everything   *)
(* in it.  One cache key, one list and one queue stand for all of them.    *)
(***************************************************************************)
EXTENDS SharedStore

VARIABLES
  connected,      \* the processes with _connected
  subscriptions,  \* key subscriptions
  locks,          \* keys lock:{thread}
  cached,         \* a key cache:{key}
  listed,         \* a key list:{key}
  queued,         \* a key queue:{thread}, with entries that have an expiry of their own
  issued,         \* auxiliary: the tokens made so far
  reply           \* what the last operation returned, <<>> for None and False

keys == <<subscriptions, locks, cached, listed, queued>>
vars == <<now, connected, keys, issued, reply>>

NoKey  == Stamped(None, 0)
NoList == Stamped(<<>>, 0)

Init ==
  /\ now = 0
  /\ connected = {}
  /\ subscriptions = {}
  /\ locks = [t \in Threads |-> NoKey]
  /\ cached = NoKey
  /\ listed = NoList
  /\ queued = NoList
  /\ issued = {}
  /\ reply = <<>>

-----------------------------------------------------------------------------

Tick ==
  /\ now < MaxTime
  /\ now' = now + 1
  /\ UNCHANGED <<connected, keys, issued, reply>>

Connect(p) ==
  /\ connected' = connected \cup {p}
  /\ UNCHANGED <<now, keys, issued, reply>>

Disconnect(p) ==
  /\ connected' = connected \ {p}
  /\ UNCHANGED <<now, keys, issued, reply>>

(* What every operation asks for first: _ensure_connected. *)
Called(p) == p \in connected /\ UNCHANGED <<now, connected>>

Subscribe(p, t) ==
  /\ Called(p)
  /\ subscriptions' = subscriptions \cup {t}
  /\ reply' = <<>>
  /\ UNCHANGED <<locks, cached, listed, queued, issued>>

Unsubscribe(p, t) ==
  /\ Called(p)
  /\ subscriptions' = subscriptions \ {t}
  /\ reply' = <<>>
  /\ UNCHANGED <<locks, cached, listed, queued, issued>>

IsSubscribed(p, t) ==
  /\ Called(p)
  /\ reply' = When(t \in subscriptions, t)
  /\ UNCHANGED <<keys, issued>>

-----------------------------------------------------------------------------
(* Locks: SET NX PX, and scripts that compare the token first *)

AcquireLock(p, t, h, ttl) ==
  /\ Called(p)
  /\ h \notin issued
  /\ issued' = issued \cup {h}
  /\ locks' = IF Over(locks[t]) THEN [locks EXCEPT ![t] = Stamped(h, Until(ttl))] ELSE locks
  /\ reply' = When(Over(locks[t]), h)
  /\ UNCHANGED <<subscriptions, cached, listed, queued>>

ForceReleaseLock(p, t) ==
  /\ Called(p)
  /\ locks' = [locks EXCEPT ![t] = NoKey]
  /\ reply' = <<>>
  /\ UNCHANGED <<subscriptions, cached, listed, queued, issued>>

Holds(t, h) == ~Over(locks[t]) /\ locks[t].of = h

ReleaseLock(p, t, h) ==
  /\ Called(p)
  /\ locks' = IF Holds(t, h) THEN [locks EXCEPT ![t] = NoKey] ELSE locks
  /\ reply' = <<>>
  /\ UNCHANGED <<subscriptions, cached, listed, queued, issued>>

ExtendLock(p, t, h, ttl) ==
  /\ Called(p)
  /\ locks' = IF Holds(t, h) THEN [locks EXCEPT ![t].expires = Until(ttl)] ELSE locks
  /\ reply' = When(Holds(t, h), h)
  /\ UNCHANGED <<subscriptions, cached, listed, queued, issued>>

-----------------------------------------------------------------------------
(* Cached values *)

Get(p) ==
  /\ Called(p)
  /\ reply' = When(~Over(cached), cached.of)
  /\ UNCHANGED <<keys, issued>>

SetValue(p, v, ttl) ==
  /\ Called(p)
  /\ cached' = Stamped(v, Until(ttl))
  /\ reply' = <<>>
  /\ UNCHANGED <<subscriptions, locks, listed, queued, issued>>

SetIfNotExists(p, v, ttl) ==
  /\ Called(p)
  /\ cached' = IF Over(cached) THEN Stamped(v, Until(ttl)) ELSE cached
  /\ reply' = When(Over(cached), v)
  /\ UNCHANGED <<subscriptions, locks, listed, queued, issued>>

Delete(p) ==
  /\ Called(p)
  /\ cached' = NoKey
  /\ reply' = <<>>
  /\ UNCHANGED <<subscriptions, locks, listed, queued, issued>>

-----------------------------------------------------------------------------
(* Lists and queues: RPUSH, LTRIM and PEXPIRE in one script *)

Items(key) == IF Over(key) THEN <<>> ELSE key.of

Trim(s, size) == IF size # 0 /\ Len(s) > size THEN SubSeq(s, Len(s) - size + 1, Len(s)) ELSE s

(* Without a time to live the key keeps the one it has. *)
AppendToList(p, v, size, ttl) ==
  /\ Called(p)
  /\ Len(Items(listed)) < Cap
  /\ listed' = Stamped(Trim(Append(Items(listed), v), size),
                   IF ttl = Never /\ ~Over(listed) THEN listed.expires ELSE Until(ttl))
  /\ reply' = <<>>
  /\ UNCHANGED <<subscriptions, locks, cached, queued, issued>>

GetList(p) ==
  /\ Called(p)
  /\ reply' = Items(listed)
  /\ UNCHANGED <<keys, issued>>

(* The key of a queue runs out with the entry added last, but not too soon. *)
Enqueue(p, v, ttl, size) ==
  LET entries == Trim(Append(Items(queued), Stamped(v, Until(ttl))), size)
  IN  /\ Called(p)
      /\ Len(Items(queued)) < Cap
      /\ queued' = Stamped(entries, Until(IF ttl > Floor THEN ttl ELSE Floor))
      /\ reply' = <<Len(entries)>>
      /\ UNCHANGED <<subscriptions, locks, cached, listed, issued>>

(* LPOP: an empty queue has no key. *)
Dequeue(p) ==
  /\ Called(p)
  /\ IF Items(queued) = <<>>
       THEN UNCHANGED queued /\ reply' = <<>>
       ELSE /\ queued' = IF Len(queued.of) = 1 THEN NoList ELSE [queued EXCEPT !.of = Tail(@)]
            /\ reply' = <<Head(queued.of).of>>
  /\ UNCHANGED <<subscriptions, locks, cached, listed, issued>>

QueueDepth(p) ==
  /\ Called(p)
  /\ reply' = <<Len(Items(queued))>>
  /\ UNCHANGED <<keys, issued>>

-----------------------------------------------------------------------------

Connection == Tick \/ \E p \in Processes : Connect(p) \/ Disconnect(p)

Subscriptions == \E p \in Processes, t \in Threads : Subscribe(p, t) \/ Unsubscribe(p, t) \/ IsSubscribed(p, t)

Locks ==
  \E p \in Processes, t \in Threads :
    \/ ForceReleaseLock(p, t)
    \/ \E h \in Handles :
         \/ ReleaseLock(p, t, h)
         \/ \E ttl \in TTLs : AcquireLock(p, t, h, ttl) \/ ExtendLock(p, t, h, ttl)

Cache ==
  \E p \in Processes :
    \/ Get(p)
    \/ Delete(p)
    \/ \E v \in Values, ttl \in TTLs \cup {Never} : SetValue(p, v, ttl) \/ SetIfNotExists(p, v, ttl)

Lists ==
  \E p \in Processes :
    \/ GetList(p)
    \/ \E v \in Values, ttl \in TTLs \cup {Never}, size \in MaxSizes \cup {0} : AppendToList(p, v, size, ttl)

Queues ==
  \E p \in Processes :
    \/ Dequeue(p)
    \/ QueueDepth(p)
    \/ \E v \in Values, ttl \in TTLs, size \in MaxSizes : Enqueue(p, v, ttl, size)

Next == Connection \/ Subscriptions \/ Locks \/ Cache \/ Lists \/ Queues

Spec == Init /\ [][Next]_vars

-----------------------------------------------------------------------------
(***************************************************************************)
(* Properties                                                              *)
(***************************************************************************)

(* Every key has its type.                                                    *)
TypeOK ==
  /\ now \in 0..MaxTime
  /\ connected \subseteq Processes
  /\ subscriptions \subseteq Threads
  /\ locks \in [Threads -> [of : Handles \cup {None}, expires : Nat]]
  /\ cached \in StampedSet(Values \cup {None})
  /\ listed \in StampedSet(Seq(Values))
  /\ queued \in [of : Seq([of : Values, expires : Nat]), expires : Nat]
  /\ issued \subseteq Handles

Contract == INSTANCE StateContract WITH
  subscribed <- subscriptions,
  lock       <- [t \in Threads |-> Left(locks[t])],
  entry      <- Left(cached),
  list       <- Left(listed),
  queue      <- [i \in DOMAIN Items(queued) |-> Left(queued.of[i])],
  Durable    <- TRUE,
  Blocks     <- FALSE,
  Lapses     <- TRUE

(* For any processes that share the server, connected or not, the adapter is  *)
(* a store that loses nothing with a connection and forgets a queue no sooner *)
(* than its last entry runs out.                                              *)
KeepsContract == Contract!Spec

(* What makes it inductive: the key of a queue runs out no sooner than its    *)
(* last entry.                                                                *)
IndInv ==
  /\ TypeOK
  /\ queued.of # <<>> => queued.of[Len(queued.of)].expires <= queued.expires
=============================================================================
