------------------------- MODULE MemoryStateProofs --------------------------
(***************************************************************************)
(* The memory adapter keeps the contract of a store, for any threads,      *)
(* values and times to live: every step of MemoryState is a step of        *)
(* StateContract, or shows nothing.                                        *)
(***************************************************************************)
EXTENDS MemoryState, SequenceTheorems, TLAPS

USE MemoryAssumption

(* Names of the refinement mapping, for the reader. *)
Lock  == [t \in Threads |-> Left(locks[t])]
Queue == [i \in DOMAIN queues |-> Left(queues[i])]

(* The newest entries are entries, and no more than asked for. *)
LEMMA NewestIsSeq ==
  ASSUME NEW S, NEW s \in Seq(S), NEW n \in Nat
  PROVE  /\ Newest(s, n) \in Seq(S)
         /\ Len(Newest(s, n)) = IF Len(s) > n THEN n ELSE Len(s)
         /\ \A i \in 1..Len(Newest(s, n)) :
              Newest(s, n)[i] = s[IF Len(s) > n THEN i + Len(s) - n ELSE i]
<1>1. CASE Len(s) > n
  <2>1. Len(s) \in Nat /\ Len(s) - n + 1 \in Int /\ \A i \in Len(s) - n + 1 .. Len(s) : s[i] \in S
    BY <1>1, LenProperties
  <2>2. /\ SubSeq(s, Len(s) - n + 1, Len(s)) \in Seq(S)
        /\ Len(SubSeq(s, Len(s) - n + 1, Len(s))) = n
        /\ \A i \in 1..n : SubSeq(s, Len(s) - n + 1, Len(s))[i] = s[i + Len(s) - n]
    BY <1>1, <2>1, SubSeqProperties
  <2> QED
    BY <1>1, <2>2 DEF Newest
<1>2. CASE ~(Len(s) > n)
  BY <1>2 DEF Newest
<1> QED
  BY <1>1, <1>2

(* An entry stored now has all its time left. *)
LEMMA LeftOfNew ==
  ASSUME TypeOK, NEW x, NEW ttl \in TTLs \cup {Never}
  PROVE  /\ Until(ttl) \in Instants /\ (ttl # Never => Until(ttl) \in Nat)
         /\ Left(At(x, Until(ttl))) = Contract!Of(x, ttl)
         /\ ~Expired(At(x, Until(ttl)))
BY DEF TypeOK, Until, Instants, Left, At, Expired, Contract!Of

(* What has not expired is what has time left. *)
LEMMA ExpiredIsLapsed ==
  ASSUME TypeOK, NEW x, x.expires \in Instants
  PROVE  Contract!Live(Left(x)) <=> ~Expired(x)
BY DEF TypeOK, Instants, Left, Expired, Contract!Live

-----------------------------------------------------------------------------

(* Everything the adapter stores has its type. *)
THEOREM TypeCorrect ==
  Spec => []TypeOK
<1>1. Init => TypeOK
  <2>1. <<>> \in Seq(Values) /\ <<>> \in Seq(Stored(Values))
    BY EmptySeq
  <2>2. /\ NoLock \in [of : Handles \cup {None}, expires : Nat]
        /\ NoValue \in Stored(Values \cup {None})
        /\ NoList \in Stored(Seq(Values))
    BY <2>1 DEF NoLock, NoValue, NoList, At, Stored, Instants
  <2>3. ASSUME Init PROVE now \in 0..MaxTime /\ connected \in BOOLEAN
    <3>1. 0 \in 0..MaxTime
      BY DEF MemoryAssumption
    <3> QED
      BY <2>3, <3>1, Zenon DEF Init
  <2>4. ASSUME Init PROVE locks \in [Threads -> [of : Handles \cup {None}, expires : Nat]]
    BY <2>2, <2>4 DEF Init
  <2> QED
    BY <2>1, <2>2, <2>3, <2>4 DEF Init, TypeOK
<1>2. TypeOK /\ [Next]_vars => TypeOK'
  <2> SUFFICES ASSUME TypeOK, [Next]_vars PROVE TypeOK'
    OBVIOUS
  <2>1. CASE UNCHANGED vars
    BY <2>1 DEF TypeOK, vars, Stored, Instants
  <2>2. CASE Connection
    <3>1. CASE Tick
      BY <3>1 DEF TypeOK, Tick, Stored, Instants
    <3>2. CASE Connect
      BY <3>2 DEF TypeOK, Connect, Stored, Instants
    <3>3. CASE Disconnect
      <4>1. <<>> \in Seq(Stored(Values)) /\ NoLock \in [of : Handles \cup {None}, expires : Nat]
        BY EmptySeq DEF NoLock, At
      <4> QED
        BY <3>3, <4>1 DEF TypeOK, Disconnect, Stored, Instants
    <3> QED
      BY <2>2, <3>1, <3>2, <3>3 DEF Connection
  <2>3. CASE Subscriptions
    BY <2>3 DEF TypeOK, Subscriptions, Subscribe, Unsubscribe, IsSubscribed, Stored, Instants
  <2>4. CASE Locks
    <3>1. PICK t \in Threads :
            \/ ForceReleaseLock(t)
            \/ \E h \in Handles : \/ ReleaseLock(t, h)
                                  \/ \E ttl \in TTLs : AcquireLock(t, h, ttl) \/ ExtendLock(t, h, ttl)
      BY <2>4 DEF Locks
    <3>2. UNCHANGED <<now, connected, subscriptions, cached, listed, queues>>
      BY <3>1 DEF ForceReleaseLock, ReleaseLock, AcquireLock, ExtendLock
    <3>3. issued' \subseteq Handles
      BY <3>1 DEF TypeOK, ForceReleaseLock, ReleaseLock, AcquireLock, ExtendLock
    <3>4. locks' \in [Threads -> [of : Handles \cup {None}, expires : Nat]]
      <4>1. \A ttl \in TTLs : Until(ttl) \in Nat
        BY LeftOfNew
      <4>2. NoLock \in [of : Handles \cup {None}, expires : Nat]
        BY DEF NoLock, At
      <4>3. CleanExpiredLocks \in [Threads -> [of : Handles \cup {None}, expires : Nat]]
        BY <4>2 DEF TypeOK, CleanExpiredLocks
      <4>4. \A h \in Handles, ttl \in TTLs : At(h, Until(ttl)) \in [of : Handles \cup {None}, expires : Nat]
        BY <4>1 DEF At
      <4>5. CASE ForceReleaseLock(t) \/ \E h \in Handles : ReleaseLock(t, h)
        BY <4>2, <4>5 DEF TypeOK, ForceReleaseLock, ReleaseLock
      <4>6. ASSUME NEW h \in Handles, NEW ttl \in TTLs, AcquireLock(t, h, ttl)
            PROVE  locks' \in [Threads -> [of : Handles \cup {None}, expires : Nat]]
        BY <4>3, <4>4, <4>6 DEF AcquireLock
      <4>7. ASSUME NEW h \in Handles, NEW ttl \in TTLs, ExtendLock(t, h, ttl)
            PROVE  locks' \in [Threads -> [of : Handles \cup {None}, expires : Nat]]
        BY <4>1, <4>2, <4>7 DEF TypeOK, ExtendLock
      <4> QED
        BY <3>1, <4>5, <4>6, <4>7
    <3> QED
      BY <3>2, <3>3, <3>4 DEF TypeOK, Stored, Instants
  <2>5. CASE Cache
    <3>1. /\ UNCHANGED <<now, connected, subscriptions, locks, listed, queues, issued>>
          /\ \/ cached' \in {cached, NoValue}
             \/ \E v \in Values, ttl \in TTLs \cup {Never} : cached' = At(v, Until(ttl))
      BY <2>5 DEF Cache, Get, Delete, SetValue, SetIfNotExists
    <3>2. NoValue \in Stored(Values \cup {None})
      BY DEF NoValue, At, Stored, Instants
    <3>3. \A v \in Values, ttl \in TTLs \cup {Never} : At(v, Until(ttl)) \in Stored(Values \cup {None})
      BY LeftOfNew DEF At, Stored
    <3> QED
      BY <3>1, <3>2, <3>3 DEF TypeOK, Stored, Instants
  <2>6. CASE Lists
    <3>1. NoList \in Stored(Seq(Values))
      BY EmptySeq DEF NoList, At, Stored, Instants
    <3>2. CASE GetList
      BY <3>1, <3>2 DEF TypeOK, GetList, Stored, Instants
    <3>3. ASSUME NEW v \in Values, NEW ttl \in TTLs \cup {Never}, NEW size \in MaxSizes \cup {0},
                 AppendToList(v, size, ttl)
          PROVE  TypeOK'
      <4> DEFINE items == IF Expired(listed) THEN <<>> ELSE listed.of
      <4>1. Append(items, v) \in Seq(Values)
        BY DEF TypeOK, Stored
      <4>2. Newest(Append(items, v), size) \in Seq(Values) /\ Until(ttl) \in Instants
        BY <4>1, NewestIsSeq, LeftOfNew
      <4>3. listed' \in Stored(Seq(Values))
        BY <3>3, <4>1, <4>2 DEF AppendToList, At, Stored
      <4> QED
        BY <3>3, <4>3 DEF TypeOK, AppendToList, Stored, Instants
    <3> QED
      BY <2>6, <3>2, <3>3 DEF Lists
  <2>7. CASE Queues
    <3>1. CASE Dequeue
      <4>1. queues' \in Seq(Stored(Values))
        <5>1. CASE queues = <<>>
          BY <3>1, <5>1 DEF TypeOK, Dequeue
        <5>2. CASE queues # <<>>
          <6>1. queues \in Seq(Stored(Values)) /\ queues' = Tail(queues)
            BY <3>1, <5>2 DEF TypeOK, Dequeue
          <6> QED
            BY <5>2, <6>1, HeadTailProperties
        <5> QED
          BY <5>1, <5>2
      <4> QED
        BY <3>1, <4>1 DEF TypeOK, Dequeue, Stored, Instants
    <3>2. CASE QueueDepth
      BY <3>2 DEF TypeOK, QueueDepth, Stored, Instants
    <3>3. ASSUME NEW v \in Values, NEW ttl \in TTLs, NEW size \in MaxSizes, Enqueue(v, ttl, size)
          PROVE  TypeOK'
      <4>1. At(v, Until(ttl)) \in Stored(Values)
        BY LeftOfNew DEF At, Stored
      <4>2. Append(queues, At(v, Until(ttl))) \in Seq(Stored(Values))
        BY <4>1 DEF TypeOK
      <4>3. queues' \in Seq(Stored(Values))
        BY <3>3, <4>2, NewestIsSeq DEF Enqueue
      <4> QED
        BY <3>3, <4>3 DEF TypeOK, Enqueue, Stored, Instants
    <3> QED
      BY <2>7, <3>1, <3>2, <3>3 DEF Queues
  <2> QED
    BY <2>1, <2>2, <2>3, <2>4, <2>5, <2>6, <2>7 DEF Next
<1> QED
  BY <1>1, <1>2, PTL DEF Spec

-----------------------------------------------------------------------------

(* What the contract sees of queues is a sequence as long as the queue, in    *)
(* which every entry stands where it stood.                                   *)
Seen == [of : Values, left : Nat \cup {Never}]

LEMMA LeftIsSeen ==
  ASSUME TypeOK, NEW x \in Stored(Values)
  PROVE  Left(x) \in Seen
BY DEF TypeOK, Stored, Instants, Left, Seen

LEMMA QueueIsSeq ==
  ASSUME TypeOK
  PROVE  /\ Queue \in Seq(Seen)
         /\ Len(Queue) = Len(queues)
         /\ \A i \in 1..Len(queues) : Queue[i] = Left(queues[i])
<1>1. /\ queues \in Seq(Stored(Values)) /\ Len(queues) \in Nat /\ DOMAIN queues = 1..Len(queues)
      /\ \A i \in 1..Len(queues) : queues[i] \in Stored(Values)
  BY LenProperties, ElementOfSeq DEF TypeOK
<1>2. \A i \in 1..Len(queues) : Left(queues[i]) \in Seen
  BY <1>1, LeftIsSeen
<1>3. Queue = [i \in 1..Len(queues) |-> Left(queues[i])]
  BY <1>1 DEF Queue
<1> QED
  BY <1>1, <1>2, <1>3

LEMMA ContractNewest ==
  ASSUME NEW s, NEW n
  PROVE  Contract!Newest(s, n) = Newest(s, n)
BY DEF Contract!Newest, Newest

LEMMA StartsAsContract ==
  Init => Contract!Init
<1> SUFFICES ASSUME Init PROVE Contract!Init
  OBVIOUS
<1>1. /\ Left(NoLock) = Contract!NoLock
      /\ Left(NoValue) = Contract!NoEntry
      /\ Left(NoList) = Contract!NoList
  <2>1. now = 0 /\ Never # 0
    BY DEF Init, MemoryAssumption
  <2> QED
    BY <2>1 DEF NoLock, NoValue, NoList, At, Left, Contract!NoLock, Contract!NoEntry, Contract!NoList, Contract!Of
<1>2. [t \in Threads |-> Left(locks[t])] = [t \in Threads |-> Contract!NoLock]
  BY <1>1 DEF Init
<1>3. [i \in DOMAIN queues |-> Left(queues[i])] = <<>>
  <2>1. queues = <<>>
    BY DEF Init
  <2> QED
    BY <2>1
<1> QED
  BY <1>1, <1>2, <1>3 DEF Init, Contract!Init

-----------------------------------------------------------------------------
(***************************************************************************)
(* Every operation is the contract's                                       *)
(***************************************************************************)

(* What is left at an instant. *)
LeftAt(x, instant) ==
  [of   |-> x.of,
   left |-> IF x.expires = Never THEN Never ELSE IF x.expires <= instant THEN 0 ELSE x.expires - instant]

LEMMA TickIsContract ==
  ASSUME TypeOK, Tick PROVE Contract!Tick
<1>1. now \in Nat /\ now' = now + 1
  BY DEF TypeOK, Tick
<1>2. ASSUME NEW x, x.expires \in Instants
      PROVE  LeftAt(x, now + 1) = Contract!Aged(LeftAt(x, now))
  <2>1. CASE x.expires = Never
    BY <2>1 DEF LeftAt, Contract!Aged, Contract!Of
  <2>2. CASE x.expires \in Nat /\ x.expires <= now
    <3>1. LeftAt(x, now) = [of |-> x.of, left |-> 0] /\ LeftAt(x, now + 1) = [of |-> x.of, left |-> 0]
      BY <1>1, <2>2 DEF LeftAt
    <3> QED
      BY <3>1 DEF Contract!Aged
  <2>3. CASE x.expires \in Nat /\ x.expires > now
    <3>1. /\ LeftAt(x, now) = [of |-> x.of, left |-> x.expires - now]
          /\ LeftAt(x, now + 1) = [of |-> x.of, left |-> x.expires - now - 1]
      BY <1>1, <2>3 DEF LeftAt
    <3>2. x.expires - now \in Nat \ {0}
      BY <1>1, <2>3
    <3> QED
      BY <3>1, <3>2 DEF Contract!Aged, Contract!Of
  <2> QED
    BY <1>2, <2>1, <2>2, <2>3, <1>1 DEF Instants
<1>3. \A x : Left(x) = LeftAt(x, now)
  BY DEF Left, LeftAt
<1>4. [t \in Threads |-> Left(locks[t])]' = [t \in Threads |-> Contract!Aged(Lock[t])]
  <2>1. \A t \in Threads : locks[t].expires \in Instants
    BY DEF TypeOK, Instants
  <2>2. \A t \in Threads : Left(locks[t])' = Contract!Aged(Left(locks[t]))
    BY <1>1, <1>2, <1>3, <2>1 DEF Tick, Left, LeftAt
  <2> QED
    BY <2>2 DEF Lock
<1>5. Left(cached)' = Contract!Aged(Left(cached)) /\ Left(listed)' = Contract!Aged(Left(listed))
  <2>1. cached.expires \in Instants /\ listed.expires \in Instants
    BY DEF TypeOK, Stored
  <2> QED
    BY <1>1, <1>2, <1>3, <2>1 DEF Tick, Left, LeftAt
<1>6. [i \in DOMAIN queues |-> Left(queues[i])]' = [i \in DOMAIN Queue |-> Contract!Aged(Queue[i])]
  <2>1. \A i \in DOMAIN queues : queues[i].expires \in Instants
    <3>1. DOMAIN queues = 1..Len(queues) /\ \A i \in 1..Len(queues) : queues[i] \in Stored(Values)
      BY LenProperties, ElementOfSeq DEF TypeOK
    <3> QED
      BY <3>1 DEF Stored
  <2>2. \A i \in DOMAIN queues : Left(queues[i])' = Contract!Aged(Left(queues[i]))
    BY <1>1, <1>2, <1>3, <2>1 DEF Tick, Left, LeftAt
  <2> QED
    BY <2>2 DEF Queue, Tick
<1> QED
  BY <1>4, <1>5, <1>6 DEF Tick, Contract!Tick, Lock, Queue

LEMMA DisconnectIsContract ==
  ASSUME TypeOK, Disconnect PROVE Contract!Disconnect
<1>1. Left(NoLock)' = Contract!NoLock
  <2>1. now' \in Nat /\ Never # 0
    BY DEF TypeOK, Disconnect, MemoryAssumption
  <2> QED
    BY <2>1 DEF NoLock, At, Left, Contract!NoLock, Contract!Of
<1>2. [t \in Threads |-> Left(locks[t])]' = [t \in Threads |-> Contract!NoLock]
  BY <1>1 DEF Disconnect
<1>3. [i \in DOMAIN queues |-> Left(queues[i])]' = <<>>
  <2>1. queues' = <<>>
    BY DEF Disconnect
  <2> QED
    BY <2>1
<1>4. Left(cached)' = Left(cached) /\ Left(listed)' = Left(listed)
  BY DEF Disconnect, Left
<1> QED
  BY <1>2, <1>3, <1>4 DEF Disconnect, Contract!Disconnect

LEMMA Untouched ==
  ASSUME UNCHANGED now
  PROVE  /\ UNCHANGED locks => UNCHANGED Lock
         /\ UNCHANGED cached => UNCHANGED Left(cached)
         /\ UNCHANGED listed => UNCHANGED Left(listed)
         /\ UNCHANGED queues => UNCHANGED Queue
         /\ \A x : Left(x)' = Left(x)
BY DEF Lock, Queue, Left

LEMMA SubscriptionIsContract ==
  ASSUME TypeOK, NEW t \in Threads, Subscribe(t) \/ Unsubscribe(t) \/ IsSubscribed(t)
  PROVE  Contract!Subscription(t)
<1>1. UNCHANGED <<now, locks, cached, listed, queues, issued>>
  BY DEF Subscribe, Unsubscribe, IsSubscribed
<1>2. UNCHANGED <<Lock, Left(cached), Left(listed), Queue, issued>>
  BY <1>1, Untouched
<1> QED
  BY <1>2 DEF Subscribe, Unsubscribe, IsSubscribed, Contract!Subscription, When, Contract!When, Lock, Queue

LEMMA NoLockIsContract ==
  ASSUME TypeOK
  PROVE  Left(NoLock) = Contract!NoLock /\ Expired(NoLock)
<1>1. now \in Nat /\ Never # 0
  BY DEF TypeOK, MemoryAssumption
<1> QED
  BY <1>1 DEF NoLock, At, Left, Expired, Contract!NoLock, Contract!Of

LEMMA AcquireLockIsContract ==
  ASSUME TypeOK, NEW t \in Threads, NEW h \in Handles, NEW ttl \in TTLs, AcquireLock(t, h, ttl)
  PROVE  Contract!AcquireLock(t, h, ttl)
<1>1. UNCHANGED <<now, subscriptions, cached, listed, queues>>
  BY DEF AcquireLock
<1>2. UNCHANGED <<Left(cached), Left(listed), Queue>>
  BY <1>1, Untouched
<1>3. \A u \in Threads : Contract!Live(Left(locks[u])) <=> ~Expired(locks[u])
  BY ExpiredIsLapsed DEF TypeOK, Instants
<1>4. Expired(CleanExpiredLocks[t]) <=> Expired(locks[t])
  BY NoLockIsContract DEF CleanExpiredLocks
<1>5. \A u \in Threads :
        Left(CleanExpiredLocks[u]) = IF Contract!Live(Left(locks[u])) THEN Left(locks[u]) ELSE Contract!NoLock
  BY <1>3, NoLockIsContract DEF CleanExpiredLocks
<1>6. PICK forgotten \in SUBSET Contract!Lapsed : forgotten = Contract!Lapsed
  OBVIOUS
<1>7. Contract!Without(forgotten) = [u \in Threads |-> Left(CleanExpiredLocks[u])]
  <2>1. \A u \in Threads : u \in forgotten <=> ~Contract!Live(Left(locks[u]))
    BY <1>6 DEF Contract!Lapsed
  <2> QED
    BY <1>5, <2>1 DEF Contract!Without
<1>8. Lock' = IF Contract!Live(Left(locks[t])) THEN Contract!Without(forgotten)
                 ELSE [Contract!Without(forgotten) EXCEPT ![t] = Contract!Of(h, ttl)]
  <2>1. CASE Expired(locks[t])
    <3>1. locks' = [CleanExpiredLocks EXCEPT ![t] = At(h, Until(ttl))]
      BY <1>4, <2>1 DEF AcquireLock
    <3>2. Lock' = [u \in Threads |-> Left(locks'[u])]
      BY <1>1, Untouched DEF Lock
    <3>3. Left(At(h, Until(ttl))) = Contract!Of(h, ttl)
      BY LeftOfNew
    <3>4. CleanExpiredLocks = [u \in Threads |-> CleanExpiredLocks[u]]
      BY DEF CleanExpiredLocks
    <3>5. Lock' = [Contract!Without(forgotten) EXCEPT ![t] = Contract!Of(h, ttl)]
      BY <1>7, <3>1, <3>2, <3>3, <3>4
    <3> QED
      BY <1>3, <2>1, <3>5
  <2>2. CASE ~Expired(locks[t])
    <3>1. locks' = CleanExpiredLocks
      BY <1>4, <2>2 DEF AcquireLock
    <3>2. Lock' = [u \in Threads |-> Left(locks'[u])]
      BY <1>1, Untouched DEF Lock
    <3> QED
      BY <1>3, <1>7, <2>2, <3>1, <3>2
  <2> QED
    BY <2>1, <2>2
<1>9. reply' = Contract!When(~Contract!Live(Left(locks[t])), h)
  BY <1>3, <1>4 DEF AcquireLock, When, Contract!When
<1> QED
  BY <1>1, <1>2, <1>8, <1>9 DEF AcquireLock, Contract!AcquireLock, Lock, Queue

LEMMA ReleaseIsContract ==
  ASSUME TypeOK, NEW t \in Threads
  PROVE  /\ ForceReleaseLock(t) => Contract!ForceReleaseLock(t)
         /\ \A h \in Handles : ReleaseLock(t, h) => Contract!ReleaseLock(t, h)
<1>1. ASSUME UNCHANGED now, locks' = [locks EXCEPT ![t] = NoLock]
      PROVE  Lock' = Contract!Without({t})
  <2>1. Lock' = [u \in Threads |-> Left(locks'[u])]
    BY <1>1, Untouched DEF Lock
  <2>2. \A u \in Threads : locks'[u] = IF u = t THEN NoLock ELSE locks[u]
    BY <1>1 DEF TypeOK
  <2> QED
    BY <2>1, <2>2, NoLockIsContract DEF Contract!Without
<1>2. ASSUME ForceReleaseLock(t)
      PROVE  Contract!ForceReleaseLock(t)
  <2>1. UNCHANGED <<Left(cached), Left(listed), Queue>>
    BY <1>2, Untouched DEF ForceReleaseLock
  <2> QED
    BY <1>1, <1>2, <2>1 DEF ForceReleaseLock, Contract!ForceReleaseLock, Lock, Queue
<1>3. ASSUME NEW h \in Handles, ReleaseLock(t, h)
      PROVE  Contract!ReleaseLock(t, h)
  <2>1. UNCHANGED <<Left(cached), Left(listed), Queue>>
    BY <1>3, Untouched DEF ReleaseLock
  <2>2. Lock[t].of = locks[t].of
    BY DEF Lock, Left
  <2>3. Lock' = IF Lock[t].of = h THEN Contract!Without({t}) ELSE Lock
    <3>1. CASE locks[t].of = h
      BY <1>1, <1>3, <2>2, <3>1 DEF ReleaseLock
    <3>2. CASE locks[t].of # h
      BY <1>3, <2>2, <3>2, Untouched DEF ReleaseLock
    <3> QED
      BY <3>1, <3>2
  <2> QED
    BY <1>3, <2>1, <2>3 DEF ReleaseLock, Contract!ReleaseLock, Lock, Queue
<1> QED
  BY <1>2, <1>3

LEMMA ExtendLockIsContract ==
  ASSUME TypeOK, NEW t \in Threads, NEW h \in Handles, NEW ttl \in TTLs, ExtendLock(t, h, ttl)
  PROVE  Contract!ExtendLock(t, h, ttl)
<1>1. UNCHANGED <<now, subscriptions, cached, listed, queues, issued>>
  BY DEF ExtendLock
<1>2. UNCHANGED <<Left(cached), Left(listed), Queue>>
  BY <1>1, Untouched
<1>3. \A u \in Threads : Lock[u] = Left(locks[u]) /\ Lock[u].of = locks[u].of
  BY DEF Lock, Left
<1>4. Lock' = [u \in Threads |-> Left(locks'[u])]
  BY <1>1, Untouched DEF Lock
<1>5. CASE locks[t].of # h
  <2>1. UNCHANGED Lock /\ reply' = <<>>
    BY <1>1, <1>5, Untouched DEF ExtendLock
  <2> QED
    BY <1>1, <1>2, <1>3, <1>5, <2>1 DEF Contract!ExtendLock, Lock, Queue
<1>6. CASE locks[t].of = h /\ locks[t].expires < now
  <2>1. locks' = [locks EXCEPT ![t] = NoLock] /\ reply' = <<>>
    BY <1>6 DEF ExtendLock, TypeOK
  <2>2. Expired(locks[t])
    BY <1>6 DEF TypeOK, Expired
  <2>3. ~Contract!Live(Left(locks[t]))
    BY <2>2, ExpiredIsLapsed DEF TypeOK, Instants
  <2>4. {t} \cap Contract!Lapsed = {t}
    BY <2>3 DEF Contract!Lapsed
  <2>5. \A u \in Threads : locks'[u] = IF u = t THEN NoLock ELSE locks[u]
    BY <2>1 DEF TypeOK
  <2>6. Lock' = Contract!Without({t} \cap Contract!Lapsed)
    BY <1>4, <2>4, <2>5, NoLockIsContract DEF Contract!Without
  <2> QED
    BY <1>1, <1>2, <2>1, <2>3, <2>6 DEF Contract!ExtendLock, Lock, Queue
<1>7. CASE locks[t].of = h /\ locks[t].expires >= now
  <2>1. locks' = [locks EXCEPT ![t].expires = Until(ttl)] /\ reply' = <<h>>
    BY <1>7 DEF ExtendLock, TypeOK
  <2>2. locks'[t] = At(h, Until(ttl)) /\ \A u \in Threads \ {t} : locks'[u] = locks[u]
    BY <1>7, <2>1 DEF TypeOK, At
  <2>3. Left(locks'[t]) = Contract!Of(h, ttl)
    BY <2>2, LeftOfNew
  <2>4. Lock' = [Lock EXCEPT ![t] = Contract!Of(h, ttl)]
    BY <1>4, <2>2, <2>3 DEF Lock
  <2> QED
    BY <1>1, <1>2, <1>3, <1>7, <2>1, <2>4 DEF Contract!ExtendLock, Lock, Queue
<1>8. locks[t].expires < now \/ locks[t].expires >= now
  BY DEF TypeOK
<1> QED
  BY <1>5, <1>6, <1>7, <1>8

LEMMA CacheIsContract ==
  ASSUME TypeOK
  PROVE  /\ Get => Contract!Get
         /\ Delete => Contract!Delete
         /\ \A v \in Values, ttl \in TTLs \cup {Never} :
              /\ SetValue(v, ttl) => Contract!SetValue(v, ttl)
              /\ SetIfNotExists(v, ttl) => Contract!SetIfNotExists(v, ttl)
<1>1. Contract!Live(Left(cached)) <=> ~Expired(cached)
  BY ExpiredIsLapsed DEF TypeOK, Stored
<1>2. Left(NoValue) = Contract!NoEntry
  <2>1. now \in Nat /\ Never # 0
    BY DEF TypeOK, MemoryAssumption
  <2> QED
    BY <2>1 DEF NoValue, At, Left, Contract!NoEntry, Contract!Of
<1>3. Left(cached).of = cached.of
  BY DEF Left
<1>4. ASSUME Get PROVE Contract!Get
  <2>1. UNCHANGED <<Lock, Left(listed), Queue>> /\ Left(cached)' = Left(cached')
    BY <1>4, Untouched DEF Get, Left
  <2>2. Left(cached') \in {Left(cached), IF Contract!Live(Left(cached)) THEN Left(cached) ELSE Contract!NoEntry}
    BY <1>1, <1>2, <1>4 DEF Get
  <2> QED
    BY <1>1, <1>3, <1>4, <2>1, <2>2 DEF Get, Contract!Get, When, Contract!When, Lock, Queue
<1>5. ASSUME Delete PROVE Contract!Delete
  <2>1. UNCHANGED <<Lock, Left(listed), Queue>> /\ Left(cached)' = Left(NoValue)
    BY <1>5, Untouched DEF Delete, Left
  <2> QED
    BY <1>2, <1>5, <2>1 DEF Delete, Contract!Delete, Lock, Queue
<1>6. ASSUME NEW v \in Values, NEW ttl \in TTLs \cup {Never}, SetValue(v, ttl)
      PROVE  Contract!SetValue(v, ttl)
  <2>1. UNCHANGED <<Lock, Left(listed), Queue>> /\ Left(cached)' = Left(At(v, Until(ttl)))
    BY <1>6, Untouched DEF SetValue, Left
  <2> QED
    BY <1>6, <2>1, LeftOfNew DEF SetValue, Contract!SetValue, Lock, Queue
<1>7. ASSUME NEW v \in Values, NEW ttl \in TTLs \cup {Never}, SetIfNotExists(v, ttl)
      PROVE  Contract!SetIfNotExists(v, ttl)
  <2>1. /\ UNCHANGED <<Lock, Left(listed), Queue>>
        /\ Left(cached)' = IF Expired(cached) THEN Left(At(v, Until(ttl))) ELSE Left(cached)
    BY <1>7, Untouched DEF SetIfNotExists, Left
  <2> QED
    BY <1>1, <1>7, <2>1, LeftOfNew
    DEF SetIfNotExists, Contract!SetIfNotExists, When, Contract!When, Lock, Queue
<1> QED
  BY <1>4, <1>5, <1>6, <1>7

LEMMA ListsAreContract ==
  ASSUME TypeOK
  PROVE  /\ GetList => Contract!GetList
         /\ \A v \in Values, ttl \in TTLs \cup {Never}, size \in MaxSizes \cup {0} :
              AppendToList(v, size, ttl) => Contract!AppendToList(v, size, ttl)
<1> DEFINE items == IF Expired(listed) THEN <<>> ELSE listed.of
<1>1. Contract!Live(Left(listed)) <=> ~Expired(listed)
  BY ExpiredIsLapsed DEF TypeOK, Stored
<1>2. Left(NoList) = Contract!NoList
  <2>1. now \in Nat /\ Never # 0
    BY DEF TypeOK, MemoryAssumption
  <2> QED
    BY <2>1 DEF NoList, At, Left, Contract!NoList, Contract!Of
<1>3. Contract!Items = items
  BY <1>1 DEF Contract!Items, Left
<1>4. ASSUME GetList PROVE Contract!GetList
  <2>1. /\ UNCHANGED <<Lock, Left(cached), Queue>>
        /\ Left(listed)' = IF Expired(listed) THEN Left(NoList) ELSE Left(listed)
    BY <1>4, Untouched DEF GetList, Left
  <2>2. reply' = Contract!Items
    BY <1>3, <1>4 DEF GetList
  <2> QED
    BY <1>1, <1>2, <1>4, <2>1, <2>2 DEF GetList, Contract!GetList, Lock, Queue
<1>5. ASSUME NEW v \in Values, NEW ttl \in TTLs \cup {Never}, NEW size \in MaxSizes \cup {0},
             AppendToList(v, size, ttl)
      PROVE  Contract!AppendToList(v, size, ttl)
  <2> DEFINE kept == IF size = 0 THEN Append(items, v) ELSE Newest(Append(items, v), size)
  <2>1. kept = Contract!Trimmed(Append(Contract!Items, v), size)
    BY <1>3, ContractNewest DEF Contract!Trimmed
  <2>2. UNCHANGED <<Lock, Left(cached), Queue>>
    BY <1>5, Untouched DEF AppendToList
  <2>3. listed' = At(kept, Until(ttl)) /\ now' = now
    BY <1>5 DEF AppendToList
  <2> HIDE DEF kept
  <2>4. Left(listed)' = Contract!Of(kept, ttl)
    BY <2>3, LeftOfNew, Untouched DEF Left
  <2> QED
    BY <1>5, <2>1, <2>2, <2>4 DEF AppendToList, Contract!AppendToList, Lock, Queue
<1> QED
  BY <1>4, <1>5

LEMMA DequeueIsContract ==
  ASSUME TypeOK, TypeOK', Dequeue
  PROVE  Contract!Dequeue
<1>1. UNCHANGED <<Lock, Left(cached), Left(listed)>> /\ now' = now
  BY Untouched DEF Dequeue
<1>2. Queue \in Seq(Seen) /\ Len(Queue) = Len(queues) /\ \A i \in 1..Len(queues) : Queue[i] = Left(queues[i])
  BY QueueIsSeq
<1>3. Queue' \in Seq(Seen) /\ Len(Queue') = Len(queues') /\ \A i \in 1..Len(queues') : Queue'[i] = Left(queues'[i])
  <2>1. /\ (Queue \in Seq(Seen))' /\ (Len(Queue) = Len(queues))'
        /\ (\A i \in 1..Len(queues) : Queue[i] = Left(queues[i]))'
    BY QueueIsSeq, PTL
  <2> QED
    BY <1>1, <2>1, Untouched DEF Left, Seen
<1>4. queues \in Seq(Stored(Values))
  BY DEF TypeOK
<1>5. CASE queues = <<>>
  <2>1. queues' = queues /\ reply' = <<>> /\ Queue = <<>>
    BY <1>2, <1>4, <1>5, EmptySeq DEF Dequeue
  <2> QED
    BY <1>1, <2>1, Untouched DEF Dequeue, Contract!Dequeue, Lock, Queue
<1>6. CASE queues # <<>>
  <2>1. queues' = Tail(queues) /\ reply' = <<Head(queues).of>>
    BY <1>6 DEF Dequeue
  <2>2. Queue # <<>> /\ Len(queues) \in Nat \ {0}
    BY <1>2, <1>4, <1>6, EmptySeq
  <2>3. Len(queues') = Len(queues) - 1 /\ \A i \in 1..Len(queues') : queues'[i] = queues[i + 1]
    BY <1>4, <1>6, <2>1, HeadTailProperties
  <2>4. /\ Tail(Queue) \in Seq(Seen) /\ Len(Tail(Queue)) = Len(Queue) - 1
        /\ \A i \in 1..Len(Tail(Queue)) : Tail(Queue)[i] = Queue[i + 1]
    BY <1>2, <2>2, HeadTailProperties
  <2>5. \A i \in 1..Len(queues') : i + 1 \in 1..Len(queues)
    BY <2>2, <2>3
  <2>6. \A i \in 1..Len(Queue') : Queue'[i] = Tail(Queue)[i]
    BY <1>2, <1>3, <2>3, <2>4, <2>5
  <2>7. Queue' = Tail(Queue)
    BY <1>2, <1>3, <2>3, <2>4, <2>6, SeqEqual
  <2>8. Head(Queue) = Left(Head(queues))
    BY <1>2, <2>2
  <2>9. reply' = <<Head(Queue).of>>
    BY <2>1, <2>8 DEF Left
  <2> QED
    BY <1>1, <2>2, <2>7, <2>9 DEF Dequeue, Contract!Dequeue, Lock, Queue
<1> QED
  BY <1>5, <1>6

LEMMA EnqueueIsContract ==
  ASSUME TypeOK, TypeOK',
         NEW v \in Values, NEW ttl \in TTLs, NEW size \in MaxSizes, Enqueue(v, ttl, size)
  PROVE  Contract!Enqueue(v, ttl, size)
<1> DEFINE new    == At(v, Until(ttl))
           longer == Append(queues, new)
           seen   == Append(Queue, Contract!Of(v, ttl))
<1>1. UNCHANGED <<Lock, Left(cached), Left(listed)>> /\ now' = now
  BY Untouched DEF Enqueue
<1>2. Queue \in Seq(Seen) /\ Len(Queue) = Len(queues) /\ \A i \in 1..Len(queues) : Queue[i] = Left(queues[i])
  BY QueueIsSeq
<1>3. Queue' \in Seq(Seen) /\ Len(Queue') = Len(queues') /\ \A i \in 1..Len(queues') : Queue'[i] = Left(queues'[i])
  <2>1. /\ (Queue \in Seq(Seen))' /\ (Len(Queue) = Len(queues))'
        /\ (\A i \in 1..Len(queues) : Queue[i] = Left(queues[i]))'
    BY QueueIsSeq, PTL
  <2> QED
    BY <1>1, <2>1, Untouched DEF Left, Seen
<1>4. queues \in Seq(Stored(Values)) /\ Len(queues) \in Nat
  BY LenProperties DEF TypeOK
<1>5. new \in Stored(Values) /\ Left(new) = Contract!Of(v, ttl) /\ Left(new) \in Seen /\ size \in Nat
  <2>1. new \in Stored(Values) /\ Left(new) = Contract!Of(v, ttl)
    BY LeftOfNew DEF At, Stored
  <2>2. size \in Nat
    BY DEF MemoryAssumption
  <2> QED
    BY <2>1, <2>2, LeftIsSeen
<1> HIDE DEF new
<1>6. /\ longer \in Seq(Stored(Values)) /\ Len(longer) = Len(queues) + 1
      /\ \A i \in 1..Len(longer) : longer[i] = IF i = Len(queues) + 1 THEN new ELSE queues[i]
  BY <1>4, <1>5
<1>7. /\ seen \in Seq(Seen) /\ Len(seen) = Len(queues) + 1
      /\ \A i \in 1..Len(seen) : seen[i] = IF i = Len(queues) + 1 THEN Left(new) ELSE Queue[i]
  <2>1. Append(Queue, Left(new)) \in Seq(Seen) /\ Len(Append(Queue, Left(new))) = Len(queues) + 1
    BY <1>2, <1>4, <1>5
  <2>2. \A i \in 1..Len(queues) + 1 :
          Append(Queue, Left(new))[i] = IF i = Len(queues) + 1 THEN Left(new) ELSE Queue[i]
    BY <1>2, <1>4, <1>5
  <2> QED
    BY <1>5, <2>1, <2>2
<1>8. Len(longer) = Len(seen) /\ \A i \in 1..Len(seen) : seen[i] = Left(longer[i])
  BY <1>2, <1>4, <1>6, <1>7
<1>9. queues' = Newest(longer, size) /\ reply' = <<Len(queues')>>
  BY DEF Enqueue, new
<1> HIDE DEF longer, seen
<1>10. /\ Newest(seen, size) \in Seq(Seen)
       /\ Len(Newest(seen, size)) = Len(queues')
       /\ \A i \in 1..Len(queues') : Newest(seen, size)[i] = Left(queues'[i])
  <2>1. Len(longer) \in Nat
    BY <1>4, <1>6
  <2>2. /\ Len(queues') = IF Len(longer) > size THEN size ELSE Len(longer)
        /\ \A i \in 1..Len(queues') :
             queues'[i] = longer[IF Len(longer) > size THEN i + Len(longer) - size ELSE i]
    BY <1>5, <1>6, <1>9, NewestIsSeq
  <2>3. /\ Newest(seen, size) \in Seq(Seen)
        /\ Len(Newest(seen, size)) = IF Len(longer) > size THEN size ELSE Len(longer)
        /\ \A i \in 1..Len(Newest(seen, size)) :
             Newest(seen, size)[i] = seen[IF Len(longer) > size THEN i + Len(longer) - size ELSE i]
    BY <1>5, <1>7, <1>8, NewestIsSeq
  <2>4. \A i \in 1..Len(queues') : (IF Len(longer) > size THEN i + Len(longer) - size ELSE i) \in 1..Len(seen)
    BY <1>5, <1>8, <2>1, <2>2
  <2> QED
    BY <1>8, <2>2, <2>3, <2>4
<1>11. Queue' = Newest(seen, size)
  BY <1>3, <1>10, SeqEqual
<1>12. Queue' = Contract!Newest(seen, size) /\ reply' = <<Len(Queue')>>
  BY <1>3, <1>9, <1>11, ContractNewest
<1> QED
  BY <1>1, <1>12 DEF Enqueue, Contract!Enqueue, Lock, Queue, seen

LEMMA QueueDepthIsContract ==
  ASSUME TypeOK, QueueDepth
  PROVE  Contract!QueueDepth
<1>1. UNCHANGED <<Lock, Left(cached), Left(listed), Queue>> /\ reply' = <<Len(Queue)>>
  BY QueueIsSeq, Untouched DEF QueueDepth
<1> QED
  BY <1>1 DEF QueueDepth, Contract!QueueDepth, Lock, Queue

-----------------------------------------------------------------------------

(* Although an entry that has run out stays in its dictionary until somebody  *)
(* comes across it, the adapter is a store whose entries run out on their     *)
(* own.                                                                       *)
THEOREM ContractKept ==
  Spec => KeepsContract
<1>1. Init => Contract!Init
  BY StartsAsContract
<1>2. TypeOK /\ TypeOK' /\ [Next]_vars => [Contract!Next]_(Contract!vars)
  <2> SUFFICES ASSUME TypeOK, TypeOK', [Next]_vars
               PROVE  Contract!Next \/ UNCHANGED Contract!vars
    OBVIOUS
  <2>1. CASE UNCHANGED vars \/ Connect
    <3>1. UNCHANGED <<now, subscriptions, locks, cached, listed, queues, issued, reply>>
      BY <2>1 DEF vars, Connect
    <3>2. UNCHANGED <<Lock, Left(cached), Left(listed), Queue>>
      BY <3>1, Untouched
    <3> QED
      BY <3>1, <3>2 DEF Contract!vars, Lock, Queue
  <2>2. CASE Tick \/ Disconnect
    BY <2>2, TickIsContract, DisconnectIsContract DEF Contract!Next
  <2>3. CASE Subscriptions
    BY <2>3, SubscriptionIsContract DEF Subscriptions, Contract!Next
  <2>4. CASE Locks
    <3>1. PICK t \in Threads :
            \/ ForceReleaseLock(t)
            \/ \E h \in Handles : \/ ReleaseLock(t, h)
                                  \/ \E ttl \in TTLs : AcquireLock(t, h, ttl) \/ ExtendLock(t, h, ttl)
      BY <2>4 DEF Locks
    <3>2. CASE ForceReleaseLock(t)
      BY <3>2, ReleaseIsContract DEF Contract!Next
    <3>3. ASSUME NEW h \in Handles, ReleaseLock(t, h)
          PROVE  Contract!ReleaseLock(t, h)
      BY <3>3, ReleaseIsContract
    <3>4. ASSUME NEW h \in Handles, NEW ttl \in TTLs, AcquireLock(t, h, ttl) \/ ExtendLock(t, h, ttl)
          PROVE  Contract!Next
      BY <3>4, AcquireLockIsContract, ExtendLockIsContract DEF Contract!Next
    <3> QED
      BY <3>1, <3>2, <3>3, <3>4 DEF Contract!Next
  <2>5. CASE Cache
    BY <2>5, CacheIsContract DEF Cache, Contract!Next
  <2>6. CASE Lists
    BY <2>6, ListsAreContract DEF Lists, Contract!Next
  <2>7. CASE Queues
    BY <2>7, DequeueIsContract, QueueDepthIsContract, EnqueueIsContract DEF Queues, Contract!Next
  <2> QED
    BY <2>1, <2>2, <2>3, <2>4, <2>5, <2>6, <2>7 DEF Next, Connection
<1> QED
  BY <1>1, <1>2, TypeCorrect, PTL DEF Spec, KeepsContract, Contract!Spec
=============================================================================
