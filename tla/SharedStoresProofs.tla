------------------------- MODULE SharedStoresProofs -------------------------
(***************************************************************************)
(* The stores that several processes share, for any processes, threads,    *)
(* values, times to live and lengths: what is stored has its type, both    *)
(* keep the contract of a state adapter, and the lists and queues of the   *)
(* database come out of their interleaved statements as they should.       *)
(***************************************************************************)
EXTENDS SharedStores, FiniteSetTheorems, SequenceTheorems, TLAPS

USE SharedAssumption

(* A row is stamped with an instant, and one that runs out with a number. *)
LEMMA UntilIsInstant ==
  ASSUME now \in Nat, NEW ttl \in TTLs \cup {Never}
  PROVE  Until(ttl) \in Nat \cup {Never} /\ (ttl # Never => Until(ttl) \in Nat /\ Until(ttl) > now)
BY DEF Until

(* The stores have the operators of SharedStore under names of their own. *)
LEMMA SameOperators ==
  /\ \A ttl : Pg!Until(ttl) = Until(ttl) /\ Redis!Until(ttl) = Until(ttl)
  /\ \A x : Pg!Over(x) = Over(x) /\ Redis!Over(x) = Over(x)
  /\ \A x : Pg!Left(x) = Left(x) /\ Redis!Left(x) = Left(x)
  /\ \A x, i : Pg!Stamped(x, i) = Stamped(x, i) /\ Redis!Stamped(x, i) = Stamped(x, i)
  /\ \A b, x : Pg!When(b, x) = When(b, x) /\ Redis!When(b, x) = When(b, x)
  /\ \A S : Pg!StampedSet(S) = StampedSet(S) /\ Redis!StampedSet(S) = StampedSet(S)
BY DEF Pg!Until, Redis!Until, Until, Pg!Over, Redis!Over, Over, Pg!Left, Redis!Left, Left,
       Pg!Stamped, Redis!Stamped, Stamped, Pg!When, Redis!When, When, Pg!StampedSet, Redis!StampedSet, StampedSet

-----------------------------------------------------------------------------
(***************************************************************************)
(* The rows of the database                                                *)
(***************************************************************************)

LEMMA PgStarts ==
  Pg!Init => Pg!IndInv
<1> SUFFICES ASSUME Pg!Init PROVE Pg!IndInv
  OBVIOUS
<1>1. Pg!NoRow = [of |-> None, expires |-> 0]
  BY DEF Pg!NoRow, Pg!Stamped
<1>2. taken = <<>> /\ taken \in Seq(1..MaxRows) /\ DOMAIN taken = {}
  BY EmptySeq DEF Pg!Init
<1>3. 0 \in 0..MaxTime /\ 1 \in 1..(MaxRows + 1)
  OBVIOUS
<1>4. Pg!TypeOK
  BY <1>1, <1>2, <1>3 DEF Pg!Init, Pg!TypeOK, Pg!StampedSet
<1> QED
  BY <1>2, <1>4 DEF Pg!IndInv, Pg!Init, Pg!Numbered, Pg!HandedOutOnce

(* The invariant in three parts: what is stored singly, the rows, and the    *)
(* operations under way.                                                     *)
Singly ==
  /\ now \in 0..MaxTime /\ connected \subseteq Processes /\ issued \subseteq Handles
  /\ subscriptions \subseteq Threads
  /\ locks \in [Threads -> StampedSet(Handles \cup {None})]
  /\ cached \in StampedSet(Values \cup {None}) /\ (cached = Pg!NoRow \/ cached.of \in Values)

Tables ==
  /\ listed \subseteq Pg!Rows /\ queued \subseteq {r \in Pg!Rows : r.expires # Never}
  /\ \A r, q \in listed : r.seq = q.seq => r = q
  /\ \A r, q \in queued : r.seq = q.seq => r = q
  /\ \A r \in listed, q \in queued : r.seq # q.seq
  /\ seq \in 1..(MaxRows + 1) /\ \A r \in listed \cup queued : r.seq < seq
  /\ cut \in BOOLEAN

HandedOut ==
  /\ taken \in Seq(1..MaxRows)
  /\ \A i \in DOMAIN taken : taken[i] < seq /\ \A r \in queued : r.seq # taken[i]
  /\ \A i, j \in DOMAIN taken : taken[i] = taken[j] => i = j

Under ==
  /\ pc \in [Processes -> {"idle", "clean up", "trim list", "touch list", "insert", "trim queue", "pick", "take"}]
  /\ arg \in [Processes -> TTLs \cup {Never}]
  /\ seen \in [Processes -> SUBSET (1..MaxRows)]
  /\ \A c \in Processes : (seen[c] # {}) = (pc[c] = "take")
  /\ \A c \in Processes : pc[c] = "insert" => arg[c] # Never

LEMMA PgParts ==
  Pg!IndInv <=> Singly /\ Tables /\ HandedOut /\ Under
<1>1. ASSUME Pg!IndInv PROVE Singly /\ Tables /\ HandedOut /\ Under
  <2>1. Singly
    BY <1>1 DEF Pg!IndInv, Pg!TypeOK, Pg!Numbered, Singly, Pg!StampedSet, StampedSet
  <2>2. Tables
    BY <1>1 DEF Pg!IndInv, Pg!TypeOK, Pg!Numbered, Tables
  <2>3. HandedOut
    BY <1>1 DEF Pg!IndInv, Pg!TypeOK, Pg!Numbered, Pg!HandedOutOnce, HandedOut
  <2>4. Under
    BY <1>1 DEF Pg!IndInv, Pg!TypeOK, Pg!Numbered, Under
  <2> QED
    BY <2>1, <2>2, <2>3, <2>4
<1>2. ASSUME Singly, Tables, HandedOut, Under PROVE Pg!IndInv
  <2>1. Pg!TypeOK
    <3>1. \A r, q \in listed \cup queued : r.seq = q.seq => r = q
      BY <1>2 DEF Tables
    <3> QED
      BY <1>2, <3>1 DEF Pg!TypeOK, Singly, Tables, HandedOut, Under, Pg!StampedSet, StampedSet
  <2>2. Pg!Numbered
    BY <1>2 DEF Pg!Numbered, Singly, Tables, HandedOut, Under
  <2>3. Pg!HandedOutOnce
    BY <1>2 DEF Pg!HandedOutOnce, HandedOut
  <2> QED
    BY <2>1, <2>2, <2>3 DEF Pg!IndInv
<1> QED
  BY <1>1, <1>2

LEMMA PgPartsNext ==
  Pg!IndInv' <=> Singly' /\ Tables' /\ HandedOut' /\ Under'
BY PgParts, PTL

-----------------------------------------------------------------------------

(* An operation of one statement, and the clock and the connections, leave   *)
(* the rows alone.                                                           *)
LEMMA SinglyKept ==
  ASSUME Pg!IndInv, Pg!Connection \/ Pg!Subscriptions \/ Pg!Locks \/ Pg!Cache
  PROVE  Singly'
<1>1. Singly /\ now \in Nat
  BY PgParts DEF Singly
<1>2. \A ttl \in TTLs \cup {Never} : Pg!Until(ttl) \in Nat \cup {Never}
  BY <1>1, UntilIsInstant, SameOperators
<1>3. Pg!NoRow \in StampedSet(Handles \cup {None}) /\ Pg!NoRow \in StampedSet(Values \cup {None})
  BY DEF Pg!NoRow, Pg!Stamped, StampedSet
<1>4. CASE Pg!Connection
  <2>1. UNCHANGED <<subscriptions, locks, cached, issued>> /\ now' \in 0..MaxTime /\ connected' \subseteq Processes
    <3>1. now \in 0..MaxTime /\ connected \subseteq Processes /\ MaxTime \in Nat
      BY <1>1 DEF Singly
    <3>2. CASE Pg!Tick
      BY <3>1, <3>2 DEF Pg!Tick, Pg!single
    <3>3. CASE \E c \in Processes : Pg!Connect(c) \/ Pg!Disconnect(c) \/ Pg!StatementFails(c)
      BY <3>1, <3>3 DEF Pg!Connect, Pg!Disconnect, Pg!StatementFails, Pg!single
    <3> QED
      BY <1>4, <3>2, <3>3 DEF Pg!Connection
  <2> QED
    BY <1>1, <2>1 DEF Singly, StampedSet, Pg!NoRow, Pg!Stamped
<1>5. CASE Pg!Subscriptions
  <2>1. UNCHANGED <<now, connected, locks, cached, issued>> /\ subscriptions' \subseteq Threads
    BY <1>1, <1>5 DEF Pg!Subscriptions, Pg!Subscribe, Pg!Unsubscribe, Pg!IsSubscribed, Pg!Single, Pg!Called, Pg!single, Singly
  <2> QED
    BY <1>1, <2>1 DEF Singly, StampedSet, Pg!NoRow, Pg!Stamped
<1>6. CASE Pg!Locks
  <2>1. PICK c \in Processes, t \in Threads :
          \/ Pg!ForceReleaseLock(c, t)
          \/ \E h \in Handles :
               \/ Pg!ReleaseLock(c, t, h)
               \/ \E ttl \in TTLs : Pg!AcquireLock(c, t, h, ttl) \/ Pg!ExtendLock(c, t, h, ttl)
    BY <1>6 DEF Pg!Locks
  <2>2. UNCHANGED <<now, connected, subscriptions, cached>> /\ issued' \subseteq Handles
    BY <1>1, <2>1 DEF Pg!ForceReleaseLock, Pg!ReleaseLock, Pg!AcquireLock, Pg!ExtendLock, Pg!Single, Pg!Called, Singly
  <2>3. locks' \in [Threads -> StampedSet(Handles \cup {None})]
    <3>1. \A h \in Handles, ttl \in TTLs : Pg!Stamped(h, Pg!Until(ttl)) \in StampedSet(Handles \cup {None})
      BY <1>2 DEF Pg!Stamped, StampedSet
    <3>2. locks \in [Threads -> StampedSet(Handles \cup {None})]
      BY <1>1 DEF Singly
    <3>3. CASE \/ Pg!ForceReleaseLock(c, t)
               \/ \E h \in Handles : Pg!ReleaseLock(c, t, h) \/ \E ttl \in TTLs : Pg!AcquireLock(c, t, h, ttl)
      <4>1. \/ locks' = locks \/ locks' = [locks EXCEPT ![t] = Pg!NoRow]
            \/ \E h \in Handles, ttl \in TTLs : locks' = [locks EXCEPT ![t] = Pg!Stamped(h, Pg!Until(ttl))]
        BY <3>3 DEF Pg!ForceReleaseLock, Pg!ReleaseLock, Pg!AcquireLock
      <4> QED
        BY <1>3, <3>1, <3>2, <4>1
    <3>4. ASSUME NEW h \in Handles, NEW ttl \in TTLs, Pg!ExtendLock(c, t, h, ttl)
          PROVE  locks' \in [Threads -> StampedSet(Handles \cup {None})]
      <4>1. locks' = locks \/ locks' = [locks EXCEPT ![t].expires = Pg!Until(ttl)]
        BY <3>4 DEF Pg!ExtendLock
      <4>2. [locks[t] EXCEPT !.expires = Pg!Until(ttl)] \in StampedSet(Handles \cup {None})
        BY <1>2, <3>2 DEF StampedSet
      <4> QED
        BY <3>2, <4>1, <4>2
    <3> QED
      BY <2>1, <3>3, <3>4
  <2> QED
    BY <1>1, <2>2, <2>3 DEF Singly, StampedSet, Pg!NoRow, Pg!Stamped
<1>7. CASE Pg!Cache
  <2>1. /\ UNCHANGED <<now, connected, subscriptions, locks, issued>>
        /\ \/ cached' = cached \/ cached' = Pg!NoRow
           \/ \E v \in Values, ttl \in TTLs \cup {Never} : cached' = Pg!Stamped(v, Pg!Until(ttl))
    BY <1>7 DEF Pg!Cache, Pg!Get, Pg!CleanUp, Pg!Delete, Pg!SetValue, Pg!SetIfNotExists, Pg!Single, Pg!Called, Pg!single
  <2>2. cached' \in StampedSet(Values \cup {None}) /\ (cached' = Pg!NoRow \/ cached'.of \in Values)
    BY <1>1, <1>2, <1>3, <2>1 DEF Pg!Stamped, StampedSet, Singly
  <2> QED
    BY <1>1, <2>1, <2>2 DEF Singly, StampedSet, Pg!NoRow, Pg!Stamped
<1> QED
  BY <1>4, <1>5, <1>6, <1>7

LEMMA RowsKept ==
  ASSUME Pg!IndInv, UNCHANGED <<listed, queued, seq, taken>>, cut' \in BOOLEAN
  PROVE  Tables' /\ HandedOut'
BY PgParts DEF Tables, HandedOut, Pg!Rows

(* An operation goes to another statement, or ends.                          *)
LEMMA UnderKept ==
  ASSUME Pg!IndInv, NEW c \in Processes,
         \/ UNCHANGED Pg!calls
         \/ Pg!Ends(c)
         \/ /\ UNCHANGED seen /\ pc[c] # "take"
            /\ \E s \in {"clean up", "trim list", "touch list", "trim queue", "pick"} : Pg!Goto(c, s)
            /\ arg' = arg \/ \E ttl \in TTLs \cup {Never} : arg' = [arg EXCEPT ![c] = ttl]
         \/ /\ UNCHANGED seen /\ pc[c] # "take" /\ Pg!Goto(c, "insert")
            /\ \E ttl \in TTLs : arg' = [arg EXCEPT ![c] = ttl]
         \/ /\ \E S \in SUBSET (1..MaxRows) : S # {} /\ seen' = [seen EXCEPT ![c] = S]
            /\ Pg!Goto(c, "take") /\ UNCHANGED arg
  PROVE  Under'
<1>1. Under
  BY PgParts
<1>2. CASE UNCHANGED Pg!calls
  BY <1>1, <1>2 DEF Under, Pg!calls
<1>3. CASE Pg!Ends(c)
  BY <1>1, <1>3 DEF Under, Pg!Ends, Pg!Goto
<1>4. CASE /\ UNCHANGED seen /\ pc[c] # "take"
           /\ \E s \in {"clean up", "trim list", "touch list", "trim queue", "pick"} : Pg!Goto(c, s)
           /\ arg' = arg \/ \E ttl \in TTLs \cup {Never} : arg' = [arg EXCEPT ![c] = ttl]
  <2>1. PICK s \in {"clean up", "trim list", "touch list", "trim queue", "pick"} : pc' = [pc EXCEPT ![c] = s]
    BY <1>4 DEF Pg!Goto
  <2>2. arg' = arg \/ \E ttl \in TTLs \cup {Never} : arg' = [arg EXCEPT ![c] = ttl]
    BY <1>4
  <2>3. arg' \in [Processes -> TTLs \cup {Never}] /\ \A d \in Processes \ {c} : arg'[d] = arg[d]
    <3>1. arg \in [Processes -> TTLs \cup {Never}]
      BY <1>1 DEF Under
    <3>2. CASE arg' = arg
      BY <3>1, <3>2
    <3>3. ASSUME NEW ttl \in TTLs \cup {Never}, arg' = [arg EXCEPT ![c] = ttl]
          PROVE  arg' \in [Processes -> TTLs \cup {Never}] /\ \A d \in Processes \ {c} : arg'[d] = arg[d]
      BY <3>1, <3>3
    <3> QED
      BY <2>2, <3>2, <3>3, Zenon
  <2>4. seen' = seen /\ pc[c] # "take"
    BY <1>4
  <2> HIDE <1>4
  <2>5. pc' \in [Processes -> {"idle", "clean up", "trim list", "touch list", "insert", "trim queue", "pick", "take"}]
    BY <1>1, <2>1 DEF Under
  <2>6. ASSUME NEW d \in Processes
        PROVE  (seen'[d] # {}) = (pc'[d] = "take") /\ (pc'[d] = "insert" => arg'[d] # Never)
    BY <1>1, <2>1, <2>3, <2>4 DEF Under
  <2> QED
    BY <1>1, <2>3, <2>4, <2>5, <2>6 DEF Under
<1>5. CASE /\ UNCHANGED seen /\ pc[c] # "take" /\ Pg!Goto(c, "insert")
           /\ \E ttl \in TTLs : arg' = [arg EXCEPT ![c] = ttl]
  <2>1. PICK ttl \in TTLs : arg' = [arg EXCEPT ![c] = ttl]
    BY <1>5
  <2>2. ttl # Never
    OBVIOUS
  <2>3. pc' = [pc EXCEPT ![c] = "insert"] /\ seen' = seen /\ pc[c] # "take"
    BY <1>5 DEF Pg!Goto
  <2>4. /\ pc' \in [Processes -> {"idle", "clean up", "trim list", "touch list", "insert", "trim queue", "pick", "take"}]
        /\ arg' \in [Processes -> TTLs \cup {Never}] /\ seen' \in [Processes -> SUBSET (1..MaxRows)]
    BY <1>1, <2>1, <2>3 DEF Under
  <2>5. ASSUME NEW d \in Processes
        PROVE  (seen'[d] # {}) = (pc'[d] = "take") /\ (pc'[d] = "insert" => arg'[d] # Never)
    BY <1>1, <2>1, <2>2, <2>3 DEF Under
  <2> QED
    BY <2>4, <2>5 DEF Under
<1>6. CASE /\ \E S \in SUBSET (1..MaxRows) : S # {} /\ seen' = [seen EXCEPT ![c] = S]
           /\ Pg!Goto(c, "take") /\ UNCHANGED arg
  <2>1. PICK S \in SUBSET (1..MaxRows) : S # {} /\ seen' = [seen EXCEPT ![c] = S]
    BY <1>6
  <2>2. pc' = [pc EXCEPT ![c] = "take"] /\ arg' = arg
    BY <1>6 DEF Pg!Goto
  <2>3. /\ pc' \in [Processes -> {"idle", "clean up", "trim list", "touch list", "insert", "trim queue", "pick", "take"}]
        /\ arg' \in [Processes -> TTLs \cup {Never}] /\ seen' \in [Processes -> SUBSET (1..MaxRows)]
    BY <1>1, <2>1, <2>2 DEF Under
  <2>4. ASSUME NEW d \in Processes
        PROVE  (seen'[d] # {}) = (pc'[d] = "take") /\ (pc'[d] = "insert" => arg'[d] # Never)
    BY <1>1, <2>1, <2>2 DEF Under
  <2> QED
    BY <2>3, <2>4 DEF Under
<1> QED
  BY <1>2, <1>3, <1>4, <1>5, <1>6

LEMMA SinglesKeep ==
  ASSUME Pg!IndInv, Pg!Connection \/ Pg!Subscriptions \/ Pg!Locks \/ Pg!Cache
  PROVE  Pg!IndInv'
<1>1. Singly'
  BY SinglyKept
<1>2. UNCHANGED <<listed, queued, seq, taken>> /\ cut' \in BOOLEAN
  <2>1. cut \in BOOLEAN
    BY PgParts DEF Tables
  <2>2. CASE Pg!Connection
    BY <2>1, <2>2 DEF Pg!Connection, Pg!Tick, Pg!Connect, Pg!Disconnect, Pg!StatementFails, Pg!rows
  <2>3. CASE Pg!Subscriptions
    BY <2>1, <2>3 DEF Pg!Subscriptions, Pg!Subscribe, Pg!Unsubscribe, Pg!IsSubscribed, Pg!Single, Pg!rows
  <2>4. CASE Pg!Locks
    BY <2>1, <2>4 DEF Pg!Locks, Pg!ForceReleaseLock, Pg!ReleaseLock, Pg!AcquireLock, Pg!ExtendLock, Pg!Single, Pg!rows
  <2>5. CASE Pg!Cache
    BY <2>1, <2>5 DEF Pg!Cache, Pg!Get, Pg!CleanUp, Pg!Delete, Pg!SetValue, Pg!SetIfNotExists, Pg!Single, Pg!rows
  <2> QED
    BY <2>2, <2>3, <2>4, <2>5
<1>3. Tables' /\ HandedOut'
  BY <1>2, RowsKept
<1>4. Under'
  <2>1. CASE Pg!Tick
    BY <2>1, PgParts DEF Pg!Tick, Pg!calls, Under
  <2>2. CASE Pg!Connection \/ Pg!Subscriptions \/ Pg!Locks
    BY <2>1, <2>2, UnderKept
    DEF Pg!Connection, Pg!Connect, Pg!Disconnect, Pg!StatementFails,
        Pg!Subscriptions, Pg!Subscribe, Pg!Unsubscribe, Pg!IsSubscribed, Pg!Single,
        Pg!Locks, Pg!ForceReleaseLock, Pg!ReleaseLock, Pg!AcquireLock, Pg!ExtendLock
  <2>3. CASE Pg!Cache
    <3>1. PICK c \in Processes :
            \/ Pg!Get(c) \/ Pg!CleanUp(c) \/ Pg!Delete(c)
            \/ \E v \in Values, ttl \in TTLs \cup {Never} : Pg!SetValue(c, v, ttl) \/ Pg!SetIfNotExists(c, v, ttl)
      BY <2>3 DEF Pg!Cache
    <3>2. CASE Pg!Get(c)
      <4>1. pc[c] = "idle" /\ UNCHANGED <<arg, seen>> /\ Pg!Goto(c, IF Pg!Over(cached) THEN "clean up" ELSE "idle")
        BY <3>2 DEF Pg!Get, Pg!Called
      <4> QED
        BY <4>1, PgParts DEF Under, Pg!Goto
    <3>3. CASE ~Pg!Get(c)
      BY <3>1, <3>3, UnderKept DEF Pg!CleanUp, Pg!Delete, Pg!SetValue, Pg!SetIfNotExists, Pg!Single
    <3> QED
      BY <3>2, <3>3
  <2> QED
    BY <2>2, <2>3
<1> QED
  BY <1>1, <1>3, <1>4, PgPartsNext

LEMMA ListsKeep ==
  ASSUME Pg!IndInv, Pg!Lists
  PROVE  Pg!IndInv'
<1>1. Singly /\ Tables /\ HandedOut /\ Under /\ now \in Nat
  BY PgParts DEF Singly
<1>2. \A ttl \in TTLs \cup {Never} : Pg!Until(ttl) \in Nat \cup {Never}
  BY <1>1, UntilIsInstant, SameOperators
<1>3. UNCHANGED <<now, connected, subscriptions, locks, cached, queued, taken, issued>>
  BY DEF Pg!Lists, Pg!AppendToList, Pg!TrimList, Pg!TouchList, Pg!Called, Pg!At, Pg!single
<1>4. Singly'
  BY <1>1, <1>3 DEF Singly, StampedSet, Pg!NoRow, Pg!Stamped
<1> SUFFICES Tables' /\ HandedOut' /\ Under'
  BY <1>4, PgPartsNext
<1>5. PICK c \in Processes :
        \/ \E ttl \in TTLs \cup {Never} : Pg!AppendToList(c, ttl)
        \/ Pg!TrimList(c) \/ Pg!TouchList(c)
  BY DEF Pg!Lists
<1>6. ASSUME NEW ttl \in TTLs \cup {Never}, Pg!AppendToList(c, ttl)
      PROVE  Tables' /\ HandedOut' /\ Under'
  <2>1. seq \in 1..MaxRows /\ seq' = seq + 1 /\ listed' = listed \cup {Pg!New(ttl)} /\ cut' = cut
    <3>1. seq \in 1..(MaxRows + 1) /\ MaxRows \in Nat
      BY <1>1 DEF Tables
    <3>2. seq <= MaxRows /\ seq' = seq + 1 /\ listed' = listed \cup {Pg!New(ttl)} /\ cut' = cut
      BY <1>6 DEF Pg!AppendToList
    <3> QED
      BY <3>1, <3>2
  <2>2. Pg!New(ttl) \in Pg!Rows /\ Pg!New(ttl).seq = seq
    BY <1>2, <2>1 DEF Pg!New, Pg!Rows
  <2>3. Tables'
    BY <1>1, <1>3, <2>1, <2>2 DEF Tables, Pg!Rows
  <2>4. HandedOut'
    <3>1. \A i \in DOMAIN taken : taken[i] < seq'
      BY <1>1, <2>1, ElementOfSeq, LenProperties DEF HandedOut
    <3> QED
      BY <1>1, <1>3, <3>1 DEF HandedOut
  <2> QED
    BY <1>6, <2>3, <2>4, UnderKept DEF Pg!AppendToList, Pg!Called
<1>7. CASE Pg!TrimList(c)
  <2>1. seq' = seq /\ listed' \subseteq listed /\ cut' = FALSE
    BY <1>7 DEF Pg!TrimList
  <2>2. Tables' /\ HandedOut'
    BY <1>1, <1>3, <2>1 DEF Tables, HandedOut, Pg!Rows
  <2> QED
    BY <1>7, <2>2, UnderKept DEF Pg!TrimList, Pg!At
<1>8. CASE Pg!TouchList(c)
  <2> DEFINE touched(r) == [r EXCEPT !.expires = Pg!Until(arg[c])]
  <2>1. listed' = {touched(r) : r \in listed} /\ UNCHANGED <<seq, cut>>
    BY <1>8 DEF Pg!TouchList
  <2>2. Pg!Until(arg[c]) \in Nat \cup {Never}
    BY <1>1, <1>2 DEF Under
  <2>3. \A r \in listed : touched(r) = [seq |-> r.seq, expires |-> Pg!Until(arg[c])] /\ touched(r) \in Pg!Rows
    BY <1>1, <2>2 DEF Tables, Pg!Rows
  <2> HIDE DEF touched
  <2>4. Tables'
    BY <1>1, <1>3, <2>1, <2>3 DEF Tables, Pg!Rows
  <2>5. HandedOut'
    BY <1>1, <1>3, <2>1 DEF HandedOut
  <2> QED
    BY <1>8, <2>4, <2>5, UnderKept DEF Pg!TouchList
<1> QED
  BY <1>5, <1>6, <1>7, <1>8

LEMMA QueuesKeep ==
  ASSUME Pg!IndInv, Pg!Queues
  PROVE  Pg!IndInv'
<1>1. Singly /\ Tables /\ HandedOut /\ Under /\ now \in Nat
  BY PgParts DEF Singly
<1>2. UNCHANGED <<now, connected, subscriptions, locks, cached, listed, cut, issued>>
  BY DEF Pg!Queues, Pg!Enqueue, Pg!InsertEntry, Pg!TrimQueue, Pg!Dequeue, Pg!PickEntry, Pg!TakeEntry,
         Pg!Called, Pg!At, Pg!single, Pg!rows
<1>3. Singly'
  BY <1>1, <1>2 DEF Singly, StampedSet, Pg!NoRow, Pg!Stamped
<1> SUFFICES Tables' /\ HandedOut' /\ Under'
  BY <1>3, PgPartsNext
<1>4. PICK c \in Processes :
        \/ \E ttl \in TTLs : Pg!Enqueue(c, ttl)
        \/ Pg!InsertEntry(c) \/ Pg!TrimQueue(c) \/ Pg!Dequeue(c) \/ Pg!PickEntry(c) \/ Pg!TakeEntry(c)
  BY DEF Pg!Queues
<1>5. ASSUME queued' \subseteq queued, UNCHANGED <<seq, taken>>
      PROVE  Tables' /\ HandedOut'
  BY <1>1, <1>2, <1>5 DEF Tables, HandedOut, Pg!Rows
<1>6. CASE Pg!Dequeue(c) \/ \E ttl \in TTLs : Pg!Enqueue(c, ttl)
  <2>1. queued' \subseteq queued /\ UNCHANGED <<seq, taken>>
    BY <1>6 DEF Pg!Enqueue, Pg!Dequeue, Pg!Live
  <2>2. Under'
    BY <1>6, UnderKept DEF Pg!Enqueue, Pg!Dequeue, Pg!Called
  <2> QED
    BY <1>5, <2>1, <2>2
<1>7. CASE Pg!TrimQueue(c)
  <2>1. queued' \subseteq queued /\ UNCHANGED <<seq, taken>>
    BY <1>7 DEF Pg!TrimQueue
  <2> QED
    BY <1>5, <1>7, <2>1, UnderKept DEF Pg!TrimQueue
<1>8. CASE Pg!PickEntry(c)
  <2>1. UNCHANGED <<queued, seq, taken>>
    BY <1>8 DEF Pg!PickEntry, Pg!rows
  <2>2. {r.seq : r \in Pg!Live(queued)} \in SUBSET (1..MaxRows)
    BY <1>1 DEF Tables, Pg!Live, Pg!Rows
  <2>3. Pg!Live(queued) # {} => {r.seq : r \in Pg!Live(queued)} # {}
    OBVIOUS
  <2>4. Under'
    BY <1>8, <2>2, <2>3, UnderKept DEF Pg!PickEntry
  <2> QED
    BY <1>5, <2>1, <2>4
<1>9. CASE Pg!InsertEntry(c)
  <2> DEFINE new == Pg!New(arg[c])
  <2>1. /\ seq \in 1..MaxRows /\ seq' = seq + 1 /\ queued' = queued \cup {new} /\ taken' = taken
        /\ pc[c] = "insert"
    <3>1. seq \in 1..(MaxRows + 1) /\ MaxRows \in Nat
      BY <1>1 DEF Tables
    <3>2. /\ seq <= MaxRows /\ seq' = seq + 1 /\ queued' = queued \cup {new} /\ taken' = taken
          /\ pc[c] = "insert"
      BY <1>9 DEF Pg!InsertEntry, Pg!At
    <3> QED
      BY <3>1, <3>2
  <2>2. arg[c] \in TTLs
    BY <1>1, <2>1 DEF Under
  <2>3. Pg!Until(arg[c]) \in Nat
    BY <1>1, <2>2, UntilIsInstant, SameOperators
  <2>4. new \in Pg!Rows /\ new.seq = seq /\ new.expires # Never
    BY <2>1, <2>3 DEF Pg!New, Pg!Rows
  <2> HIDE DEF new
  <2>5. Tables'
    BY <1>1, <1>2, <2>1, <2>4 DEF Tables, Pg!Rows
  <2>6. HandedOut'
    <3>1. \A i \in DOMAIN taken : taken[i] \in Nat /\ taken[i] < seq
      BY <1>1, ElementOfSeq, LenProperties DEF HandedOut
    <3> QED
      BY <1>1, <2>1, <2>4, <3>1 DEF HandedOut
  <2> QED
    BY <1>9, <2>5, <2>6, UnderKept DEF Pg!InsertEntry, Pg!At
<1>10. CASE Pg!TakeEntry(c)
  <2> DEFINE n == Pg!Picked(c)
  <2>1. queued' = {r \in queued : r.seq # n} /\ seq' = seq
    BY <1>10 DEF Pg!TakeEntry
  <2>2. Tables'
    BY <1>1, <1>2, <2>1 DEF Tables, Pg!Rows
  <2>3. HandedOut'
    <3>1. CASE taken' = taken
      BY <1>1, <2>1, <3>1 DEF HandedOut
    <3>2. CASE taken' # taken
      <4>1. taken' = Append(taken, n) /\ queued' # queued
        BY <1>10, <3>2 DEF Pg!TakeEntry
      <4>2. PICK r \in queued : r.seq = n
        BY <2>1, <4>1
      <4> HIDE DEF n
      <4>3. n \in 1..MaxRows /\ n < seq /\ \A i \in DOMAIN taken : taken[i] # n
        BY <1>1, <4>2 DEF Tables, HandedOut, Pg!Rows
      <4>4. taken \in Seq(1..MaxRows) /\ Len(taken) \in Nat /\ DOMAIN taken = 1..Len(taken)
        BY <1>1, LenProperties DEF HandedOut
      <4>5. /\ taken' \in Seq(1..MaxRows) /\ DOMAIN taken' = 1..Len(taken) + 1
            /\ \A i \in 1..Len(taken) + 1 : taken'[i] = IF i = Len(taken) + 1 THEN n ELSE taken[i]
        BY <4>1, <4>3, <4>4, AppendProperties
      <4>6. \A i \in DOMAIN taken' : taken'[i] < seq /\ \A q \in queued' : q.seq # taken'[i]
        BY <1>1, <2>1, <4>3, <4>4, <4>5, SMTT(30) DEF HandedOut
      <4>7. \A i, j \in DOMAIN taken' : taken'[i] = taken'[j] => i = j
        BY <1>1, <4>3, <4>4, <4>5, SMTT(30) DEF HandedOut
      <4> QED
        BY <2>1, <4>5, <4>6, <4>7 DEF HandedOut
    <3> QED
      BY <3>1, <3>2
  <2> QED
    BY <1>10, <2>2, <2>3, UnderKept DEF Pg!TakeEntry
<1> QED
  BY <1>4, <1>6, <1>7, <1>8, <1>9, <1>10

LEMMA PgKeeps ==
  ASSUME Pg!IndInv, store = "pg", [StoresNext]_vars
  PROVE  Pg!IndInv'
<1>1. CASE UNCHANGED vars
  BY <1>1 DEF vars, Pg!vars, Pg!single, Pg!rows, Pg!calls, Pg!IndInv, Pg!TypeOK, Pg!Numbered, Pg!HandedOutOnce,
              Pg!Rows, Pg!StampedSet, Pg!NoRow, Pg!Stamped
<1>2. CASE StoresNext
  <2>1. Pg!Connection \/ Pg!Subscriptions \/ Pg!Locks \/ Pg!Cache \/ Pg!Lists \/ Pg!Queues
    BY <1>2 DEF StoresNext, PgNext
  <2> QED
    BY <2>1, SinglesKeep, ListsKeep, QueuesKeep
<1> QED
  BY <1>1, <1>2

-----------------------------------------------------------------------------
(***************************************************************************)
(* Lists settle, queues keep                                               *)
(***************************************************************************)

LEMMA SameCardinality ==
  \A S : Pg!Cardinality(S) = Cardinality(S)
BY DEF Pg!Cardinality, Cardinality

(* Rows that differ in their seq are as many as their seqs.                  *)
LEMMA AsManyAsSeqs ==
  ASSUME NEW S, NEW I, IsFiniteSet(I), I = {r.seq : r \in S},
         \A r, q \in S : r.seq = q.seq => r = q
  PROVE  IsFiniteSet(S) /\ Cardinality(S) = Cardinality(I)
<1> DEFINE f == [r \in S |-> r.seq]
<1>1. f \in Injection(S, I) /\ f \in Surjection(S, I)
  BY DEF Injection, IsInjective, Surjection
<1> HIDE DEF f
<1> QED
  BY <1>1, FS_Injection

LEMMA StretchSize ==
  ASSUME NEW a \in Int, NEW b \in Int, a <= b
  PROVE  IsFiniteSet(a..(b - 1)) /\ Cardinality(a..(b - 1)) = b - a
<1>1. b - 1 \in Int
  OBVIOUS
<1>2. /\ IsFiniteSet(a..(b - 1))
      /\ Cardinality(a..(b - 1)) = IF a > b - 1 THEN 0 ELSE (b - 1) - a + 1
  BY <1>1, FS_Interval, Zenon
<1> QED
  BY <1>2

(* In a stretch, the rows before the one numbered n.                         *)
LEMMA CountBefore ==
  ASSUME NEW S, NEW a \in Nat, NEW b \in Nat, {r.seq : r \in S} = a..(b - 1),
         \A r, q \in S : r.seq = q.seq => r = q,
         NEW n \in a..b
  PROVE  Cardinality({q \in S : q.seq < n}) = n - a
<1> DEFINE T == {q \in S : q.seq < n}
<1>1. {r.seq : r \in T} = a..(n - 1)
  <2>1. \A r \in S : r.seq \in a..(b - 1)
    OBVIOUS
  <2>2. \A i \in a..(b - 1) : \E r \in S : r.seq = i
    OBVIOUS
  <2>3. \A i \in a..(n - 1) : i \in a..(b - 1) /\ i < n
    OBVIOUS
  <2>4. \A r \in T : r.seq \in a..(n - 1)
    BY <2>1
  <2>5. \A i \in a..(n - 1) : \E r \in T : r.seq = i
    BY <2>2, <2>3
  <2> QED
    BY <2>4, <2>5
<1>2. IsFiniteSet(a..(n - 1)) /\ Cardinality(a..(n - 1)) = n - a
  <2>1. a \in Int /\ n \in Int /\ a <= n
    OBVIOUS
  <2> QED
    BY <2>1, StretchSize, Zenon
<1>3. \A r, q \in T : r.seq = q.seq => r = q
  OBVIOUS
<1> HIDE DEF T
<1>4. Cardinality(T) = n - a
  BY <1>1, <1>2, <1>3, AsManyAsSeqs
<1> QED
  BY <1>4 DEF T

LEMMA StretchStarts ==
  Pg!Init => Pg!Stretch
<1> SUFFICES ASSUME Pg!Init PROVE Pg!Stretch
  OBVIOUS
<1>1. seq = 1 /\ listed = {}
  BY DEF Pg!Init
<1>2. {r.seq : r \in listed} = 1..(seq - 1) /\ 1 \in 1..seq /\ seq <= 1 + MaxLength
  BY <1>1
<1> QED
  BY <1>2 DEF Pg!Stretch

(* A trim keeps the newest rows of a stretch.                                *)
LEMMA TrimStretch ==
  ASSUME Pg!IndInv, NEW a \in 1..seq, {r.seq : r \in listed} = a..(seq - 1)
  PROVE  {r.seq : r \in listed \ Pg!Overflow(listed)} =
           IF seq > a + MaxLength THEN (seq - MaxLength)..(seq - 1) ELSE a..(seq - 1)
<1>1. seq \in Nat /\ a \in Nat /\ \A r, q \in listed : r.seq = q.seq => r = q
  BY PgParts DEF Tables
<1>2. Cardinality(listed) = seq - a
  <2>1. IsFiniteSet(a..(seq - 1)) /\ Cardinality(a..(seq - 1)) = seq - a
    <3>1. a \in Int /\ seq \in Int /\ a <= seq
      BY <1>1
    <3> QED
      BY <3>1, StretchSize, Zenon
  <2> QED
    BY <1>1, <2>1, AsManyAsSeqs
<1>3. CASE seq > a + MaxLength
  <2>1. Pg!Overflow(listed) = {r \in listed : Cardinality({q \in listed : q.seq < r.seq}) < seq - a - MaxLength}
    BY <1>1, <1>2, <1>3, SameCardinality DEF Pg!Overflow, Pg!Oldest
  <2>2. ASSUME NEW r \in listed
        PROVE  r.seq \in a..(seq - 1) /\ Cardinality({q \in listed : q.seq < r.seq}) = r.seq - a
    <3>1. r.seq \in a..(seq - 1)
      OBVIOUS
    <3>2. r.seq \in a..seq
      BY <1>1, <3>1
    <3> QED
      BY <1>1, <3>1, <3>2, CountBefore
  <2>3. \A r \in listed : r \in Pg!Overflow(listed) <=> r.seq < seq - MaxLength
    BY <1>1, <2>1, <2>2
  <2>4. \A r \in listed \ Pg!Overflow(listed) : r.seq \in (seq - MaxLength)..(seq - 1)
    BY <1>1, <2>2, <2>3
  <2>5. \A i \in (seq - MaxLength)..(seq - 1) : \E r \in listed \ Pg!Overflow(listed) : r.seq = i
    <3> TAKE i \in (seq - MaxLength)..(seq - 1)
    <3>1. i \in a..(seq - 1) /\ ~(i < seq - MaxLength)
      BY <1>1, <1>3
    <3>2. PICK r \in listed : r.seq = i
      BY <3>1
    <3> QED
      BY <2>3, <3>1, <3>2
  <2> QED
    BY <1>3, <2>4, <2>5
<1>4. CASE ~(seq > a + MaxLength)
  <2>1. Pg!Overflow(listed) = {}
    BY <1>1, <1>2, <1>4, SameCardinality DEF Pg!Overflow
  <2> QED
    BY <1>4, <2>1
<1> QED
  BY <1>3, <1>4

LEMMA StretchKeeps ==
  ASSUME Pg!IndInv, Pg!Stretch, store = "pg", kind = "lists", [StoresNext]_vars
  PROVE  Pg!Stretch'
<1>1. PICK a \in 1..seq :
        /\ {r.seq : r \in listed} = a..(seq - 1)
        /\ a = 1 \/ a + MaxLength <= seq
        /\ cut \/ (\E c \in Processes : pc[c] = "trim list") \/ seq <= a + MaxLength
  BY DEF Pg!Stretch
<1>10. a \in 1..seq /\ (a = 1 \/ a + MaxLength <= seq)
  BY <1>1
<1>2. /\ seq \in Nat \ {0} /\ a \in Nat \ {0} /\ a <= seq
      /\ pc \in [Processes -> {"idle", "clean up", "trim list", "touch list", "insert", "trim queue", "pick", "take"}]
  <2>1. seq \in 1..(MaxRows + 1) /\ MaxRows \in Nat
    BY PgParts DEF Tables
  <2>2. seq \in Nat \ {0}
    BY <2>1
  <2>3. a \in Nat \ {0} /\ a <= seq
    BY <1>10, <2>2
  <2> QED
    BY <2>2, <2>3, PgParts DEF Under
<1>3. CASE UNCHANGED <<listed, seq, cut, pc>>
  BY <1>1, <1>3 DEF Pg!Stretch
<1>4. ASSUME NEW c \in Processes, Pg!StatementFails(c) PROVE Pg!Stretch'
  <2>1. UNCHANGED <<listed, seq>> /\ cut' = (cut \/ pc[c] = "trim list") /\ pc' = [pc EXCEPT ![c] = "idle"]
    BY <1>4 DEF Pg!StatementFails, Pg!Ends, Pg!Goto
  <2>2. cut' \/ (\E d \in Processes : pc'[d] = "trim list") \/ seq' <= a + MaxLength
    BY <1>1, <1>2, <2>1
  <2> QED
    BY <1>1, <2>1, <2>2 DEF Pg!Stretch
<1>5. ASSUME NEW c \in Processes, NEW ttl \in TTLs \cup {Never}, Pg!AppendToList(c, ttl) PROVE Pg!Stretch'
  <2>1. /\ listed' = listed \cup {Pg!New(ttl)} /\ seq' = seq + 1
        /\ pc' = [pc EXCEPT ![c] = "trim list"]
    BY <1>5 DEF Pg!AppendToList, Pg!Goto
  <2>2. {r.seq : r \in listed'} = {r.seq : r \in listed} \cup {seq}
    <3>1. Pg!New(ttl).seq = seq
      BY DEF Pg!New
    <3>2. \A r \in listed' : r \in listed \/ r.seq = seq
      BY <2>1, <3>1
    <3>3. \A r \in listed : r \in listed'
      BY <2>1
    <3>4. Pg!New(ttl) \in listed'
      BY <2>1
    <3> QED
      BY <3>1, <3>2, <3>3, <3>4
  <2>3. (a..(seq - 1)) \cup {seq} = a..seq /\ seq' - 1 = seq
    <3>1. seq' = seq + 1 /\ seq \in Nat /\ a \in Nat \ {0} /\ a <= seq
      BY <1>2, <2>1
    <3> QED
      BY <3>1
  <2>4. {r.seq : r \in listed'} = a..(seq' - 1)
    BY <1>1, <2>2, <2>3
  <2>5. a \in 1..seq' /\ (a = 1 \/ a + MaxLength <= seq')
    <3>1. seq' = seq + 1 /\ seq \in Nat /\ a \in Nat \ {0} /\ a <= seq /\ MaxLength \in Nat
      BY <1>2, <2>1
    <3> QED
      BY <1>10, <3>1
  <2>6. pc'[c] = "trim list"
    BY <1>2, <2>1
  <2> QED
    BY <2>4, <2>5, <2>6 DEF Pg!Stretch
<1>6. ASSUME NEW c \in Processes, Pg!TrimList(c) PROVE Pg!Stretch'
  <2>1. listed' = listed \ Pg!Overflow(listed) /\ seq' = seq
    BY <1>6 DEF Pg!TrimList
  <2> DEFINE b == IF seq > a + MaxLength THEN seq - MaxLength ELSE a
  <2>2. {r.seq : r \in listed'} = b..(seq' - 1)
    BY <1>1, <2>1, TrimStretch
  <2>4. seq' = seq
    BY <2>1
  <2>3. b \in 1..seq' /\ (b = 1 \/ b + MaxLength <= seq') /\ seq' <= b + MaxLength
    <3>1. seq' = seq /\ seq \in Nat /\ a \in Nat \ {0} /\ a <= seq /\ MaxLength \in Nat
      BY <1>2, <2>4
    <3>2. CASE seq > a + MaxLength
      <4>1. seq - MaxLength \in 1..seq /\ (seq - MaxLength) + MaxLength = seq
        BY <3>1, <3>2
      <4> QED
        BY <3>1, <3>2, <4>1
    <3>3. CASE ~(seq > a + MaxLength)
      <4>1. seq <= a + MaxLength /\ a \in 1..seq
        BY <3>1, <3>3
      <4> QED
        BY <1>10, <3>1, <3>3, <4>1
    <3> QED
      BY <3>2, <3>3
  <2> QED
    BY <2>2, <2>3 DEF Pg!Stretch
<1>7. ASSUME NEW c \in Processes, Pg!TouchList(c) PROVE Pg!Stretch'
  <2>1. /\ listed' = {[r EXCEPT !.expires = Pg!Until(arg[c])] : r \in listed} /\ UNCHANGED <<seq, cut>>
        /\ pc[c] = "touch list" /\ pc' = [pc EXCEPT ![c] = "idle"]
    BY <1>7 DEF Pg!TouchList, Pg!At, Pg!Ends, Pg!Goto
  <2>2. {r.seq : r \in listed'} = {r.seq : r \in listed}
    <3>1. \A r \in listed : [r EXCEPT !.expires = Pg!Until(arg[c])].seq = r.seq
      BY PgParts DEF Tables, Pg!Rows
    <3> QED
      BY <2>1, <3>1
  <2>3. cut' \/ (\E d \in Processes : pc'[d] = "trim list") \/ seq' <= a + MaxLength
    BY <1>1, <1>2, <2>1
  <2> QED
    BY <1>1, <2>1, <2>2, <2>3 DEF Pg!Stretch
<1>8. \/ UNCHANGED vars \/ Pg!Tick
      \/ \E c \in Processes : Pg!Connect(c) \/ Pg!Disconnect(c) \/ Pg!StatementFails(c)
      \/ Pg!Lists
  BY DEF StoresNext, PgNext, Pg!Connection
<1>9. UNCHANGED vars \/ Pg!Tick \/ (\E c \in Processes : Pg!Connect(c) \/ Pg!Disconnect(c)) => UNCHANGED <<listed, seq, cut, pc>>
  BY DEF vars, Pg!vars, Pg!rows, Pg!calls, Pg!Tick, Pg!Connect, Pg!Disconnect
<1> QED
  BY <1>3, <1>4, <1>5, <1>6, <1>7, <1>8, <1>9 DEF Pg!Lists

LEMMA StretchSettles ==
  ASSUME Pg!IndInv, Pg!Stretch
  PROVE  Pg!ListSettles
<1>1. PICK a \in 1..seq :
        /\ {r.seq : r \in listed} = a..(seq - 1)
        /\ a = 1 \/ a + MaxLength <= seq
        /\ cut \/ (\E c \in Processes : pc[c] = "trim list") \/ seq <= a + MaxLength
  BY DEF Pg!Stretch
<1>2. seq \in Nat \ {0} /\ a \in Nat \ {0} /\ a <= seq /\ MaxLength \in Nat
  <2>1. seq \in 1..(MaxRows + 1) /\ MaxRows \in Nat
    BY PgParts DEF Tables
  <2> QED
    BY <2>1
<1>3. ASSUME seq <= a + MaxLength PROVE a..(seq - 1) = {n \in 1..(seq - 1) : n + MaxLength >= seq}
  <2>1. \A n \in a..(seq - 1) : n \in 1..(seq - 1) /\ n + MaxLength >= seq
    BY <1>2, <1>3
  <2>2. \A n \in 1..(seq - 1) : n + MaxLength >= seq => n \in a..(seq - 1)
    <3>1. a = 1 \/ a + MaxLength <= seq
      BY <1>1
    <3> QED
      BY <1>2, <3>1
  <2> QED
    BY <2>1, <2>2
<1> QED
  BY <1>1, <1>3 DEF Pg!ListSettles

(* One of the rows that overflow has MaxLength newer ones.                   *)
LEMMA OverflowIsOld ==
  ASSUME NEW S \in SUBSET Pg!Rows, \A r, q \in S : r.seq = q.seq => r = q,
         NEW r \in Pg!Overflow(S)
  PROVE  Cardinality({q \in S : q.seq > r.seq}) >= MaxLength
<1> DEFINE before == {q \in S : q.seq < r.seq}
           after  == {q \in S : q.seq > r.seq}
<1>1. \A q \in S : q.seq \in 1..MaxRows
  BY DEF Pg!Rows
<1>2. IsFiniteSet(S)
  <2>1. IsFiniteSet(1..MaxRows)
    <3>1. 1 \in Int /\ MaxRows \in Int
      OBVIOUS
    <3> QED
      BY <3>1, FS_Interval
  <2>2. {q.seq : q \in S} \subseteq 1..MaxRows
    BY <1>1
  <2>3. IsFiniteSet({q.seq : q \in S})
    BY <2>1, <2>2, FS_Subset
  <2> QED
    BY <2>3, AsManyAsSeqs
<1>3. r \in S /\ Cardinality(S) > MaxLength /\ Cardinality(before) < Cardinality(S) - MaxLength
  BY SameCardinality DEF Pg!Overflow, Pg!Oldest
<1>4. /\ IsFiniteSet(before) /\ Cardinality(before) \in Nat /\ IsFiniteSet(after) /\ Cardinality(after) \in Nat
      /\ Cardinality(S) \in Nat
  BY <1>2, FS_Subset, FS_CardinalityType
<1>5. S = (before \cup after) \cup {r} /\ r \notin before \cup after /\ before \cap after = {}
  BY <1>1, <1>3
<1> HIDE DEF before, after
<1>6. IsFiniteSet(before \cup after) /\ Cardinality(before \cup after) = Cardinality(before) + Cardinality(after)
  <2>1. /\ IsFiniteSet(before \cup after)
        /\ Cardinality(before \cup after) = Cardinality(before) + Cardinality(after) - Cardinality(before \cap after)
    BY <1>4, FS_Union
  <2>2. Cardinality(before \cap after) = 0
    BY <1>5, FS_EmptySet
  <2> QED
    BY <1>4, <2>1, <2>2
<1>7. Cardinality(S) = Cardinality(before) + Cardinality(after) + 1
  BY <1>5, <1>6, FS_AddElement, Zenon
<1>8. Cardinality(after) >= MaxLength
  BY <1>3, <1>4, <1>7
<1> QED
  BY <1>8 DEF after

LEMMA QueueStepKeeps ==
  ASSUME Pg!IndInv, store = "pg", [StoresNext]_vars, NEW r \in Pg!Live(queued), r \notin queued'
  PROVE  Pg!Leaves(r)
<1>1. Tables
  BY PgParts
<1>2. r \in queued /\ ~Pg!Over(r) /\ queued' # queued
  BY DEF Pg!Live
<1>3. PICK c \in Processes :
        \/ Pg!Dequeue(c) \/ \E ttl \in TTLs : Pg!Enqueue(c, ttl)
        \/ Pg!InsertEntry(c) \/ Pg!TrimQueue(c) \/ Pg!TakeEntry(c)
  <2>1. ~(UNCHANGED vars)
    BY <1>2 DEF vars, Pg!vars, Pg!rows
  <2>2. Pg!Connection \/ Pg!Subscriptions \/ Pg!Locks \/ Pg!Cache => queued' = queued
    BY DEF Pg!Connection, Pg!Tick, Pg!Connect, Pg!Disconnect, Pg!StatementFails, Pg!rows,
           Pg!Subscriptions, Pg!Subscribe, Pg!Unsubscribe, Pg!IsSubscribed, Pg!Single,
           Pg!Locks, Pg!ForceReleaseLock, Pg!ReleaseLock, Pg!AcquireLock, Pg!ExtendLock,
           Pg!Cache, Pg!Get, Pg!CleanUp, Pg!Delete, Pg!SetValue, Pg!SetIfNotExists
  <2>3. Pg!Lists => queued' = queued
    BY DEF Pg!Lists, Pg!AppendToList, Pg!TrimList, Pg!TouchList
  <2>4. \A c \in Processes : Pg!PickEntry(c) => queued' = queued
    BY DEF Pg!PickEntry, Pg!rows
  <2>5. Pg!Queues
    BY <1>2, <2>1, <2>2, <2>3 DEF StoresNext, PgNext
  <2> QED
    BY <1>2, <2>4, <2>5 DEF Pg!Queues
<1>4. CASE Pg!Dequeue(c) \/ \E ttl \in TTLs : Pg!Enqueue(c, ttl)
  BY <1>4 DEF Pg!Dequeue, Pg!Enqueue
<1>5. CASE Pg!InsertEntry(c)
  BY <1>2, <1>5 DEF Pg!InsertEntry
<1>6. CASE Pg!TrimQueue(c)
  <2>1. r \in Pg!Overflow(Pg!Live(queued))
    BY <1>2, <1>6 DEF Pg!TrimQueue
  <2>2. Pg!Live(queued) \in SUBSET Pg!Rows /\ \A p, q \in Pg!Live(queued) : p.seq = q.seq => p = q
    BY <1>1 DEF Tables, Pg!Live
  <2>3. Cardinality({q \in Pg!Live(queued) : q.seq > r.seq}) >= MaxLength
    BY <2>1, <2>2, OverflowIsOld
  <2> QED
    BY <2>3, SameCardinality DEF Pg!Leaves
<1>7. CASE Pg!TakeEntry(c)
  <2>1. r.seq = Pg!Picked(c) /\ taken' = Append(taken, Pg!Picked(c))
    BY <1>2, <1>7 DEF Pg!TakeEntry
  <2> QED
    BY <2>1 DEF Pg!Leaves
<1> QED
  BY <1>3, <1>4, <1>5, <1>6, <1>7

-----------------------------------------------------------------------------
(***************************************************************************)
(* The keys of redis                                                       *)
(***************************************************************************)

Entries == [of : Values, expires : Nat]

(* A trim leaves the newest.                                                 *)
LEMMA TrimIsSeq ==
  ASSUME NEW S, NEW s \in Seq(S), NEW size \in Nat
  PROVE  /\ Redis!Trim(s, size) \in Seq(S)
         /\ Len(Redis!Trim(s, size)) = IF size # 0 /\ Len(s) > size THEN size ELSE Len(s)
         /\ \A i \in 1..Len(Redis!Trim(s, size)) :
              Redis!Trim(s, size)[i] = s[IF size # 0 /\ Len(s) > size THEN i + Len(s) - size ELSE i]
<1>1. CASE size # 0 /\ Len(s) > size
  <2>1. Len(s) \in Nat /\ Len(s) - size + 1 \in Int /\ \A i \in Len(s) - size + 1 .. Len(s) : s[i] \in S
    BY <1>1, LenProperties
  <2>2. /\ SubSeq(s, Len(s) - size + 1, Len(s)) \in Seq(S)
        /\ Len(SubSeq(s, Len(s) - size + 1, Len(s))) = size
        /\ \A i \in 1..size : SubSeq(s, Len(s) - size + 1, Len(s))[i] = s[i + Len(s) - size]
    BY <1>1, <2>1, SubSeqProperties
  <2> QED
    BY <1>1, <2>2 DEF Redis!Trim
<1>2. CASE ~(size # 0 /\ Len(s) > size)
  BY <1>2 DEF Redis!Trim
<1> QED
  BY <1>1, <1>2

LEMMA RedisStarts ==
  Redis!Init => Redis!IndInv
<1> SUFFICES ASSUME Redis!Init PROVE Redis!IndInv
  OBVIOUS
<1>1. /\ Redis!NoKey = [of |-> None, expires |-> 0]
      /\ Redis!NoList = [of |-> <<>>, expires |-> 0]
  BY DEF Redis!NoKey, Redis!NoList, Redis!Stamped
<1>2. <<>> \in Seq(Values) /\ <<>> \in Seq(Entries)
  BY EmptySeq
<1>3. 0 \in 0..MaxTime
  OBVIOUS
<1>4. Redis!TypeOK
  BY <1>1, <1>2, <1>3 DEF Redis!Init, Redis!TypeOK, Redis!StampedSet, Entries
<1> QED
  BY <1>1, <1>4 DEF Redis!IndInv, Redis!Init

LEMMA RedisItems ==
  ASSUME Redis!TypeOK
  PROVE  Redis!Items(listed) \in Seq(Values) /\ Redis!Items(queued) \in Seq(Entries)
<1>1. <<>> \in Seq(Values) /\ <<>> \in Seq(Entries)
  BY EmptySeq
<1> QED
  BY <1>1 DEF Redis!TypeOK, Redis!Items, Redis!StampedSet, Entries

LEMMA TailKeepsLast ==
  ASSUME NEW S, NEW s \in Seq(S), s # <<>>, Len(s) # 1
  PROVE  Tail(s) \in Seq(S) /\ Tail(s)[Len(Tail(s))] = s[Len(s)]
<1>1. Len(s) \in Nat /\ Len(s) # 0
  BY LenProperties, EmptySeq
<1>2. Tail(s) \in Seq(S) /\ Len(Tail(s)) = Len(s) - 1 /\ \A i \in 1..Len(Tail(s)) : Tail(s)[i] = s[i + 1]
  BY HeadTailProperties
<1>3. \A n \in Nat : n # 0 /\ n # 1 => n - 1 \in 1..(n - 1) /\ (n - 1) + 1 = n
  OBVIOUS
<1>4. Len(s) - 1 \in 1..(Len(s) - 1) /\ (Len(s) - 1) + 1 = Len(s)
  BY <1>1, <1>3, Zenon
<1> QED
  BY <1>2, <1>4

(* What an enqueue leaves in the queue: the new entry is the last.           *)
LEMMA EnqueueLeaves ==
  ASSUME Redis!TypeOK, NEW v \in Values, NEW ttl \in TTLs, NEW size \in MaxSizes
  PROVE  LET longer  == Append(Redis!Items(queued), Redis!Stamped(v, Redis!Until(ttl)))
             entries == Redis!Trim(longer, size)
         IN  /\ Redis!Stamped(v, Redis!Until(ttl)) \in Entries
             /\ longer \in Seq(Entries) /\ entries \in Seq(Entries)
             /\ Len(entries) \in Nat \ {0} /\ entries[Len(entries)] = Redis!Stamped(v, Redis!Until(ttl))
<1> DEFINE new     == Redis!Stamped(v, Redis!Until(ttl))
           items   == Redis!Items(queued)
           longer  == Append(items, new)
           entries == Redis!Trim(longer, size)
<1>1. new \in Entries
  BY DEF Redis!TypeOK, Redis!Stamped, Redis!Until, Entries
<1>2. items \in Seq(Entries)
  BY RedisItems
<1> HIDE DEF new, items
<1>3. longer \in Seq(Entries) /\ Len(longer) = Len(items) + 1 /\ longer[Len(longer)] = new /\ Len(items) \in Nat
  BY <1>1, <1>2
<1> HIDE DEF longer
<1>4. size \in Nat \ {0}
  OBVIOUS
<1>5. /\ entries \in Seq(Entries)
      /\ Len(entries) = IF size # 0 /\ Len(longer) > size THEN size ELSE Len(longer)
      /\ \A i \in 1..Len(entries) : entries[i] = longer[IF size # 0 /\ Len(longer) > size THEN i + Len(longer) - size ELSE i]
  BY <1>3, <1>4, TrimIsSeq
<1> HIDE DEF entries
<1>6. Len(entries) \in Nat \ {0}
  BY <1>3, <1>4, <1>5
<1>7. (IF size # 0 /\ Len(longer) > size THEN Len(entries) + Len(longer) - size ELSE Len(entries)) = Len(longer)
  BY <1>3, <1>4, <1>5
<1>8. Len(entries) \in 1..Len(entries)
  BY <1>6
<1>9. entries[Len(entries)] = new
  BY <1>3, <1>5, <1>7, <1>8
<1> QED
  BY <1>1, <1>3, <1>5, <1>6, <1>9 DEF entries, longer, new, items

LEMMA RedisKeeps ==
  ASSUME Redis!IndInv, RedisNext \/ UNCHANGED Redis!vars
  PROVE  Redis!IndInv'
<1>1. Redis!TypeOK /\ now \in Nat /\ MaxTime \in Nat
  BY DEF Redis!IndInv, Redis!TypeOK
<1>2. \A ttl \in TTLs \cup {Never} : Redis!Until(ttl) \in Nat \cup {Never} /\ (ttl # Never => Redis!Until(ttl) \in Nat)
  BY <1>1, UntilIsInstant, SameOperators
<1>3. CASE UNCHANGED Redis!vars
  BY <1>3 DEF Redis!vars, Redis!keys, Redis!IndInv, Redis!TypeOK, Redis!StampedSet
<1>4. CASE Redis!Connection
  <2>1. UNCHANGED <<Redis!keys, issued>> /\ now' \in 0..MaxTime /\ connected' \subseteq Processes
    <3>1. CASE Redis!Tick
      BY <1>1, <3>1 DEF Redis!Tick, Redis!TypeOK
    <3>2. CASE ~Redis!Tick
      BY <1>1, <1>4, <3>2 DEF Redis!Connection, Redis!Connect, Redis!Disconnect, Redis!TypeOK
    <3> QED
      BY <3>1, <3>2
  <2> QED
    BY <2>1 DEF Redis!keys, Redis!IndInv, Redis!TypeOK, Redis!StampedSet
<1>5. CASE Redis!Subscriptions
  <2>1. UNCHANGED <<now, connected, locks, cached, listed, queued, issued>> /\ subscriptions' \subseteq Threads
    BY <1>1, <1>5 DEF Redis!Subscriptions, Redis!Subscribe, Redis!Unsubscribe, Redis!IsSubscribed, Redis!Called, Redis!keys, Redis!TypeOK
  <2> QED
    BY <2>1 DEF Redis!IndInv, Redis!TypeOK, Redis!StampedSet
<1>6. CASE Redis!Locks
  <2>1. PICK p \in Processes, t \in Threads :
          \/ Redis!ForceReleaseLock(p, t)
          \/ \E h \in Handles :
               \/ Redis!ReleaseLock(p, t, h)
               \/ \E ttl \in TTLs : Redis!AcquireLock(p, t, h, ttl) \/ Redis!ExtendLock(p, t, h, ttl)
    BY <1>6 DEF Redis!Locks
  <2>2. UNCHANGED <<now, connected, subscriptions, cached, listed, queued>> /\ issued' \subseteq Handles
    BY <1>1, <2>1
    DEF Redis!ForceReleaseLock, Redis!ReleaseLock, Redis!AcquireLock, Redis!ExtendLock, Redis!Called, Redis!TypeOK
  <2> DEFINE Keys == [of : Handles \cup {None}, expires : Nat]
  <2>3. locks \in [Threads -> Keys] /\ Redis!NoKey \in Keys
    BY <1>1 DEF Redis!TypeOK, Redis!NoKey, Redis!Stamped
  <2>4. \A h \in Handles, ttl \in TTLs : Redis!Stamped(h, Redis!Until(ttl)) \in Keys
    BY <1>2 DEF Redis!Stamped
  <2>5. \/ locks' = locks \/ locks' = [locks EXCEPT ![t] = Redis!NoKey]
        \/ \E h \in Handles, ttl \in TTLs : \/ locks' = [locks EXCEPT ![t] = Redis!Stamped(h, Redis!Until(ttl))]
                                            \/ locks' = [locks EXCEPT ![t].expires = Redis!Until(ttl)]
    BY <2>1 DEF Redis!ForceReleaseLock, Redis!ReleaseLock, Redis!AcquireLock, Redis!ExtendLock
  <2>6. \A ttl \in TTLs : [locks[t] EXCEPT !.expires = Redis!Until(ttl)] \in Keys
    BY <1>2, <2>3
  <2> HIDE DEF Keys
  <2>7. locks' \in [Threads -> Keys]
    BY <2>3, <2>4, <2>5, <2>6
  <2> QED
    BY <2>2, <2>7 DEF Keys, Redis!IndInv, Redis!TypeOK, Redis!StampedSet
<1>7. CASE Redis!Cache
  <2>1. /\ UNCHANGED <<now, connected, subscriptions, locks, listed, queued, issued>>
        /\ \/ cached' = cached \/ cached' = Redis!NoKey
           \/ \E v \in Values, ttl \in TTLs \cup {Never} : cached' = Redis!Stamped(v, Redis!Until(ttl))
    BY <1>7 DEF Redis!Cache, Redis!Get, Redis!Delete, Redis!SetValue, Redis!SetIfNotExists, Redis!Called, Redis!keys
  <2>2. cached' \in Redis!StampedSet(Values \cup {None})
    BY <1>1, <1>2, <2>1 DEF Redis!TypeOK, Redis!NoKey, Redis!Stamped, Redis!StampedSet
  <2> QED
    BY <2>1, <2>2 DEF Redis!IndInv, Redis!TypeOK, Redis!StampedSet
<1>8. CASE Redis!Lists
  <2>1. /\ UNCHANGED <<now, connected, subscriptions, locks, cached, queued, issued>>
        /\ \/ listed' = listed
           \/ \E v \in Values, ttl \in TTLs \cup {Never}, size \in MaxSizes \cup {0} :
                listed' = Redis!Stamped(Redis!Trim(Append(Redis!Items(listed), v), size),
                            IF ttl = Never /\ ~Redis!Over(listed) THEN listed.expires ELSE Redis!Until(ttl))
    BY <1>8 DEF Redis!Lists, Redis!GetList, Redis!AppendToList, Redis!Called, Redis!keys
  <2>2. ASSUME NEW v \in Values, NEW ttl \in TTLs \cup {Never}, NEW size \in MaxSizes \cup {0},
               listed' = Redis!Stamped(Redis!Trim(Append(Redis!Items(listed), v), size),
                           IF ttl = Never /\ ~Redis!Over(listed) THEN listed.expires ELSE Redis!Until(ttl))
        PROVE  listed' \in Redis!StampedSet(Seq(Values))
    <3>1. Append(Redis!Items(listed), v) \in Seq(Values) /\ size \in Nat
      BY <1>1, RedisItems
    <3>2. Redis!Trim(Append(Redis!Items(listed), v), size) \in Seq(Values)
      BY <3>1, TrimIsSeq
    <3>3. listed.expires \in Nat \cup {Never}
      BY <1>1 DEF Redis!TypeOK, Redis!StampedSet
    <3> QED
      BY <1>2, <2>2, <3>2, <3>3 DEF Redis!Stamped, Redis!StampedSet
  <2>3. listed' \in Redis!StampedSet(Seq(Values))
    BY <1>1, <2>1, <2>2 DEF Redis!TypeOK
  <2> QED
    BY <2>1, <2>3 DEF Redis!IndInv, Redis!TypeOK, Redis!StampedSet
<1>9. CASE Redis!Queues
  <2>1. UNCHANGED <<now, connected, subscriptions, locks, cached, listed, issued>>
    BY <1>9 DEF Redis!Queues, Redis!Dequeue, Redis!QueueDepth, Redis!Enqueue, Redis!Called, Redis!keys
  <2>2. /\ queued \in [of : Seq(Entries), expires : Nat]
        /\ queued.of # <<>> => queued.of[Len(queued.of)].expires <= queued.expires
    BY DEF Redis!IndInv, Redis!TypeOK, Entries
  <2>3. SUFFICES /\ queued' \in [of : Seq(Entries), expires : Nat]
                 /\ queued'.of # <<>> => queued'.of[Len(queued'.of)].expires <= queued'.expires
    BY <1>1, <2>1 DEF Redis!IndInv, Redis!TypeOK, Redis!StampedSet, Entries
  <2>4. CASE queued' = queued
    BY <2>2, <2>4
  <2>5. CASE queued' = Redis!NoList
    <3>1. <<>> \in Seq(Entries)
      BY EmptySeq
    <3> QED
      BY <2>5, <3>1 DEF Redis!NoList, Redis!Stamped
  <2>6. CASE queued.of # <<>> /\ Len(queued.of) # 1 /\ queued' = [queued EXCEPT !.of = Tail(@)]
    <3>1. queued.of \in Seq(Entries)
      BY <2>2
    <3>2. Tail(queued.of) \in Seq(Entries) /\ Tail(queued.of)[Len(Tail(queued.of))] = queued.of[Len(queued.of)]
      BY <2>6, <3>1, TailKeepsLast
    <3>4. queued'.of = Tail(queued.of) /\ queued'.expires = queued.expires
      BY <2>2, <2>6
    <3> QED
      BY <2>2, <2>6, <3>2, <3>4
  <2>7. ASSUME NEW p \in Processes, NEW v \in Values, NEW ttl \in TTLs, NEW size \in MaxSizes, Redis!Enqueue(p, v, ttl, size)
        PROVE  /\ queued' \in [of : Seq(Entries), expires : Nat]
               /\ queued'.of # <<>> => queued'.of[Len(queued'.of)].expires <= queued'.expires
    <3> DEFINE entries == Redis!Trim(Append(Redis!Items(queued), Redis!Stamped(v, Redis!Until(ttl))), size)
               most    == IF ttl > Floor THEN ttl ELSE Floor
    <3>1. entries \in Seq(Entries) /\ entries[Len(entries)] = Redis!Stamped(v, Redis!Until(ttl))
      BY <1>1, EnqueueLeaves
    <3>2. queued' = Redis!Stamped(entries, Redis!Until(most))
      BY <2>7 DEF Redis!Enqueue
    <3> HIDE DEF entries
    <3>3. /\ Redis!Until(ttl) = now + ttl /\ Redis!Until(most) = now + most /\ most \in Nat /\ ttl \in Nat /\ ttl <= most
      BY DEF Redis!Until
    <3>4. queued'.of = entries /\ queued'.expires = Redis!Until(most) /\ queued' \in [of : Seq(Entries), expires : Nat]
      BY <1>1, <3>1, <3>2, <3>3 DEF Redis!Stamped
    <3>5. queued'.of[Len(queued'.of)].expires = now + ttl
      BY <3>1, <3>3, <3>4 DEF Redis!Stamped
    <3> QED
      BY <1>1, <3>3, <3>4, <3>5
  <2>8. PICK p \in Processes :
          \/ Redis!Dequeue(p) \/ Redis!QueueDepth(p)
          \/ \E v \in Values, ttl \in TTLs, size \in MaxSizes : Redis!Enqueue(p, v, ttl, size)
    BY <1>9 DEF Redis!Queues
  <2>9. CASE Redis!Dequeue(p)
    <3>1. Redis!Items(queued) # <<>> => queued.of # <<>>
      BY DEF Redis!Items
    <3> QED
      BY <2>4, <2>5, <2>6, <2>9, <3>1 DEF Redis!Dequeue
  <2>10. CASE Redis!QueueDepth(p)
    BY <2>4, <2>10 DEF Redis!QueueDepth, Redis!keys
  <2> QED
    BY <2>7, <2>8, <2>9, <2>10
<1> QED
  BY <1>3, <1>4, <1>5, <1>6, <1>7, <1>8, <1>9 DEF RedisNext

-----------------------------------------------------------------------------
(***************************************************************************)
(* Redis keeps the contract                                                *)
(***************************************************************************)

(* Names of the refinement mapping, for the reader.                          *)
RLock  == [t \in Threads |-> Redis!Left(locks[t])]
RQueue == [i \in DOMAIN Redis!Items(queued) |-> Redis!Left(queued.of[i])]
RSeen  == [of : Values, left : Nat]

LEMMA RedisUntouched ==
  ASSUME UNCHANGED now
  PROVE  /\ UNCHANGED locks => UNCHANGED RLock
         /\ UNCHANGED cached => UNCHANGED Redis!Left(cached)
         /\ UNCHANGED listed => UNCHANGED Redis!Left(listed)
         /\ UNCHANGED queued => UNCHANGED RQueue
         /\ \A x : Redis!Left(x)' = Redis!Left(x) /\ Redis!Over(x)' = Redis!Over(x)
BY DEF RLock, RQueue, Redis!Left, Redis!Items, Redis!Over

(* What is stored now has all its time left.                                 *)
LEMMA RedisLeftOfNew ==
  ASSUME now \in Nat, NEW x, NEW ttl \in TTLs \cup {Never}
  PROVE  /\ Redis!Left(Redis!Stamped(x, Redis!Until(ttl))) = Redis!Contract!Of(x, ttl)
         /\ ~Redis!Over(Redis!Stamped(x, Redis!Until(ttl)))
<1>1. CASE ttl = Never
  BY <1>1 DEF Redis!Until, Redis!Left, Redis!Stamped, Redis!Over, Redis!Contract!Of
<1>2. CASE ttl # Never
  <2>1. ttl \in Nat \ {0}
    BY <1>2
  <2>2. now + ttl # Never /\ ~(now + ttl <= now) /\ (now + ttl) - now = ttl
    BY <2>1
  <2> QED
    BY <1>2, <2>2 DEF Redis!Until, Redis!Left, Redis!Stamped, Redis!Over, Redis!Contract!Of
<1> QED
  BY <1>1, <1>2

(* What is not over is what has time left.                                   *)
LEMMA RedisOverIsLapsed ==
  ASSUME now \in Nat, NEW x, x.expires \in Nat \cup {Never}
  PROVE  Redis!Contract!Live(Redis!Left(x)) <=> ~Redis!Over(x)
BY DEF Redis!Left, Redis!Over, Redis!Contract!Live

LEMMA RedisNothing ==
  ASSUME now \in Nat
  PROVE  /\ Redis!Left(Redis!NoKey) = Redis!Contract!NoLock /\ Redis!Left(Redis!NoKey) = Redis!Contract!NoEntry
         /\ Redis!Left(Redis!NoList) = Redis!Contract!NoList
         /\ Redis!Over(Redis!NoKey) /\ Redis!Over(Redis!NoList) /\ Redis!Items(Redis!NoList) = <<>>
<1>1. Never # 0
  OBVIOUS
<1> QED
  BY <1>1 DEF Redis!NoKey, Redis!NoList, Redis!Stamped, Redis!Left, Redis!Over, Redis!Items,
              Redis!Contract!NoLock, Redis!Contract!NoEntry, Redis!Contract!NoList, Redis!Contract!Of

(* The contract sees a queue as long as it is, every entry where it stands.  *)
LEMMA RedisQueueIsSeq ==
  ASSUME Redis!TypeOK
  PROVE  /\ Redis!Items(queued) \in Seq(Entries) /\ RQueue \in Seq(RSeen)
         /\ Len(RQueue) = Len(Redis!Items(queued))
         /\ \A i \in 1..Len(Redis!Items(queued)) : RQueue[i] = Redis!Left(Redis!Items(queued)[i])
         /\ Redis!Items(queued) # <<>> => Redis!Items(queued) = queued.of /\ ~Redis!Over(queued)
<1>1. Redis!Items(queued) \in Seq(Entries) /\ now \in Nat
  BY RedisItems DEF Redis!TypeOK
<1>2. /\ Len(Redis!Items(queued)) \in Nat /\ DOMAIN Redis!Items(queued) = 1..Len(Redis!Items(queued))
      /\ \A i \in 1..Len(Redis!Items(queued)) : Redis!Items(queued)[i] \in Entries
  BY <1>1, LenProperties, ElementOfSeq
<1>3. Redis!Items(queued) # <<>> => Redis!Items(queued) = queued.of /\ ~Redis!Over(queued)
  BY DEF Redis!Items
<1>4. \A i \in 1..Len(Redis!Items(queued)) : queued.of[i] = Redis!Items(queued)[i]
  <2>1. CASE Redis!Items(queued) = <<>>
    BY <2>1
  <2>2. CASE Redis!Items(queued) # <<>>
    BY <1>3, <2>2
  <2> QED
    BY <2>1, <2>2
<1>5. \A x \in Entries : Redis!Left(x) \in RSeen
  BY <1>1 DEF Entries, Redis!Left, RSeen
<1>6. RQueue = [i \in 1..Len(Redis!Items(queued)) |-> Redis!Left(Redis!Items(queued)[i])]
  BY <1>2, <1>4 DEF RQueue
<1>7. \A i \in 1..Len(Redis!Items(queued)) : Redis!Left(Redis!Items(queued)[i]) \in RSeen
  BY <1>2, <1>5
<1> QED
  BY <1>1, <1>2, <1>3, <1>6, <1>7

LEMMA RedisQueueIsSeqNext ==
  ASSUME Redis!TypeOK', now' = now
  PROVE  /\ Redis!Items(queued)' \in Seq(Entries) /\ RQueue' \in Seq(RSeen)
         /\ Len(RQueue') = Len(Redis!Items(queued)')
         /\ \A i \in 1..Len(Redis!Items(queued)') : RQueue'[i] = Redis!Left(Redis!Items(queued)'[i])
<1>1. /\ (Redis!Items(queued) \in Seq(Entries))' /\ (RQueue \in Seq(RSeen))'
      /\ (Len(RQueue) = Len(Redis!Items(queued)))'
      /\ (\A i \in 1..Len(Redis!Items(queued)) : RQueue[i] = Redis!Left(Redis!Items(queued)[i]))'
  BY RedisQueueIsSeq, PTL
<1> QED
  BY <1>1 DEF Redis!Left, RSeen, Entries

LEMMA RedisStartsAsContract ==
  Redis!Init => Redis!Contract!Init
<1> SUFFICES ASSUME Redis!Init PROVE Redis!Contract!Init
  OBVIOUS
<1>1. now = 0 /\ queued = Redis!NoList
  BY DEF Redis!Init
<1>2. [t \in Threads |-> Redis!Left(locks[t])] = [t \in Threads |-> Redis!Contract!NoLock]
  BY <1>1, RedisNothing DEF Redis!Init
<1>3. Redis!Items(queued) = <<>>
  BY <1>1, RedisNothing
<1>4. [i \in DOMAIN Redis!Items(queued) |-> Redis!Left(queued.of[i])] = <<>>
  BY <1>3
<1>5. Redis!Left(cached) = Redis!Contract!NoEntry /\ Redis!Left(listed) = Redis!Contract!NoList
  BY <1>1, RedisNothing DEF Redis!Init
<1> QED
  BY <1>2, <1>4, <1>5 DEF Redis!Init, Redis!Contract!Init

(* What is left at an instant.                                               *)
LeftAt(x, instant) ==
  [of   |-> x.of,
   left |-> IF x.expires = Never THEN Never ELSE IF x.expires <= instant THEN 0 ELSE x.expires - instant]

LEMMA LeftAges ==
  ASSUME now \in Nat, now' = now + 1, NEW x, x.expires \in Nat \cup {Never}
  PROVE  /\ LeftAt(x, now + 1) = Redis!Contract!Aged(LeftAt(x, now))
         /\ LeftAt(x, now + 1) = Pg!Contract!Aged(LeftAt(x, now))
<1>1. CASE x.expires = Never
  BY <1>1 DEF LeftAt, Redis!Contract!Aged, Pg!Contract!Aged
<1>2. CASE x.expires \in Nat /\ x.expires <= now
  <2>1. LeftAt(x, now) = [of |-> x.of, left |-> 0] /\ LeftAt(x, now + 1) = [of |-> x.of, left |-> 0]
    BY <1>2 DEF LeftAt
  <2> QED
    BY <2>1 DEF Redis!Contract!Aged, Pg!Contract!Aged
<1>3. CASE x.expires \in Nat /\ x.expires > now
  <2>1. /\ LeftAt(x, now) = [of |-> x.of, left |-> x.expires - now]
        /\ LeftAt(x, now + 1) = [of |-> x.of, left |-> x.expires - now - 1]
    BY <1>3 DEF LeftAt
  <2>2. x.expires - now \in Nat \ {0}
    BY <1>3
  <2> QED
    BY <2>1, <2>2 DEF Redis!Contract!Aged, Pg!Contract!Aged, Redis!Contract!Of, Pg!Contract!Of
<1> QED
  BY <1>1, <1>2, <1>3

(* The key of a queue runs out no sooner than its last entry.                *)
LEMMA RedisTickIsContract ==
  ASSUME Redis!IndInv, Redis!Tick
  PROVE  Redis!Contract!Tick
<1>1. Redis!TypeOK /\ now \in Nat /\ now' = now + 1 /\ UNCHANGED <<locks, cached, listed, queued>>
  BY DEF Redis!IndInv, Redis!TypeOK, Redis!Tick, Redis!keys
<1>2. \A x : Redis!Left(x) = LeftAt(x, now) /\ Redis!Left(x)' = LeftAt(x, now')
  BY DEF Redis!Left, LeftAt
<1>3. \A x : x.expires \in Nat \cup {Never} => Redis!Left(x)' = Redis!Contract!Aged(Redis!Left(x))
  BY <1>1, <1>2, LeftAges
<1>4. RLock' = [t \in Threads |-> Redis!Contract!Aged(RLock[t])]
  <2>1. \A t \in Threads : locks[t].expires \in Nat
    BY <1>1 DEF Redis!TypeOK
  <2>2. \A t \in Threads : Redis!Left(locks[t])' = Redis!Contract!Aged(Redis!Left(locks[t]))
    BY <1>1, <1>2, <1>3, <2>1 DEF LeftAt
  <2> QED
    BY <2>2 DEF RLock
<1>5. /\ Redis!Left(cached)' = Redis!Contract!Aged(Redis!Left(cached))
      /\ Redis!Left(listed)' = Redis!Contract!Aged(Redis!Left(listed))
  <2>1. cached.expires \in Nat \cup {Never} /\ listed.expires \in Nat \cup {Never}
    BY <1>1 DEF Redis!TypeOK, Redis!StampedSet
  <2> QED
    BY <1>1, <1>2, <1>3, <2>1 DEF LeftAt
<1>6. \/ RQueue' = [i \in DOMAIN RQueue |-> Redis!Contract!Aged(RQueue[i])]
      \/ /\ RQueue # <<>> /\ RQueue' = <<>>
         /\ ~Redis!Contract!Live(Redis!Contract!Aged(RQueue[Len(RQueue)]))
  <2>1. /\ queued.of \in Seq(Entries) /\ queued.expires \in Nat
        /\ queued.of # <<>> => queued.of[Len(queued.of)].expires <= queued.expires
    BY DEF Redis!IndInv, Redis!TypeOK, Entries
  <2>2. CASE Redis!Items(queued)' = Redis!Items(queued)
    <3>1. \A i \in DOMAIN RQueue : RQueue'[i] = Redis!Contract!Aged(RQueue[i])
      <4>1. \A i \in DOMAIN Redis!Items(queued) : queued.of[i].expires \in Nat
        <5>1. \A i \in 1..Len(queued.of) : queued.of[i] \in Entries
          BY <2>1, ElementOfSeq
        <5>2. DOMAIN Redis!Items(queued) \subseteq 1..Len(queued.of)
          BY <2>1, LenProperties DEF Redis!Items
        <5> QED
          BY <5>1, <5>2 DEF Entries
      <4>2. \A i \in DOMAIN Redis!Items(queued) : Redis!Left(queued.of[i])' = Redis!Contract!Aged(Redis!Left(queued.of[i]))
        BY <1>1, <1>2, <1>3, <4>1 DEF LeftAt
      <4> QED
        BY <2>2, <4>2 DEF RQueue
    <3> QED
      BY <2>2, <3>1 DEF RQueue
  <2>3. CASE Redis!Items(queued)' # Redis!Items(queued)
    <3>1. ~Redis!Over(queued) /\ Redis!Over(queued)' /\ Redis!Items(queued) = queued.of /\ queued.of # <<>>
      BY <1>1, <2>1, <2>3 DEF Redis!Items, Redis!Over
    <3>2. RQueue' = <<>>
      BY <3>1 DEF RQueue, Redis!Items
    <3>3. /\ Len(RQueue) = Len(queued.of) /\ Len(queued.of) \in 1..Len(queued.of)
          /\ RQueue[Len(RQueue)] = Redis!Left(queued.of[Len(queued.of)]) /\ RQueue # <<>>
      <4>1. Len(queued.of) \in Nat /\ Len(queued.of) # 0
        BY <2>1, <3>1, LenProperties, EmptySeq
      <4>2. Len(queued.of) \in 1..Len(queued.of)
        BY <4>1
      <4>3. Len(RQueue) = Len(queued.of) /\ RQueue[Len(queued.of)] = Redis!Left(queued.of[Len(queued.of)])
        BY <1>1, <3>1, <4>2, RedisQueueIsSeq
      <4>4. RQueue # <<>>
        BY <4>1, <4>3
      <4> QED
        BY <4>2, <4>3, <4>4
    <3> DEFINE last == queued.of[Len(queued.of)]
    <3>4. last.expires \in Nat
      <4>1. last \in Entries
        BY <2>1, <3>3, ElementOfSeq, Zenon
      <4> QED
        BY <4>1 DEF Entries
    <3>5. last.expires <= now + 1
      <4>1. queued.expires <= now + 1
        BY <1>1, <3>1 DEF Redis!Over
      <4> QED
        BY <1>1, <2>1, <3>1, <3>4, <4>1
    <3> HIDE DEF last
    <3>6. Redis!Contract!Aged(Redis!Left(last)) = LeftAt(last, now + 1)
      BY <1>1, <1>2, <3>4, LeftAges
    <3>7. ~Redis!Contract!Live(LeftAt(last, now + 1))
      BY <1>1, <3>4, <3>5 DEF LeftAt, Redis!Contract!Live
    <3> QED
      BY <3>2, <3>3, <3>6, <3>7 DEF last
  <2> QED
    BY <2>2, <2>3
<1> QED
  BY <1>4, <1>5, <1>6 DEF Redis!Tick, Redis!keys, Redis!Contract!Tick, RLock, RQueue

LEMMA RedisSubscriptionIsContract ==
  ASSUME NEW p \in Processes, NEW t \in Threads,
         Redis!Subscribe(p, t) \/ Redis!Unsubscribe(p, t) \/ Redis!IsSubscribed(p, t)
  PROVE  Redis!Contract!Subscription(t)
<1>1. UNCHANGED <<now, locks, cached, listed, queued, issued>>
  BY DEF Redis!Subscribe, Redis!Unsubscribe, Redis!IsSubscribed, Redis!Called, Redis!keys
<1>2. UNCHANGED <<RLock, Redis!Left(cached), Redis!Left(listed), RQueue, issued>>
  BY <1>1, RedisUntouched
<1> QED
  BY <1>2 DEF Redis!Subscribe, Redis!Unsubscribe, Redis!IsSubscribed, Redis!keys, Redis!Contract!Subscription,
              Redis!When, Redis!Contract!When, RLock, RQueue

(* One lock is set, the others stay.                                         *)
LEMMA RedisLockSet ==
  ASSUME Redis!TypeOK, UNCHANGED now, NEW t \in Threads, NEW x, locks' = [locks EXCEPT ![t] = x]
  PROVE  RLock' = [u \in Threads |-> IF u = t THEN Redis!Left(x) ELSE RLock[u]]
<1>1. RLock' = [u \in Threads |-> Redis!Left(locks'[u])]
  BY RedisUntouched DEF RLock
<1>2. \A u \in Threads : locks'[u] = IF u = t THEN x ELSE locks[u]
  BY DEF Redis!TypeOK
<1> QED
  BY <1>1, <1>2 DEF RLock

LEMMA RedisLocksAreContract ==
  ASSUME Redis!TypeOK, NEW p \in Processes, NEW t \in Threads
  PROVE  /\ Redis!ForceReleaseLock(p, t) => Redis!Contract!ForceReleaseLock(t)
         /\ \A h \in Handles :
              /\ Redis!ReleaseLock(p, t, h) => Redis!Contract!ReleaseLock(t, h) \/ Redis!Contract!Subscription(t)
              /\ \A ttl \in TTLs :
                   /\ Redis!AcquireLock(p, t, h, ttl) => Redis!Contract!AcquireLock(t, h, ttl)
                   /\ Redis!ExtendLock(p, t, h, ttl) => Redis!Contract!ExtendLock(t, h, ttl)
<1>1. now \in Nat /\ RLock[t] = Redis!Left(locks[t]) /\ RLock[t].of = locks[t].of
  BY DEF Redis!TypeOK, RLock, Redis!Left
<1>2. Redis!Contract!Live(RLock[t]) <=> ~Redis!Over(locks[t])
  <2>1. locks[t].expires \in Nat
    BY DEF Redis!TypeOK
  <2> QED
    BY <1>1, <2>1, RedisOverIsLapsed
<1>3. ASSUME UNCHANGED now, locks' = [locks EXCEPT ![t] = Redis!NoKey]
      PROVE  RLock' = Redis!Contract!Without({t})
  <2>1. RLock' = [u \in Threads |-> IF u = t THEN Redis!Contract!NoLock ELSE RLock[u]]
    BY <1>1, <1>3, RedisLockSet, RedisNothing
  <2> QED
    BY <2>1 DEF Redis!Contract!Without, RLock
<1>4. ASSUME Redis!ForceReleaseLock(p, t)
      PROVE  Redis!Contract!ForceReleaseLock(t)
  <2>1. UNCHANGED <<Redis!Left(cached), Redis!Left(listed), RQueue>>
    BY <1>4, RedisUntouched DEF Redis!ForceReleaseLock, Redis!Called
  <2> QED
    BY <1>3, <1>4, <2>1 DEF Redis!ForceReleaseLock, Redis!Called, Redis!Contract!ForceReleaseLock, RLock, RQueue
<1>5. ASSUME NEW h \in Handles, Redis!ReleaseLock(p, t, h)
      PROVE  Redis!Contract!ReleaseLock(t, h) \/ Redis!Contract!Subscription(t)
  <2>1. UNCHANGED <<now, subscriptions, issued, Redis!Left(cached), Redis!Left(listed), RQueue>> /\ reply' = <<>>
    BY <1>5, RedisUntouched DEF Redis!ReleaseLock, Redis!Called
  <2>2. CASE Redis!Holds(t, h)
    <3>1. RLock' = Redis!Contract!Without({t}) /\ RLock[t].of = h
      BY <1>1, <1>3, <1>5, <2>1, <2>2 DEF Redis!ReleaseLock, Redis!Holds
    <3> QED
      BY <2>1, <3>1 DEF Redis!Contract!ReleaseLock, RLock, RQueue
  <2>3. CASE ~Redis!Holds(t, h)
    <3>1. UNCHANGED RLock
      BY <1>5, <2>1, <2>3, RedisUntouched DEF Redis!ReleaseLock
    <3>2. subscriptions' = subscriptions \cup {t} \/ subscriptions' = subscriptions \ {t}
      BY <2>1
    <3> QED
      BY <2>1, <3>1, <3>2 DEF Redis!Contract!Subscription, RLock, RQueue
  <2> QED
    BY <2>2, <2>3
<1>6. ASSUME NEW h \in Handles, NEW ttl \in TTLs, Redis!AcquireLock(p, t, h, ttl)
      PROVE  Redis!Contract!AcquireLock(t, h, ttl)
  <2>1. UNCHANGED <<now, subscriptions, Redis!Left(cached), Redis!Left(listed), RQueue>>
    BY <1>6, RedisUntouched DEF Redis!AcquireLock, Redis!Called
  <2>2. Redis!Contract!Without({}) = RLock
    BY DEF Redis!Contract!Without, RLock
  <2>3. RLock' = IF Redis!Contract!Live(RLock[t]) THEN Redis!Contract!Without({})
                 ELSE [Redis!Contract!Without({}) EXCEPT ![t] = Redis!Contract!Of(h, ttl)]
    <3>1. CASE Redis!Over(locks[t])
      <4>1. locks' = [locks EXCEPT ![t] = Redis!Stamped(h, Redis!Until(ttl))]
        BY <1>6, <3>1 DEF Redis!AcquireLock
      <4>2. RLock' = [u \in Threads |-> IF u = t THEN Redis!Contract!Of(h, ttl) ELSE RLock[u]]
        <5>1. Redis!Left(Redis!Stamped(h, Redis!Until(ttl))) = Redis!Contract!Of(h, ttl)
          BY <1>1, RedisLeftOfNew
        <5>2. RLock' = [u \in Threads |-> IF u = t THEN Redis!Left(Redis!Stamped(h, Redis!Until(ttl))) ELSE RLock[u]]
          BY <2>1, <4>1, RedisLockSet
        <5> QED
          BY <5>1, <5>2
      <4>3. [RLock EXCEPT ![t] = Redis!Contract!Of(h, ttl)] = [u \in Threads |-> IF u = t THEN Redis!Contract!Of(h, ttl) ELSE RLock[u]]
        BY DEF RLock
      <4> QED
        BY <1>2, <2>2, <3>1, <4>2, <4>3
    <3>2. CASE ~Redis!Over(locks[t])
      BY <1>2, <1>6, <2>1, <2>2, <3>2, RedisUntouched DEF Redis!AcquireLock
    <3> QED
      BY <3>1, <3>2
  <2>4. {} \in SUBSET Redis!Contract!Lapsed
    OBVIOUS
  <2>5. reply' = Redis!Contract!When(~Redis!Contract!Live(RLock[t]), h)
    BY <1>2, <1>6 DEF Redis!AcquireLock, Redis!When, Redis!Contract!When
  <2> QED
    BY <1>6, <2>1, <2>3, <2>4, <2>5 DEF Redis!AcquireLock, Redis!Contract!AcquireLock, RLock, RQueue
<1>7. ASSUME NEW h \in Handles, NEW ttl \in TTLs, Redis!ExtendLock(p, t, h, ttl)
      PROVE  Redis!Contract!ExtendLock(t, h, ttl)
  <2>1. UNCHANGED <<now, subscriptions, issued, Redis!Left(cached), Redis!Left(listed), RQueue>>
    BY <1>7, RedisUntouched DEF Redis!ExtendLock, Redis!Called
  <2>2. CASE Redis!Holds(t, h)
    <3>1. locks' = [locks EXCEPT ![t].expires = Redis!Until(ttl)] /\ reply' = <<h>> /\ locks[t].of = h
      BY <1>7, <2>2 DEF Redis!ExtendLock, Redis!When, Redis!Holds
    <3>2. locks' = [locks EXCEPT ![t] = Redis!Stamped(h, Redis!Until(ttl))]
      <4>1. [locks[t] EXCEPT !.expires = Redis!Until(ttl)] = Redis!Stamped(h, Redis!Until(ttl))
        BY <3>1 DEF Redis!TypeOK, Redis!Stamped
      <4> QED
        BY <3>1, <4>1, Zenon
    <3>3. RLock' = [u \in Threads |-> IF u = t THEN Redis!Contract!Of(h, ttl) ELSE RLock[u]]
      <4>1. Redis!Left(Redis!Stamped(h, Redis!Until(ttl))) = Redis!Contract!Of(h, ttl)
        BY <1>1, RedisLeftOfNew
      <4>2. RLock' = [u \in Threads |-> IF u = t THEN Redis!Left(Redis!Stamped(h, Redis!Until(ttl))) ELSE RLock[u]]
        BY <2>1, <3>2, RedisLockSet
      <4> QED
        BY <4>1, <4>2
    <3>4. RLock' = [RLock EXCEPT ![t] = Redis!Contract!Of(h, ttl)]
      BY <3>3 DEF RLock
    <3> QED
      BY <1>1, <2>1, <3>1, <3>4 DEF Redis!Contract!ExtendLock, RLock, RQueue
  <2>3. CASE ~Redis!Holds(t, h)
    <3>1. UNCHANGED RLock /\ reply' = <<>>
      BY <1>7, <2>1, <2>3, RedisUntouched DEF Redis!ExtendLock, Redis!When
    <3>2. RLock[t].of # h \/ ~Redis!Contract!Live(RLock[t])
      BY <1>1, <1>2, <2>3 DEF Redis!Holds
    <3> QED
      BY <2>1, <3>1, <3>2 DEF Redis!Contract!ExtendLock, RLock, RQueue
  <2> QED
    BY <2>2, <2>3
<1> QED
  BY <1>4, <1>5, <1>6, <1>7

LEMMA RedisCacheIsContract ==
  ASSUME Redis!TypeOK, NEW p \in Processes
  PROVE  /\ Redis!Get(p) => Redis!Contract!Get
         /\ Redis!Delete(p) => Redis!Contract!Delete
         /\ \A v \in Values, ttl \in TTLs \cup {Never} :
              /\ Redis!SetValue(p, v, ttl) => Redis!Contract!SetValue(v, ttl)
              /\ Redis!SetIfNotExists(p, v, ttl) => Redis!Contract!SetIfNotExists(v, ttl)
<1>1. now \in Nat /\ Redis!Left(cached).of = cached.of
  BY DEF Redis!TypeOK, Redis!Left
<1>2. Redis!Contract!Live(Redis!Left(cached)) <=> ~Redis!Over(cached)
  <2>1. cached.expires \in Nat \cup {Never}
    BY DEF Redis!TypeOK, Redis!StampedSet
  <2> QED
    BY <1>1, <2>1, RedisOverIsLapsed
<1>3. ASSUME UNCHANGED <<now, locks, listed, queued>>
      PROVE  UNCHANGED <<RLock, Redis!Left(listed), RQueue>> /\ Redis!Left(cached)' = Redis!Left(cached')
  BY <1>3, RedisUntouched DEF Redis!Left
<1>4. ASSUME Redis!Get(p) PROVE Redis!Contract!Get
  <2>1. UNCHANGED <<RLock, Redis!Left(listed), RQueue, Redis!Left(cached), subscriptions, issued>>
    BY <1>4, RedisUntouched DEF Redis!Get, Redis!Called, Redis!keys
  <2> QED
    BY <1>1, <1>2, <1>4, <2>1 DEF Redis!Get, Redis!Contract!Get, Redis!When, Redis!Contract!When, RLock, RQueue
<1>5. ASSUME Redis!Delete(p) PROVE Redis!Contract!Delete
  <2>1. UNCHANGED <<RLock, Redis!Left(listed), RQueue>> /\ Redis!Left(cached)' = Redis!Contract!NoEntry
    BY <1>1, <1>3, <1>5, RedisNothing DEF Redis!Delete, Redis!Called
  <2> QED
    BY <1>5, <2>1 DEF Redis!Delete, Redis!Contract!Delete, RLock, RQueue
<1>6. ASSUME NEW v \in Values, NEW ttl \in TTLs \cup {Never}, Redis!SetValue(p, v, ttl)
      PROVE  Redis!Contract!SetValue(v, ttl)
  <2>1. UNCHANGED <<RLock, Redis!Left(listed), RQueue>> /\ Redis!Left(cached)' = Redis!Contract!Of(v, ttl)
    BY <1>1, <1>3, <1>6, RedisLeftOfNew DEF Redis!SetValue, Redis!Called
  <2> QED
    BY <1>6, <2>1 DEF Redis!SetValue, Redis!Contract!SetValue, RLock, RQueue
<1>7. ASSUME NEW v \in Values, NEW ttl \in TTLs \cup {Never}, Redis!SetIfNotExists(p, v, ttl)
      PROVE  Redis!Contract!SetIfNotExists(v, ttl)
  <2>1. /\ UNCHANGED <<RLock, Redis!Left(listed), RQueue>>
        /\ Redis!Left(cached)' = IF Redis!Over(cached) THEN Redis!Contract!Of(v, ttl) ELSE Redis!Left(cached)
    BY <1>1, <1>3, <1>7, RedisLeftOfNew DEF Redis!SetIfNotExists, Redis!Called
  <2> QED
    BY <1>2, <1>7, <2>1
    DEF Redis!SetIfNotExists, Redis!Contract!SetIfNotExists, Redis!When, RLock, RQueue
<1> QED
  BY <1>4, <1>5, <1>6, <1>7

LEMMA RedisListsAreContract ==
  ASSUME Redis!TypeOK, NEW p \in Processes
  PROVE  /\ Redis!GetList(p) => Redis!Contract!GetList
         /\ \A v \in Values, ttl \in TTLs \cup {Never}, size \in MaxSizes \cup {0} :
              Redis!AppendToList(p, v, size, ttl) => Redis!Contract!AppendToList(v, size, ttl)
<1>1. now \in Nat /\ listed.expires \in Nat \cup {Never}
  BY DEF Redis!TypeOK, Redis!StampedSet
<1>2. Redis!Contract!Live(Redis!Left(listed)) <=> ~Redis!Over(listed)
  BY <1>1, RedisOverIsLapsed
<1>3. Redis!Contract!Items = Redis!Items(listed)
  BY <1>2 DEF Redis!Contract!Items, Redis!Items, Redis!Left
<1>4. ASSUME Redis!GetList(p) PROVE Redis!Contract!GetList
  <2>1. UNCHANGED <<RLock, Redis!Left(cached), Redis!Left(listed), RQueue>> /\ reply' = Redis!Contract!Items
    BY <1>3, <1>4, RedisUntouched DEF Redis!GetList, Redis!Called, Redis!keys
  <2> QED
    BY <1>4, <2>1 DEF Redis!GetList, Redis!keys, Redis!Contract!GetList, RLock, RQueue
<1>5. ASSUME NEW v \in Values, NEW ttl \in TTLs \cup {Never}, NEW size \in MaxSizes \cup {0},
             Redis!AppendToList(p, v, size, ttl)
      PROVE  Redis!Contract!AppendToList(v, size, ttl)
  <2> DEFINE kept    == Redis!Trim(Append(Redis!Items(listed), v), size)
             keeps   == ttl = Never /\ ~Redis!Over(listed)
             expires == IF keeps THEN listed.expires ELSE Redis!Until(ttl)
             left    == IF keeps THEN Redis!Left(listed).left ELSE ttl
  <2>1. kept = Redis!Contract!Trimmed(Append(Redis!Contract!Items, v), size)
    BY <1>3 DEF Redis!Contract!Trimmed, Redis!Contract!Newest, Redis!Trim
  <2>2. UNCHANGED <<RLock, Redis!Left(cached), RQueue>> /\ now' = now
    BY <1>5, RedisUntouched DEF Redis!AppendToList, Redis!Called
  <2>3. listed' = Redis!Stamped(kept, expires)
    BY <1>5 DEF Redis!AppendToList
  <2> HIDE DEF kept
  <2>4. Redis!Left(Redis!Stamped(kept, expires)) = Redis!Contract!Of(kept, left)
    <3>1. CASE keeps
      BY <3>1 DEF Redis!Left, Redis!Stamped, Redis!Contract!Of
    <3>2. CASE ~keeps
      BY <1>1, <3>2, RedisLeftOfNew
    <3> QED
      BY <3>1, <3>2
  <2>5. Redis!Left(listed)' = Redis!Contract!Of(kept, left)
    BY <2>2, <2>3, <2>4 DEF Redis!Left
  <2>6. left \in {ttl} \cup (IF ttl = Never /\ Redis!Contract!Live(Redis!Left(listed)) THEN {Redis!Left(listed).left} ELSE {})
    BY <1>2
  <2> HIDE DEF left
  <2> QED
    BY <1>5, <2>1, <2>2, <2>5, <2>6 DEF Redis!AppendToList, Redis!Contract!AppendToList, RLock, RQueue
<1> QED
  BY <1>4, <1>5

LEMMA RedisDequeueIsContract ==
  ASSUME Redis!TypeOK, Redis!TypeOK', NEW p \in Processes, Redis!Dequeue(p)
  PROVE  Redis!Contract!Dequeue
<1> DEFINE items == Redis!Items(queued)
<1>1. UNCHANGED <<subscriptions, issued, RLock, Redis!Left(cached), Redis!Left(listed)>> /\ now' = now
  BY RedisUntouched DEF Redis!Dequeue, Redis!Called
<1>2. /\ items \in Seq(Entries) /\ RQueue \in Seq(RSeen) /\ Len(RQueue) = Len(items)
      /\ \A i \in 1..Len(items) : RQueue[i] = Redis!Left(items[i])
      /\ items # <<>> => items = queued.of /\ ~Redis!Over(queued)
  BY RedisQueueIsSeq
<1>3. /\ RQueue' \in Seq(RSeen) /\ Len(RQueue') = Len(items')
      /\ \A i \in 1..Len(items') : RQueue'[i] = Redis!Left(items'[i])
  BY <1>1, RedisQueueIsSeqNext
<1>4. CASE items = <<>>
  <2>1. queued' = queued /\ reply' = <<>>
    BY <1>4 DEF Redis!Dequeue
  <2>2. RQueue = <<>> /\ RQueue' = RQueue
    BY <1>1, <1>2, <1>4, <2>1, RedisUntouched, EmptySeq
  <2> QED
    BY <1>1, <2>1, <2>2 DEF Redis!Contract!Dequeue, RLock, RQueue
<1>5. CASE items # <<>>
  <2>1. items = queued.of /\ ~Redis!Over(queued) /\ queued.of # <<>>
    BY <1>2, <1>5
  <2>2. Len(items) \in Nat /\ Len(items) # 0
    BY <1>2, <1>5, LenProperties, EmptySeq
  <2>3. /\ Tail(items) \in Seq(Entries) /\ Len(Tail(items)) = Len(items) - 1
        /\ \A i \in 1..Len(Tail(items)) : Tail(items)[i] = items[i + 1]
    BY <1>2, <1>5, HeadTailProperties
  <2>4. items' = Tail(items)
    <3>1. CASE Len(items) = 1
      <4>1. queued' = Redis!NoList
        BY <1>5, <2>1, <3>1 DEF Redis!Dequeue
      <4>2. items' = <<>>
        <5>1. Redis!NoList.of = <<>>
          BY DEF Redis!NoList, Redis!Stamped
        <5> QED
          BY <4>1, <5>1 DEF Redis!Items
      <4>3. Tail(items) = <<>>
        <5>1. Len(Tail(items)) = 0
          BY <2>3, <3>1
        <5> QED
          BY <2>3, <5>1, EmptySeq, Zenon
      <4> QED
        BY <4>2, <4>3
    <3>2. CASE Len(items) # 1
      <4>1. queued' = [queued EXCEPT !.of = Tail(@)]
        BY <1>5, <2>1, <3>2 DEF Redis!Dequeue
      <4>2. queued'.of = Tail(queued.of) /\ queued'.expires = queued.expires
        BY <4>1 DEF Redis!TypeOK
      <4>3. ~Redis!Over(queued')
        BY <2>1, <4>2 DEF Redis!Over
      <4> QED
        BY <1>1, <2>1, <4>2, <4>3 DEF Redis!Items, Redis!Over
    <3> QED
      BY <3>1, <3>2
  <2>5. RQueue # <<>> /\ Tail(RQueue) \in Seq(RSeen) /\ Len(Tail(RQueue)) = Len(RQueue) - 1
        /\ \A i \in 1..Len(Tail(RQueue)) : Tail(RQueue)[i] = RQueue[i + 1]
    <3>1. RQueue # <<>>
      BY <1>2, <2>2
    <3> QED
      BY <1>2, <3>1, HeadTailProperties
  <2> HIDE DEF items
  <2>6. \A i \in 1..Len(Tail(items)) : i + 1 \in 1..Len(items)
    BY <2>2, <2>3
  <2>7. \A i \in 1..Len(RQueue') : RQueue'[i] = Tail(RQueue)[i]
    BY <1>2, <1>3, <2>3, <2>4, <2>5, <2>6
  <2>8. RQueue' = Tail(RQueue)
    BY <1>2, <1>3, <2>3, <2>4, <2>5, <2>7, SeqEqual
  <2>9. Head(RQueue) = Redis!Left(Head(items))
    BY <1>2, <2>2
  <2>10. reply' = <<Head(RQueue).of>>
    <3>1. reply' = <<Head(items).of>>
      BY <1>5, <2>1 DEF Redis!Dequeue, items
    <3> QED
      BY <2>9, <3>1 DEF Redis!Left
  <2> QED
    BY <1>1, <2>5, <2>8, <2>10 DEF Redis!Contract!Dequeue, RLock, RQueue
<1> QED
  BY <1>4, <1>5

LEMMA RedisEnqueueIsContract ==
  ASSUME Redis!TypeOK, Redis!TypeOK', NEW p \in Processes,
         NEW v \in Values, NEW ttl \in TTLs, NEW size \in MaxSizes, Redis!Enqueue(p, v, ttl, size)
  PROVE  Redis!Contract!Enqueue(v, ttl, size)
<1> DEFINE items   == Redis!Items(queued)
           new     == Redis!Stamped(v, Redis!Until(ttl))
           longer  == Append(items, new)
           entries == Redis!Trim(longer, size)
           aged    == Append(RQueue, Redis!Contract!Of(v, ttl))
           most    == IF ttl > Floor THEN ttl ELSE Floor
<1>1. UNCHANGED <<subscriptions, issued, RLock, Redis!Left(cached), Redis!Left(listed)>> /\ now' = now /\ now \in Nat
  BY RedisUntouched DEF Redis!Enqueue, Redis!Called, Redis!TypeOK
<1>2. /\ items \in Seq(Entries) /\ RQueue \in Seq(RSeen) /\ Len(RQueue) = Len(items)
      /\ \A i \in 1..Len(items) : RQueue[i] = Redis!Left(items[i])
  BY RedisQueueIsSeq
<1>3. /\ RQueue' \in Seq(RSeen) /\ Len(RQueue') = Len(items')
      /\ \A i \in 1..Len(items') : RQueue'[i] = Redis!Left(items'[i])
  BY <1>1, RedisQueueIsSeqNext
<1>4. new \in Entries /\ longer \in Seq(Entries) /\ entries \in Seq(Entries)
  BY EnqueueLeaves
<1>5. items' = entries /\ reply' = <<Len(entries)>>
  <2>1. queued' = Redis!Stamped(entries, Redis!Until(most)) /\ reply' = <<Len(entries)>>
    BY DEF Redis!Enqueue
  <2>2. most \in Nat \ {0}
    <3>1. ttl \in Nat \ {0} /\ Floor \in Nat
      OBVIOUS
    <3> QED
      BY <3>1
  <2>3. Redis!Until(most) # Never /\ ~(Redis!Until(most) <= now)
    BY <1>1, <2>2 DEF Redis!Until
  <2>4. ~Redis!Over(queued') /\ queued'.of = entries
    BY <2>1, <2>3 DEF Redis!Over, Redis!Stamped
  <2> HIDE DEF entries
  <2> QED
    BY <1>1, <2>1, <2>4 DEF Redis!Items, Redis!Over
<1>6. Redis!Left(new) = Redis!Contract!Of(v, ttl) /\ Redis!Contract!Of(v, ttl) \in RSeen /\ size \in Nat \ {0}
  <2>1. Redis!Left(new) = Redis!Contract!Of(v, ttl)
    BY <1>1, RedisLeftOfNew
  <2>2. Redis!Contract!Of(v, ttl) \in RSeen
    BY DEF Redis!Contract!Of, RSeen
  <2> QED
    BY <2>1, <2>2
<1> HIDE DEF new, items
<1>7. /\ Len(longer) = Len(items) + 1 /\ Len(items) \in Nat
      /\ \A i \in 1..Len(longer) : longer[i] = IF i = Len(items) + 1 THEN new ELSE items[i]
  BY <1>2, <1>4
<1>8. /\ aged \in Seq(RSeen) /\ Len(aged) = Len(items) + 1
      /\ \A i \in 1..Len(aged) : aged[i] = IF i = Len(items) + 1 THEN Redis!Contract!Of(v, ttl) ELSE RQueue[i]
  BY <1>2, <1>6, <1>7, AppendProperties
<1>9. Len(longer) = Len(aged) /\ \A i \in 1..Len(aged) : aged[i] = Redis!Left(longer[i])
  BY <1>2, <1>6, <1>7, <1>8
<1> HIDE DEF longer, aged
<1>10. /\ Redis!Trim(aged, size) \in Seq(RSeen)
       /\ Len(Redis!Trim(aged, size)) = Len(entries)
       /\ \A i \in 1..Len(entries) : Redis!Trim(aged, size)[i] = Redis!Left(entries[i])
  <2>1. Len(longer) \in Nat
    BY <1>7
  <2> DEFINE at(i) == IF size # 0 /\ Len(longer) > size THEN i + Len(longer) - size ELSE i
             most2 == IF size # 0 /\ Len(longer) > size THEN size ELSE Len(longer)
  <2>2. Len(entries) = most2 /\ \A i \in 1..Len(entries) : entries[i] = longer[at(i)]
    BY <1>4, <1>6, TrimIsSeq
  <2>3. /\ Redis!Trim(aged, size) \in Seq(RSeen)
        /\ Len(Redis!Trim(aged, size)) = most2
        /\ \A i \in 1..Len(Redis!Trim(aged, size)) : Redis!Trim(aged, size)[i] = aged[at(i)]
    <3>1. aged \in Seq(RSeen) /\ size \in Nat /\ Len(aged) = Len(longer)
      BY <1>6, <1>8, <1>9
    <3>2. /\ Redis!Trim(aged, size) \in Seq(RSeen)
          /\ Len(Redis!Trim(aged, size)) = IF size # 0 /\ Len(aged) > size THEN size ELSE Len(aged)
          /\ \A i \in 1..Len(Redis!Trim(aged, size)) :
               Redis!Trim(aged, size)[i] = aged[IF size # 0 /\ Len(aged) > size THEN i + Len(aged) - size ELSE i]
      BY <3>1, TrimIsSeq, Zenon
    <3> QED
      BY <3>1, <3>2
  <2>4. \A i \in 1..most2 : at(i) \in 1..Len(aged)
    BY <1>6, <1>9, <2>1
  <2> HIDE DEF at, most2, entries
  <2> QED
    BY <1>9, <2>2, <2>3, <2>4
<1> HIDE DEF entries
<1>11. RQueue' = Redis!Trim(aged, size)
  BY <1>3, <1>5, <1>10, SeqEqual
<1>12. Redis!Trim(aged, size) = Redis!Contract!Newest(aged, size)
  BY <1>6 DEF Redis!Trim, Redis!Contract!Newest
<1>13. RQueue' = Redis!Contract!Newest(aged, size) /\ reply' = <<Len(RQueue')>>
  BY <1>3, <1>5, <1>11, <1>12
<1> QED
  BY <1>1, <1>13 DEF Redis!Contract!Enqueue, RLock, RQueue, aged

LEMMA RedisDepthIsContract ==
  ASSUME Redis!TypeOK, NEW p \in Processes, Redis!QueueDepth(p)
  PROVE  Redis!Contract!QueueDepth
<1>1. /\ UNCHANGED <<subscriptions, issued, RLock, Redis!Left(cached), Redis!Left(listed), RQueue>>
      /\ reply' = <<Len(RQueue)>>
  BY RedisUntouched, RedisQueueIsSeq DEF Redis!QueueDepth, Redis!Called, Redis!keys
<1> QED
  BY <1>1 DEF Redis!Contract!QueueDepth, RLock, RQueue

LEMMA RedisStepIsContract ==
  ASSUME Redis!IndInv, Redis!IndInv', RedisNext \/ UNCHANGED Redis!vars
  PROVE  [Redis!Contract!Next]_(Redis!Contract!vars)
<1>1. Redis!TypeOK /\ Redis!TypeOK'
  BY DEF Redis!IndInv
<1>2. CASE UNCHANGED Redis!vars \/ \E p \in Processes : Redis!Connect(p) \/ Redis!Disconnect(p)
  <2>1. UNCHANGED <<now, subscriptions, locks, cached, listed, queued, issued, reply>>
    BY <1>2 DEF Redis!vars, Redis!keys, Redis!Connect, Redis!Disconnect
  <2>2. UNCHANGED <<RLock, Redis!Left(cached), Redis!Left(listed), RQueue>>
    BY <2>1, RedisUntouched
  <2> QED
    BY <2>1, <2>2 DEF Redis!Contract!vars, RLock, RQueue
<1>3. CASE Redis!Tick
  BY <1>3, RedisTickIsContract DEF Redis!Contract!Next
<1>4. CASE Redis!Subscriptions
  BY <1>4, RedisSubscriptionIsContract DEF Redis!Subscriptions, Redis!Contract!Next
<1>5. CASE Redis!Locks
  <2>1. PICK p \in Processes, t \in Threads :
          \/ Redis!ForceReleaseLock(p, t)
          \/ \E h \in Handles :
               \/ Redis!ReleaseLock(p, t, h)
               \/ \E ttl \in TTLs : Redis!AcquireLock(p, t, h, ttl) \/ Redis!ExtendLock(p, t, h, ttl)
    BY <1>5 DEF Redis!Locks
  <2>2. \/ Redis!Contract!ForceReleaseLock(t) \/ Redis!Contract!Subscription(t)
        \/ \E h \in Handles :
             \/ Redis!Contract!ReleaseLock(t, h)
             \/ \E ttl \in TTLs : Redis!Contract!AcquireLock(t, h, ttl) \/ Redis!Contract!ExtendLock(t, h, ttl)
    BY <1>1, <2>1, RedisLocksAreContract
  <2> QED
    BY <2>2 DEF Redis!Contract!Next
<1>6. CASE Redis!Cache
  <2>1. \/ Redis!Contract!Get \/ Redis!Contract!Delete
        \/ \E v \in Values, ttl \in TTLs \cup {Never} : Redis!Contract!SetValue(v, ttl) \/ Redis!Contract!SetIfNotExists(v, ttl)
    BY <1>1, <1>6, RedisCacheIsContract DEF Redis!Cache
  <2> QED
    BY <2>1 DEF Redis!Contract!Next
<1>7. CASE Redis!Lists
  <2>1. \/ Redis!Contract!GetList
        \/ \E v \in Values, ttl \in TTLs \cup {Never}, size \in MaxSizes \cup {0} : Redis!Contract!AppendToList(v, size, ttl)
    BY <1>1, <1>7, RedisListsAreContract DEF Redis!Lists
  <2> QED
    BY <2>1 DEF Redis!Contract!Next
<1>8. CASE Redis!Queues
  <2>1. \/ Redis!Contract!Dequeue \/ Redis!Contract!QueueDepth
        \/ \E v \in Values, ttl \in TTLs, size \in MaxSizes : Redis!Contract!Enqueue(v, ttl, size)
    BY <1>1, <1>8, RedisDequeueIsContract, RedisDepthIsContract, RedisEnqueueIsContract DEF Redis!Queues
  <2> QED
    BY <2>1 DEF Redis!Contract!Next
<1> QED
  BY <1>2, <1>3, <1>4, <1>5, <1>6, <1>7, <1>8 DEF RedisNext, Redis!Connection

-----------------------------------------------------------------------------
(***************************************************************************)
(* The database keeps the contract for subscriptions, locks and values     *)
(***************************************************************************)

PLock == [t \in Threads |-> Pg!Left(locks[t])]
PList == Pg!Left(Pg!Stamped(<<>>, 0))

LEMMA PgUntouched ==
  ASSUME UNCHANGED now
  PROVE  /\ UNCHANGED PList
         /\ UNCHANGED locks => UNCHANGED PLock
         /\ UNCHANGED cached => UNCHANGED Pg!Left(cached)
         /\ \A x : Pg!Left(x)' = Pg!Left(x)
BY DEF PLock, PList, Pg!Left, Pg!Stamped

LEMMA PgLeftOfNew ==
  ASSUME now \in Nat, NEW x, NEW ttl \in TTLs \cup {Never}
  PROVE  Pg!Left(Pg!Stamped(x, Pg!Until(ttl))) = Pg!Contract!Of(x, ttl)
<1>1. CASE ttl = Never
  BY <1>1 DEF Pg!Until, Pg!Left, Pg!Stamped, Pg!Contract!Of
<1>2. CASE ttl # Never
  <2>1. ttl \in Nat \ {0}
    BY <1>2
  <2>2. now + ttl # Never /\ ~(now + ttl <= now) /\ (now + ttl) - now = ttl
    BY <2>1
  <2> QED
    BY <1>2, <2>2 DEF Pg!Until, Pg!Left, Pg!Stamped, Pg!Contract!Of
<1> QED
  BY <1>1, <1>2

LEMMA PgOverIsLapsed ==
  ASSUME now \in Nat, NEW x, x.expires \in Nat \cup {Never}
  PROVE  Pg!Contract!Live(Pg!Left(x)) <=> ~Pg!Over(x)
BY DEF Pg!Left, Pg!Over, Pg!Contract!Live

LEMMA PgNothing ==
  ASSUME now \in Nat
  PROVE  /\ Pg!Left(Pg!NoRow) = Pg!Contract!NoLock /\ Pg!Left(Pg!NoRow) = Pg!Contract!NoEntry
         /\ PList = Pg!Contract!NoList /\ Pg!Over(Pg!NoRow)
<1>1. Never # 0
  OBVIOUS
<1> QED
  BY <1>1 DEF PList, Pg!NoRow, Pg!Stamped, Pg!Left, Pg!Over,
              Pg!Contract!NoLock, Pg!Contract!NoEntry, Pg!Contract!NoList, Pg!Contract!Of

LEMMA PgStartsAsContract ==
  Pg!Init => Pg!Contract!Init
<1> SUFFICES ASSUME Pg!Init PROVE Pg!Contract!Init
  OBVIOUS
<1>1. now = 0
  BY DEF Pg!Init
<1>2. [t \in Threads |-> Pg!Left(locks[t])] = [t \in Threads |-> Pg!Contract!NoLock]
  BY <1>1, PgNothing DEF Pg!Init
<1>3. Pg!Left(cached) = Pg!Contract!NoEntry /\ Pg!Left(Pg!Stamped(<<>>, 0)) = Pg!Contract!NoList
  BY <1>1, PgNothing DEF Pg!Init, PList
<1> QED
  BY <1>2, <1>3 DEF Pg!Init, Pg!Contract!Init

LEMMA PgStampsTyped ==
  ASSUME Pg!TypeOK
  PROVE  /\ now \in Nat
         /\ \A t \in Threads : locks[t] = Pg!Stamped(locks[t].of, locks[t].expires)
         /\ \A t \in Threads : locks[t].expires \in Nat \cup {Never}
         /\ cached.expires \in Nat \cup {Never}
<1>1. now \in Nat
  <2>1. now \in 0..MaxTime
    BY DEF Pg!TypeOK
  <2> QED
    BY <2>1
<1>2. /\ locks \in [Threads -> [of : Handles \cup {None}, expires : Nat \cup {Never}]]
      /\ cached \in [of : Values \cup {None}, expires : Nat \cup {Never}]
  BY DEF Pg!TypeOK, Pg!StampedSet
<1>3. \A t \in Threads : locks[t] = Pg!Stamped(locks[t].of, locks[t].expires)
  BY <1>2 DEF Pg!Stamped
<1> QED
  BY <1>1, <1>2, <1>3

LEMMA PgTickIsContract ==
  ASSUME Pg!TypeOK, Pg!Tick
  PROVE  Pg!Contract!Tick
<1>1. now \in Nat /\ now' = now + 1 /\ UNCHANGED <<locks, cached>>
  BY PgStampsTyped DEF Pg!Tick, Pg!single
<1>2. \A x : Pg!Left(x) = LeftAt(x, now) /\ Pg!Left(x)' = LeftAt(x, now')
  BY DEF Pg!Left, LeftAt
<1>3. \A x : x.expires \in Nat \cup {Never} => Pg!Left(x)' = Pg!Contract!Aged(Pg!Left(x))
  BY <1>1, <1>2, LeftAges
<1>4. PLock' = [t \in Threads |-> Pg!Contract!Aged(PLock[t])]
  <2>1. \A t \in Threads : locks[t].expires \in Nat \cup {Never}
    BY DEF Pg!TypeOK, Pg!StampedSet
  <2>2. \A t \in Threads : Pg!Left(locks[t])' = Pg!Contract!Aged(Pg!Left(locks[t]))
    BY <1>1, <1>2, <1>3, <2>1 DEF LeftAt
  <2> QED
    BY <2>2 DEF PLock
<1>5. Pg!Left(cached)' = Pg!Contract!Aged(Pg!Left(cached))
  <2>1. cached.expires \in Nat \cup {Never}
    BY DEF Pg!TypeOK, Pg!StampedSet
  <2> QED
    BY <1>1, <1>2, <1>3, <2>1 DEF LeftAt
<1>6. PList' = Pg!Contract!Aged(PList)
  <2>1. Pg!Stamped(<<>>, 0).expires \in Nat \cup {Never} /\ Pg!Stamped(<<>>, 0)' = Pg!Stamped(<<>>, 0)
    BY DEF Pg!Stamped
  <2> QED
    BY <1>1, <1>2, <1>3, <2>1 DEF PList, LeftAt
<1>7. <<>> = [i \in DOMAIN <<>> |-> Pg!Contract!Aged(<<>>[i])]
  OBVIOUS
<1> QED
  BY <1>4, <1>5, <1>6, <1>7 DEF Pg!Tick, Pg!single, Pg!Contract!Tick, PLock, PList

LEMMA PgSubscriptionIsContract ==
  ASSUME NEW c \in Processes, NEW t \in Threads,
         Pg!Subscribe(c, t) \/ Pg!Unsubscribe(c, t) \/ Pg!IsSubscribed(c, t)
  PROVE  Pg!Contract!Subscription(t)
<1>1. UNCHANGED <<now, locks, cached, issued>>
  BY DEF Pg!Subscribe, Pg!Unsubscribe, Pg!IsSubscribed, Pg!Single, Pg!Called, Pg!single
<1>2. UNCHANGED <<PLock, Pg!Left(cached), PList, issued>>
  BY <1>1, PgUntouched
<1> QED
  BY <1>2 DEF Pg!Subscribe, Pg!Unsubscribe, Pg!IsSubscribed, Pg!single, Pg!Contract!Subscription,
              Pg!When, Pg!Contract!When, PLock, PList

LEMMA PgLockSet ==
  ASSUME Pg!TypeOK, UNCHANGED now, NEW t \in Threads, NEW x, locks' = [locks EXCEPT ![t] = x]
  PROVE  PLock' = [u \in Threads |-> IF u = t THEN Pg!Left(x) ELSE PLock[u]]
<1>1. PLock' = [u \in Threads |-> Pg!Left(locks'[u])]
  BY PgUntouched DEF PLock
<1>2. \A u \in Threads : locks'[u] = IF u = t THEN x ELSE locks[u]
  BY DEF Pg!TypeOK
<1> QED
  BY <1>1, <1>2 DEF PLock

LEMMA PgLocksAreContract ==
  ASSUME Pg!TypeOK, NEW c \in Processes, NEW t \in Threads
  PROVE  /\ Pg!ForceReleaseLock(c, t) => Pg!Contract!ForceReleaseLock(t)
         /\ \A h \in Handles :
              /\ Pg!ReleaseLock(c, t, h) => Pg!Contract!ReleaseLock(t, h)
              /\ \A ttl \in TTLs :
                   /\ Pg!AcquireLock(c, t, h, ttl) => Pg!Contract!AcquireLock(t, h, ttl)
                   /\ Pg!ExtendLock(c, t, h, ttl) => Pg!Contract!ExtendLock(t, h, ttl)
<1>1. now \in Nat /\ PLock[t] = Pg!Left(locks[t]) /\ PLock[t].of = locks[t].of
  BY PgStampsTyped DEF PLock, Pg!Left
<1>2. Pg!Contract!Live(PLock[t]) <=> ~Pg!Over(locks[t])
  <2>1. locks[t].expires \in Nat \cup {Never}
    BY DEF Pg!TypeOK, Pg!StampedSet
  <2> QED
    BY <1>1, <2>1, PgOverIsLapsed
<1>3. ASSUME UNCHANGED now, locks' = [locks EXCEPT ![t] = Pg!NoRow]
      PROVE  PLock' = Pg!Contract!Without({t})
  <2>1. PLock' = [u \in Threads |-> IF u = t THEN Pg!Contract!NoLock ELSE PLock[u]]
    BY <1>1, <1>3, PgLockSet, PgNothing
  <2> QED
    BY <2>1 DEF Pg!Contract!Without, PLock
<1>4. ASSUME NEW h \in Handles, NEW ttl \in TTLs, UNCHANGED now, locks' = [locks EXCEPT ![t] = Pg!Stamped(h, Pg!Until(ttl))]
      PROVE  PLock' = [PLock EXCEPT ![t] = Pg!Contract!Of(h, ttl)]
  <2>1. Pg!Left(Pg!Stamped(h, Pg!Until(ttl))) = Pg!Contract!Of(h, ttl)
    BY <1>1, PgLeftOfNew
  <2>2. PLock' = [u \in Threads |-> IF u = t THEN Pg!Left(Pg!Stamped(h, Pg!Until(ttl))) ELSE PLock[u]]
    BY <1>4, PgLockSet
  <2> QED
    BY <2>1, <2>2 DEF PLock
<1>5. ASSUME Pg!ForceReleaseLock(c, t)
      PROVE  Pg!Contract!ForceReleaseLock(t)
  <2>1. UNCHANGED <<Pg!Left(cached), PList>>
    BY <1>5, PgUntouched DEF Pg!ForceReleaseLock, Pg!Single, Pg!Called
  <2> QED
    BY <1>3, <1>5, <2>1 DEF Pg!ForceReleaseLock, Pg!Single, Pg!Called, Pg!Contract!ForceReleaseLock, PLock, PList
<1>6. ASSUME NEW h \in Handles, Pg!ReleaseLock(c, t, h)
      PROVE  Pg!Contract!ReleaseLock(t, h)
  <2>1. UNCHANGED <<now, subscriptions, issued, Pg!Left(cached), PList>> /\ reply' = <<>>
    BY <1>6, PgUntouched DEF Pg!ReleaseLock, Pg!Single, Pg!Called
  <2>2. PLock' = IF PLock[t].of = h THEN Pg!Contract!Without({t}) ELSE PLock
    BY <1>1, <1>3, <1>6, <2>1, PgUntouched DEF Pg!ReleaseLock
  <2> QED
    BY <2>1, <2>2 DEF Pg!Contract!ReleaseLock, PLock, PList
<1>7. ASSUME NEW h \in Handles, NEW ttl \in TTLs, Pg!AcquireLock(c, t, h, ttl)
      PROVE  Pg!Contract!AcquireLock(t, h, ttl)
  <2>1. UNCHANGED <<now, subscriptions, Pg!Left(cached), PList>>
    BY <1>7, PgUntouched DEF Pg!AcquireLock, Pg!Single, Pg!Called
  <2>2. Pg!Contract!Without({}) = PLock
    BY DEF Pg!Contract!Without, PLock
  <2>3. PLock' = IF Pg!Contract!Live(PLock[t]) THEN Pg!Contract!Without({})
                 ELSE [Pg!Contract!Without({}) EXCEPT ![t] = Pg!Contract!Of(h, ttl)]
    <3>1. CASE Pg!Over(locks[t])
      BY <1>2, <1>4, <1>7, <2>1, <2>2, <3>1 DEF Pg!AcquireLock
    <3>2. CASE ~Pg!Over(locks[t])
      BY <1>2, <1>7, <2>1, <2>2, <3>2, PgUntouched DEF Pg!AcquireLock
    <3> QED
      BY <3>1, <3>2
  <2>4. {} \in SUBSET Pg!Contract!Lapsed
    OBVIOUS
  <2>5. reply' = Pg!Contract!When(~Pg!Contract!Live(PLock[t]), h)
    BY <1>2, <1>7 DEF Pg!AcquireLock, Pg!When, Pg!Contract!When
  <2> QED
    BY <1>7, <2>1, <2>3, <2>4, <2>5 DEF Pg!AcquireLock, Pg!Contract!AcquireLock, PLock, PList
<1>8. ASSUME NEW h \in Handles, NEW ttl \in TTLs, Pg!ExtendLock(c, t, h, ttl)
      PROVE  Pg!Contract!ExtendLock(t, h, ttl)
  <2>1. UNCHANGED <<now, subscriptions, issued, Pg!Left(cached), PList>>
    BY <1>8, PgUntouched DEF Pg!ExtendLock, Pg!Single, Pg!Called
  <2> DEFINE holds == locks[t].of = h /\ ~Pg!Over(locks[t])
  <2>2. CASE holds
    <3>1. locks' = [locks EXCEPT ![t].expires = Pg!Until(ttl)] /\ reply' = <<h>> /\ locks[t].of = h
      BY <1>8, <2>2 DEF Pg!ExtendLock, Pg!When
    <3>2. locks' = [locks EXCEPT ![t] = Pg!Stamped(h, Pg!Until(ttl))]
      <4>1. locks[t] = [of |-> h, expires |-> locks[t].expires]
        BY <3>1, PgStampsTyped DEF Pg!Stamped
      <4>2. [locks[t] EXCEPT !.expires = Pg!Until(ttl)] = Pg!Stamped(h, Pg!Until(ttl))
        BY <4>1 DEF Pg!Stamped
      <4> QED
        BY <3>1, <4>2, Zenon
    <3>3. PLock' = [PLock EXCEPT ![t] = Pg!Contract!Of(h, ttl)]
      BY <1>4, <2>1, <3>2
    <3> QED
      BY <1>1, <2>1, <3>1, <3>3 DEF Pg!Contract!ExtendLock, PLock, PList
  <2>3. CASE ~holds
    <3>1. UNCHANGED PLock /\ reply' = <<>>
      BY <1>8, <2>1, <2>3, PgUntouched DEF Pg!ExtendLock, Pg!When
    <3>2. PLock[t].of # h \/ ~Pg!Contract!Live(PLock[t])
      BY <1>1, <1>2, <2>3
    <3> QED
      BY <2>1, <3>1, <3>2 DEF Pg!Contract!ExtendLock, PLock, PList
  <2> QED
    BY <2>2, <2>3
<1> QED
  BY <1>5, <1>6, <1>7, <1>8

(* A value that is set while a get is under way is not removed by it.        *)
LEMMA PgCacheIsContract ==
  ASSUME Pg!TypeOK, Pg!Numbered, NEW c \in Processes
  PROVE  /\ Pg!Get(c) => Pg!Contract!Get
         /\ Pg!CleanUp(c) => Pg!Contract!Forget \/ UNCHANGED Pg!Contract!vars
         /\ Pg!Delete(c) => Pg!Contract!Delete
         /\ \A v \in Values, ttl \in TTLs \cup {Never} :
              /\ Pg!SetValue(c, v, ttl) => Pg!Contract!SetValue(v, ttl)
              /\ Pg!SetIfNotExists(c, v, ttl) => Pg!Contract!SetIfNotExists(v, ttl)
<1>1. now \in Nat /\ Pg!Left(cached).of = cached.of
  BY PgStampsTyped DEF Pg!Left
<1>2. Pg!Contract!Live(Pg!Left(cached)) <=> ~Pg!Over(cached)
  <2>1. cached.expires \in Nat \cup {Never}
    BY DEF Pg!TypeOK, Pg!StampedSet
  <2> QED
    BY <1>1, <2>1, PgOverIsLapsed
<1>3. ASSUME UNCHANGED <<now, locks>>
      PROVE  UNCHANGED <<PLock, PList>> /\ Pg!Left(cached)' = Pg!Left(cached')
  BY <1>3, PgUntouched DEF Pg!Left
<1>4. ASSUME Pg!Get(c) PROVE Pg!Contract!Get
  <2>1. UNCHANGED <<PLock, PList, Pg!Left(cached), subscriptions, issued>>
    BY <1>4, PgUntouched DEF Pg!Get, Pg!Called, Pg!single
  <2> QED
    BY <1>1, <1>2, <1>4, <2>1 DEF Pg!Get, Pg!Contract!Get, Pg!When, Pg!Contract!When, PLock, PList
<1>5. ASSUME Pg!CleanUp(c) PROVE Pg!Contract!Forget \/ UNCHANGED Pg!Contract!vars
  <2>1. UNCHANGED <<PLock, PList, subscriptions, issued, reply, now>>
    BY <1>3, <1>5 DEF Pg!CleanUp
  <2>2. CASE Pg!Over(cached)
    <3>1. Pg!Left(cached)' = Pg!Contract!NoEntry
      BY <1>1, <1>3, <1>5, <2>2, PgNothing DEF Pg!CleanUp
    <3> QED
      BY <1>2, <2>1, <2>2, <3>1 DEF Pg!Contract!Forget, PLock, PList
  <2>3. CASE ~Pg!Over(cached)
    <3>1. UNCHANGED Pg!Left(cached)
      BY <1>5, <2>1, <2>3, PgUntouched DEF Pg!CleanUp
    <3> QED
      BY <2>1, <3>1 DEF Pg!Contract!vars, PLock, PList
  <2> QED
    BY <2>2, <2>3
<1>6. ASSUME Pg!Delete(c) PROVE Pg!Contract!Delete
  <2>1. UNCHANGED <<PLock, PList>> /\ Pg!Left(cached)' = Pg!Contract!NoEntry
    BY <1>1, <1>3, <1>6, PgNothing DEF Pg!Delete, Pg!Single, Pg!Called
  <2> QED
    BY <1>6, <2>1 DEF Pg!Delete, Pg!Contract!Delete, PLock, PList
<1>7. ASSUME NEW v \in Values, NEW ttl \in TTLs \cup {Never}, Pg!SetValue(c, v, ttl)
      PROVE  Pg!Contract!SetValue(v, ttl)
  <2>1. UNCHANGED <<PLock, PList>> /\ Pg!Left(cached)' = Pg!Contract!Of(v, ttl)
    BY <1>1, <1>3, <1>7, PgLeftOfNew DEF Pg!SetValue, Pg!Single, Pg!Called
  <2> QED
    BY <1>7, <2>1 DEF Pg!SetValue, Pg!Contract!SetValue, PLock, PList
<1>8. ASSUME NEW v \in Values, NEW ttl \in TTLs \cup {Never}, Pg!SetIfNotExists(c, v, ttl)
      PROVE  Pg!Contract!SetIfNotExists(v, ttl)
  <2>1. UNCHANGED <<PLock, PList, subscriptions, issued>>
    BY <1>3, <1>8 DEF Pg!SetIfNotExists, Pg!Single, Pg!Called
  <2>2. CASE cached = Pg!NoRow
    <3>1. ~Pg!Contract!Live(Pg!Left(cached))
      BY <1>1, <1>2, <2>2, PgNothing
    <3>2. Pg!Left(cached)' = Pg!Contract!Of(v, ttl) /\ reply' = <<v>>
      BY <1>1, <1>3, <1>8, <2>2, PgLeftOfNew DEF Pg!SetIfNotExists, Pg!Single, Pg!Called, Pg!When
    <3> QED
      BY <2>1, <3>1, <3>2 DEF Pg!Contract!SetIfNotExists, PLock, PList
  <2>3. CASE cached # Pg!NoRow
    <3>1. Pg!Left(cached)' = Pg!Left(cached) /\ reply' = <<>>
      BY <1>8, <2>3, PgUntouched DEF Pg!SetIfNotExists, Pg!Single, Pg!Called, Pg!When
    <3>2. cached.of # None
      BY <2>3 DEF Pg!Numbered
    <3>3. Pg!Left(cached) # Pg!Contract!NoEntry
      BY <1>1, <3>2 DEF Pg!Contract!NoEntry, Pg!Contract!Of
    <3> QED
      BY <2>1, <3>1, <3>3 DEF Pg!Contract!SetIfNotExists, PLock, PList
  <2> QED
    BY <2>2, <2>3
<1> QED
  BY <1>4, <1>5, <1>6, <1>7, <1>8

LEMMA PgStepIsContract ==
  ASSUME Pg!IndInv, PgNext \/ UNCHANGED Pg!vars
  PROVE  [Pg!Contract!Next]_(Pg!Contract!vars)
<1>1. Pg!TypeOK /\ Pg!Numbered
  BY DEF Pg!IndInv
<1>2. ASSUME UNCHANGED <<now, subscriptions, locks, cached, issued, reply>>
      PROVE  UNCHANGED Pg!Contract!vars
  <2>1. UNCHANGED <<PLock, Pg!Left(cached), PList>>
    BY <1>2, PgUntouched
  <2> QED
    BY <1>2, <2>1 DEF Pg!Contract!vars, PLock, PList
<1>3. CASE UNCHANGED Pg!vars \/ \E c \in Processes : Pg!Connect(c) \/ Pg!Disconnect(c) \/ Pg!StatementFails(c)
  BY <1>2, <1>3 DEF Pg!vars, Pg!single, Pg!Connect, Pg!Disconnect, Pg!StatementFails
<1>4. CASE Pg!Tick
  BY <1>1, <1>4, PgTickIsContract DEF Pg!Contract!Next
<1>5. CASE Pg!Subscriptions
  BY <1>5, PgSubscriptionIsContract DEF Pg!Subscriptions, Pg!Contract!Next
<1>6. CASE Pg!Locks
  <2>1. PICK c \in Processes, t \in Threads :
          \/ Pg!ForceReleaseLock(c, t)
          \/ \E h \in Handles :
               \/ Pg!ReleaseLock(c, t, h)
               \/ \E ttl \in TTLs : Pg!AcquireLock(c, t, h, ttl) \/ Pg!ExtendLock(c, t, h, ttl)
    BY <1>6 DEF Pg!Locks
  <2>2. \/ Pg!Contract!ForceReleaseLock(t)
        \/ \E h \in Handles :
             \/ Pg!Contract!ReleaseLock(t, h)
             \/ \E ttl \in TTLs : Pg!Contract!AcquireLock(t, h, ttl) \/ Pg!Contract!ExtendLock(t, h, ttl)
    BY <1>1, <2>1, PgLocksAreContract
  <2> QED
    BY <2>2 DEF Pg!Contract!Next
<1>7. CASE Pg!Cache
  <2>1. \/ Pg!Contract!Get \/ Pg!Contract!Forget \/ Pg!Contract!Delete \/ UNCHANGED Pg!Contract!vars
        \/ \E v \in Values, ttl \in TTLs \cup {Never} : Pg!Contract!SetValue(v, ttl) \/ Pg!Contract!SetIfNotExists(v, ttl)
    BY <1>1, <1>7, PgCacheIsContract DEF Pg!Cache
  <2> QED
    BY <2>1 DEF Pg!Contract!Next
<1>8. CASE Pg!Lists
  BY <1>2, <1>8 DEF Pg!Lists, Pg!AppendToList, Pg!TrimList, Pg!TouchList, Pg!Called, Pg!At, Pg!single
<1>9. CASE Pg!Queues
  BY <1>2, <1>9
  DEF Pg!Queues, Pg!Enqueue, Pg!InsertEntry, Pg!TrimQueue, Pg!Dequeue, Pg!PickEntry, Pg!TakeEntry,
      Pg!Called, Pg!At, Pg!single
<1> QED
  BY <1>3, <1>4, <1>5, <1>6, <1>7, <1>8, <1>9 DEF PgNext, Pg!Connection

-----------------------------------------------------------------------------
(***************************************************************************)
(* The theorems                                                            *)
(***************************************************************************)

(* The invariant of the store there is.                                      *)
StoresInv ==
  /\ store \in {"redis", "pg"}
  /\ store = "redis" => Redis!IndInv
  /\ store = "pg" => Pg!IndInv /\ (kind = "lists" => Pg!Stretch)

LEMMA StoresInvariant ==
  StoresSpec => []StoresInv
<1>1. StoresInit => StoresInv
  BY RedisStarts, PgStarts, StretchStarts DEF StoresInit, StoresInv
<1>2. StoresInv /\ [StoresNext]_vars => StoresInv'
  <2> SUFFICES ASSUME StoresInv, [StoresNext]_vars PROVE StoresInv'
    OBVIOUS
  <2>1. UNCHANGED <<store, kind>>
    BY DEF StoresNext, vars
  <2>2. CASE store = "redis"
    <3>1. RedisNext \/ UNCHANGED Redis!vars
      BY <2>2 DEF StoresNext, vars, Pg!vars, Pg!single, Pg!rows, Redis!vars, Redis!keys
    <3> QED
      BY <2>1, <2>2, <3>1, RedisKeeps DEF StoresInv
  <2>3. CASE store = "pg"
    BY <2>1, <2>3, PgKeeps, StretchKeeps DEF StoresInv
  <2> QED
    BY <2>2, <2>3 DEF StoresInv
<1> QED
  BY <1>1, <1>2, PTL DEF StoresSpec

(* What is stored has its type, in the keys of redis and in the rows of the  *)
(* database.                                                                 *)
THEOREM StoresTypeCorrect ==
  StoresSpec => []StoresTypeOK
<1>1. StoresInv => StoresTypeOK
  BY DEF StoresInv, StoresTypeOK, Redis!IndInv, Pg!IndInv
<1> QED
  BY <1>1, StoresInvariant, PTL

(* However the dequeues of several processes interleave on one database, no  *)
(* entry is handed out twice.                                                *)
THEOREM EntriesHandedOutOnce ==
  StoresSpec => []PgHandedOutOnce
<1>1. StoresInv => PgHandedOutOnce
  BY DEF StoresInv, PgHandedOutOnce, Pg!IndInv
<1> QED
  BY <1>1, StoresInvariant, PTL

(* However the statements of appends interleave and fail, a list of the      *)
(* database settles on its newest rows.                                      *)
THEOREM ListsSettle ==
  StoresSpec => []PgListSettles
<1>1. StoresInv => PgListSettles
  BY StretchSettles DEF StoresInv, PgListSettles
<1> QED
  BY <1>1, StoresInvariant, PTL

(* A live entry of the database's queue is not lost: it leaves the queue to  *)
(* be handed out, or when there are MaxLength newer ones.                    *)
THEOREM QueuesKeepEntries ==
  StoresSpec => PgQueueKeeps
<1>1. StoresInv /\ [StoresNext]_vars =>
        [store = "pg" => \A r \in Pg!Live(queued) : r \notin queued' => Pg!Leaves(r)]_vars
  BY QueueStepKeeps DEF StoresInv
<1> QED
  BY <1>1, StoresInvariant, PTL DEF StoresSpec, PgQueueKeeps

(* Every step of redis is a step of the abstract store, or shows nothing; so *)
(* is every statement of the database, as far as subscriptions, locks and    *)
(* values go.                                                                *)
THEOREM StoresContractKept ==
  StoresSpec => StoresKeepContract
<1>1. StoresInit => IF store = "redis" THEN Redis!Contract!Init ELSE Pg!Contract!Init
  BY RedisStartsAsContract, PgStartsAsContract DEF StoresInit
<1>2. StoresInv /\ StoresInv' /\ [StoresNext]_vars => [store = "redis" => [Redis!Contract!Next]_(Redis!Contract!vars)]_vars
  <2> SUFFICES ASSUME StoresInv, StoresInv', StoresNext, store = "redis"
               PROVE  [Redis!Contract!Next]_(Redis!Contract!vars)
    OBVIOUS
  <2>1. RedisNext /\ store' = store
    BY DEF StoresNext
  <2> QED
    BY <2>1, RedisStepIsContract DEF StoresInv
<1>3. StoresInv /\ [StoresNext]_vars => [store = "pg" => [Pg!Contract!Next]_(Pg!Contract!vars)]_vars
  <2> SUFFICES ASSUME StoresInv, StoresNext, store = "pg"
               PROVE  [Pg!Contract!Next]_(Pg!Contract!vars)
    OBVIOUS
  <2>1. PgNext
    BY DEF StoresNext
  <2> QED
    BY <2>1, PgStepIsContract DEF StoresInv
<1> QED
  BY <1>1, <1>2, <1>3, StoresInvariant, PTL DEF StoresSpec, StoresKeepContract
=============================================================================
