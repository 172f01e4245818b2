---------------------------- MODULE SharedStores -----------------------------
(***************************************************************************)
(* One of the two stores outside the process, with the clock, the          *)
(* connections and one kind of operation: operations of different kinds    *)
(* share no data.                                                          *)
(***************************************************************************)
EXTENDS SharedStore

VARIABLES store, kind,
  connected, subscriptions, locks, cached, listed, queued, issued, reply,
  seq, pc, arg, seen, taken, cut

Redis == INSTANCE RedisState
Pg    == INSTANCE PgState

vars == <<store, kind, Pg!vars>>

StoresInit ==
  /\ kind \in {"subscriptions", "locks", "cache", "lists", "queues"}
  /\ \/ /\ store = "redis" /\ Redis!Init
        /\ seq = 1 /\ pc = <<>> /\ arg = <<>> /\ seen = <<>> /\ taken = <<>> /\ cut = FALSE
     \/ store = "pg" /\ Pg!Init

RedisNext ==
  \/ Redis!Connection
  \/ kind = "subscriptions" /\ Redis!Subscriptions
  \/ kind = "locks" /\ Redis!Locks
  \/ kind = "cache" /\ Redis!Cache
  \/ kind = "lists" /\ Redis!Lists
  \/ kind = "queues" /\ Redis!Queues

PgNext ==
  \/ Pg!Connection
  \/ kind = "subscriptions" /\ Pg!Subscriptions
  \/ kind = "locks" /\ Pg!Locks
  \/ kind = "cache" /\ Pg!Cache
  \/ kind = "lists" /\ Pg!Lists
  \/ kind = "queues" /\ Pg!Queues

StoresNext ==
  /\ UNCHANGED <<store, kind>>
  /\ \/ store = "redis" /\ RedisNext /\ UNCHANGED <<seq, pc, arg, seen, taken, cut>>
     \/ store = "pg" /\ PgNext

StoresSpec == StoresInit /\ [][StoresNext]_vars

(* What is stored has its type. *)
StoresTypeOK == IF store = "redis" THEN Redis!TypeOK ELSE Pg!TypeOK

(* Redis keeps the contract of a state adapter, whoever calls it; the        *)
(* database keeps it for subscriptions, locks and values.                    *)
StoresKeepContract ==
  /\ IF store = "redis" THEN Redis!Contract!Init ELSE Pg!Contract!Init
  /\ [][store = "redis" => [Redis!Contract!Next]_(Redis!Contract!vars)]_vars
  /\ [][store = "pg" => [Pg!Contract!Next]_(Pg!Contract!vars)]_vars

(* Lists of the database settle on the newest rows.                          *)
PgListSettles == store = "pg" /\ kind = "lists" => Pg!ListSettles

(* No entry of a queue is handed out twice.                                  *)
PgHandedOutOnce == store = "pg" => Pg!HandedOutOnce

(* A live entry leaves its queue to be handed out, or for newer ones.        *)
PgQueueKeeps ==
  [][store = "pg" => \A r \in Pg!Live(queued) : r \notin queued' => Pg!Leaves(r)]_vars

(* Violated.  chat_adapter_state_pg/__init__.py 681 says of dequeue:         *)
(* "Atomically select + delete the oldest non-expired entry."  If it returns *)
(* none, no entry that it has read is still there.                           *)
PgDequeueAtomic ==
  [][store = "pg" => \A p \in Processes :
       Pg!FindsNone(p) => \A r \in Pg!Live(queued) : r.seq \notin seen[p]]_vars
=============================================================================
