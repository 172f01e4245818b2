--------------------------- MODULE MCMemoryState ----------------------------
(* Each kind of operation is explored by itself, with the clock and the      *)
(* connection: they share no data.                                           *)
EXTENDS MemoryState

CONSTANTS t1, t2, h1, h2, h3, v1, v2, never, none

VARIABLE kind

MCInit == Init /\ kind \in {"subscriptions", "locks", "cache", "lists", "queues"}

MCNext ==
  /\ UNCHANGED kind
  /\ \/ Connection
     \/ kind = "subscriptions" /\ Subscriptions
     \/ kind = "locks" /\ Locks
     \/ kind = "cache" /\ Cache
     \/ kind = "lists" /\ Lists
     \/ kind = "queues" /\ Queues

MCSpec == MCInit /\ [][MCNext]_<<vars, kind>>
=============================================================================
