---------------------------- MODULE SharedStore -----------------------------
(***************************************************************************)
(* What the adapters for a store outside the process have in common: the   *)
(* parameters, and keys and rows that carry the instant they run out at,   *)
(* by the clock of the server.                                             *)
(***************************************************************************)
EXTENDS Naturals, Sequences

CONSTANTS
  Processes,  \* each with an adapter of its own, on one server
  Threads,    \* the threads that are locked and subscribed
  Handles,    \* lock tokens
  Values,     \* what is stored
  TTLs,       \* times to live
  Never,      \* the time to live, and the expiry, of what does not run out
  MaxSizes,   \* the max_length and max_size that are passed
  None,       \* no token, no value
  MaxLength,  \* the one max_length and max_size asked of the database
  Floor,      \* the least time to live of a queue in redis, 60 s
  MaxTime,    \* the last instant (a bound)
  Cap,        \* the longest list and queue in redis (a bound)
  MaxRows     \* the rows inserted into a list or a queue of the database (a bound)

ASSUME SharedAssumption ==
  /\ TTLs \subseteq Nat \ {0}
  /\ Never \notin Nat
  /\ MaxSizes \subseteq Nat \ {0}
  /\ None \notin Handles \cup Values
  /\ MaxLength \in Nat \ {0}
  /\ {Floor, MaxTime, Cap, MaxRows} \subseteq Nat

VARIABLE now  \* the server's clock

Stamped(x, instant) == [of |-> x, expires |-> instant]

StampedSet(S) == [of : S, expires : Nat \cup {Never}]

Until(ttl) == IF ttl = Never THEN Never ELSE now + ttl

Over(x) == x.expires # Never /\ x.expires <= now

(* As the contract has it: how much of its time is left. *)
Left(x) == [of   |-> x.of,
            left |-> IF x.expires = Never THEN Never ELSE IF x.expires <= now THEN 0 ELSE x.expires - now]

When(yes, x) == IF yes THEN <<x>> ELSE <<>>
=============================================================================
