--------------------------- MODULE MCSharedStores ---------------------------
(* The model values of the runs. *)
EXTENDS SharedStores

CONSTANTS p1, p2, t1, t2, h1, h2, h3, v1, v2, never, none
=============================================================================
