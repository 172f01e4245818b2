-------------------------- MODULE MCChatLifecycle ---------------------------
(* Three calls, two adapters of which one may fail, and one shutdown. *)
EXTENDS ChatLifecycle

CONSTANTS c1, c2, c3, a1, a2
=============================================================================
