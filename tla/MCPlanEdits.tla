---------------------------- MODULE MCPlanEdits -----------------------------
(* Three mutations of a posted plan by three callers. *)
EXTENDS PlanEdits

CONSTANTS c1, c2, c3
=============================================================================
