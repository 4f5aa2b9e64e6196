--------------------------- MODULE MCPlanProtocol ---------------------------
(* PlanProtocol with small constants for TLC. *)
EXTENDS PlanProtocol
=============================================================================
