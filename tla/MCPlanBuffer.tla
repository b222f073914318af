---------------------------- MODULE MCPlanBuffer ----------------------------
(* PlanBuffer with a ring of two blocks and counters that saturate after     *)
(* the ring has wrapped.                                                     *)
EXTENDS PlanBuffer
=============================================================================
