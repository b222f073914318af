----------------------------- MODULE MCAxisUse -----------------------------
(* AxisUse on a short axis whose end switch is a few steps from the start.   *)
EXTENDS AxisUse
=============================================================================
