-------------------------- MODULE MCAxisInterrupts --------------------------
(* AxisInterrupts on a short axis, moves of a few steps, narrow counters.     *)
EXTENDS AxisInterrupts
=============================================================================
