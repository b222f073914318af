------------------------- MODULE MCExecutionBuffer -------------------------
(* ExecutionBuffer on a ring of a few slots whose positions wrap every       *)
(* Modulus / Capacity laps.                                                  *)
EXTENDS ExecutionBuffer
=============================================================================
