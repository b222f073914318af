----------------------------- MODULE MCMovePath -----------------------------
(* MovePath on two axes, positions of a few micrometres, a second of 200      *)
(* nanoseconds and ratios below and above one step per micrometre.            *)
EXTENDS MovePath

MCTargets == 0 .. 3
MCCalibrations ==
  {[steps |-> 2, distance |-> 3, travel |-> 3], [steps |-> 3, distance |-> 2, travel |-> 3]}
=============================================================================
