----------------------------- MODULE MCCommandTask -----------------------------
(* Model values for CommandTask; the constants are given in the configurations. *)
EXTENDS CommandTask
=============================================================================
