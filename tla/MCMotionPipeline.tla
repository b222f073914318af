-------------------------- MODULE MCMotionPipeline --------------------------
(* The pipeline with buffers of one or two entries and an axis of a few steps. *)
EXTENDS MotionPipeline
=============================================================================
