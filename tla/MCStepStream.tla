---------------------------- MODULE MCStepStream ----------------------------
(* Both ends of a step stream: the records that StepStreamGenerator writes,   *)
(* and the counting of those the DMA of StepStream plays.  The streams are    *)
(* made in a second of 200 nanoseconds: steps that divide their duration and  *)
(* others, on axes that move and idle ones, in one record and in several, too *)
(* short for the pin and too short for a record.                              *)
EXTENDS StepStream, StepStreamGenerator, TLC

CONSTANTS x, y

MCBlock(dx, dy, rate, interval) ==
  [delta |-> (x :> dx @@ y :> dy), master |-> Max({Abs(dx), Abs(dy)}), rate |-> rate, interval |-> interval]

MCBlocks ==
  {MCBlock(3, -2, 3, 400), MCBlock(0, 3, 6, 400), MCBlock(2, -1, 6, 400), MCBlock(5, 4, 15, 1600),
   MCBlock(5, 0, 5, 380), MCBlock(1, 0, 12, 400), MCBlock(0, 1, 20, 200)}

\* step_stream_axis_start fills its buffer with records of its own: the two ends share
\* nothing yet, and a step of one is the same step wherever the other is.  So each runs
\* with the other as it is initially.
StreamsInit == GeneratorInit /\ StreamInit
StreamsNext ==
  \/ StreamInit /\ GeneratorNext /\ UNCHANGED streamVars
  \/ GeneratorInit /\ StreamNext /\ UNCHANGED generatorVars

StreamsSpec == StreamsInit /\ [][StreamsNext]_<<generatorVars, streamVars>>
=============================================================================
