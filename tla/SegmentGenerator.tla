-------------------------- MODULE SegmentGenerator --------------------------
(***************************************************************************)
(* The segment generator (src/APP/motion/motion_segment_generator.c): it   *)
(* turns a planned block into step events, one call of next() per event.   *)
(* Each event steps the axis with the most steps; the steps of the others  *)
(* and the fractions of a nanosecond are spread with error terms.          *)
(*                                                                         *)
(* step_event_rate_denominator * 1000000000, the interval numerator of the *)
(* code, is the field interval of a block.  Arithmetic that would not fit  *)
(* 64 bits, which init() refuses, and the masks of a block, which repeat   *)
(* its signs, are left out.                                                *)
(***************************************************************************)
EXTENDS Integers

CONSTANT Axes

Magnitude(value) == IF value < 0 THEN -value ELSE value

\* motion_segment_validate_block: no axis has more steps than the block, one has as many,
\* and an event lasts a nanosecond at least.
IsValid(b) ==
  /\ b.master > 0 /\ b.rate > 0
  /\ \A a \in Axes : Magnitude(b.delta[a]) <= b.master
  /\ \E a \in Axes : Magnitude(b.delta[a]) = b.master
  /\ b.interval >= b.rate

Block == [delta : [Axes -> Int], master : Nat, rate : Nat, interval : Nat]
Blocks == {b \in Block : IsValid(b)}

\* A generator before its first block has nothing to do.
NoBlock == [delta |-> [a \in Axes |-> 0], master |-> 0, rate |-> 1, interval |-> 1]

VARIABLES
  block,
  events,        \* events_emitted
  accumulator,   \* interval_remainder_accumulator
  error,         \* axis_error
  interval, stepMask,   \* of the last event
  moved, elapsed \* history: steps of each axis and time since the block began

segmentVars == <<block, events, accumulator, error, interval, stepMask, moved, elapsed>>

\* The type invariant: the error terms never go below zero, where the code's would wrap.
TypeOK ==
  /\ block \in Block /\ (block = NoBlock \/ IsValid(block))
  /\ events \in 0 .. block.master
  /\ accumulator \in 0 .. block.rate - 1
  /\ error \in [Axes -> Nat]
  /\ interval \in Nat /\ stepMask \subseteq Axes
  /\ moved \in [Axes -> Nat] /\ elapsed \in Nat

Done == events = block.master

\* motion_segment_generator_init
Begin(b) ==
  /\ block' = b /\ events' = 0 /\ accumulator' = 0 /\ error' = [a \in Axes |-> 0]
  /\ interval' = 0 /\ stepMask' = {} /\ moved' = [a \in Axes |-> 0] /\ elapsed' = 0

Init ==
  /\ block = NoBlock /\ events = 0 /\ accumulator = 0 /\ error = [a \in Axes |-> 0]
  /\ interval = 0 /\ stepMask = {} /\ moved = [a \in Axes |-> 0] /\ elapsed = 0

Base == block.interval \div block.rate
Remainder == block.interval % block.rate

\* The fraction of a nanosecond has grown to a whole one.
CarriesLate == Remainder # 0 /\ accumulator > block.rate - Remainder
Carries == Remainder # 0 /\ accumulator >= block.rate - Remainder

Threshold(a) == block.master - Magnitude(block.delta[a])
StepsLate(a) == block.delta[a] # 0 /\ error[a] > Threshold(a)
Steps(a) == block.delta[a] # 0 /\ error[a] >= Threshold(a)

\* motion_segment_generator_next
NextEvent ==
  /\ ~Done
  /\ interval' = IF Carries THEN Base + 1 ELSE Base
  /\ accumulator' = IF Carries THEN accumulator - (block.rate - Remainder) ELSE accumulator + Remainder
  /\ stepMask' = {a \in Axes : Steps(a)}
  /\ error' = [a \in Axes |-> IF Steps(a) THEN error[a] - Threshold(a) ELSE error[a] + Magnitude(block.delta[a])]
  /\ events' = events + 1
  /\ moved' = [a \in Axes |-> IF Steps(a) THEN moved[a] + 1 ELSE moved[a]]
  /\ elapsed' = elapsed + interval'
  /\ UNCHANGED block

BeginNext == Done /\ block' \in Blocks /\ Begin(block')

Next == NextEvent \/ BeginNext

Spec == Init /\ [][Next]_segmentVars

-----------------------------------------------------------------------------
(* Properties *)

\* Every axis stays within a step of the straight line, ...
StraightLine ==
  block # NoBlock =>
  \A a \in Axes :
    /\ moved[a] * block.master <= events * Magnitude(block.delta[a])
    /\ events * Magnitude(block.delta[a]) < (moved[a] + 1) * block.master

\* and has made the steps of its block, no more and no fewer, when the block ends.
EndsExactly == Done => \A a \in Axes : moved[a] = Magnitude(block.delta[a])

\* The events are within a nanosecond of the speed that was asked for at any time.
OnTime ==
  /\ elapsed * block.rate <= events * block.interval
  /\ events * block.interval < (elapsed + 1) * block.rate

\* next() never reports a block as invalid that init() accepted: an event takes time
\* and steps an axis that moves.
EventsAreValid ==
  events > 0 => interval > 0 /\ stepMask # {} /\ \A a \in stepMask : block.delta[a] # 0

\* What the events of every accepted block promise, at each moment of it: the line, the
\* time, the steps, and no half move.
BlockPlayedExactly == StraightLine /\ EndsExactly /\ OnTime /\ EventsAreValid
=============================================================================
