---------------------------- MODULE MotionPlanner ----------------------------
(***************************************************************************)
(* The planner of one straight move (src/APP/motion/motion_planner.c) and  *)
(* the axis limits it takes from a calibration                             *)
(* (src/APP/motion/axis_calibration.c), as operators.                      *)
(*                                                                         *)
(* Only the moves it plans are described: every refusal leaves its caller  *)
(* with no block.  A configuration it would refuse and products that would *)
(* not fit 64 bits are left out.                                           *)
(***************************************************************************)
EXTENDS Integers, FiniteSetsExt

CONSTANTS
  PlannerAxes,
  MaxStepRate,     \* max_step_event_rate_hz
  NsPerSecond,     \* 1000000000
  SqrtBits         \* the square root starts at 4^SqrtBits: 31

ASSUME PlannerAssumption ==
  /\ MaxStepRate \in Nat \ {0} /\ NsPerSecond \in Nat \ {0} /\ MaxStepRate <= NsPerSecond
  /\ SqrtBits \in Nat /\ IsFiniteSet(PlannerAxes)

Abs(value) == IF value < 0 THEN -value ELSE value

\* axis_calibration_to_planner_axis of a record that measured steps, distance and travel.
AxisOf(record) ==
  [max |-> record.travel, numerator |-> record.steps, denominator |-> record.distance,
   speed |-> (MaxStepRate * record.distance) \div record.steps]

\* motion_planner_position_to_steps: rounded to the nearest step, away from zero.
PositionToSteps(position, axis) ==
  LET steps == (Abs(position) * axis.numerator + axis.denominator \div 2) \div axis.denominator IN
  IF position < 0 THEN -steps ELSE steps

\* Rounded up, a path looks longer and its moves slower than they are.
SqrtUp(value) == CHOOSE root \in 0 .. value : root * root >= value /\ \A r \in 0 .. root - 1 : r * r < value

\* motion_planner_integer_sqrt: a binary digit of the root at a time, from the highest.
FourTo[n \in 0 .. SqrtBits + 1] == IF n = 0 THEN 1 ELSE 4 * FourTo[n - 1]
NextDigit(digits, bit) ==
  IF digits.left >= digits.root + bit
  THEN [left |-> digits.left - (digits.root + bit), root |-> digits.root \div 2 + bit]
  ELSE [left |-> digits.left, root |-> digits.root \div 2]
IntegerSqrt(value) ==
  LET After[n \in 0 .. SqrtBits + 1] ==
        IF n = 0 THEN [left |-> value, root |-> 0]
        ELSE NextDigit(After[n - 1], FourTo[SqrtBits + 1 - n])
  IN After[SqrtBits + 1].root

\* motion_planner_ratio_exceeds_limit
ExceedsWhole(numerator, denominator, limit) == numerator \div denominator > limit
Exceeds(numerator, denominator, limit) ==
  numerator \div denominator > limit \/ (numerator \div denominator = limit /\ numerator % denominator # 0)

Requested(from, target) == {a \in PlannerAxes : target[a] # from[a]}
DeltaOf(from, target, axes) ==
  [a \in PlannerAxes |-> PositionToSteps(target[a], axes[a]) - PositionToSteps(from[a], axes[a])]
SquareSum(from, target) ==
  MapThenSumSet(LAMBDA a : (target[a] - from[a]) * (target[a] - from[a]), PlannerAxes)
PathLength(from, target) == IntegerSqrt(SquareSum(from, target))

MovesAnyway(from, target, axes) == TRUE
Moves(from, target, axes) == \E a \in PlannerAxes : DeltaOf(from, target, axes)[a] # 0

\* motion_planner_plan_linear: the block,
BlockOf(from, target, feedrate, axes) ==
  LET delta == DeltaOf(from, target, axes)
      master == Max({Abs(delta[a]) : a \in PlannerAxes})
  IN [delta |-> delta, master |-> master, rate |-> feedrate * master,
      interval |-> PathLength(from, target) * NsPerSecond]

\* and when it is planned; motion_planner_checked_square_sum refuses a sum that is too large.
Plans(from, target, feedrate, axes, homed) ==
  /\ Requested(from, target) # {} /\ Requested(from, target) \subseteq homed
  /\ feedrate # 0
  /\ \A a \in Requested(from, target) : target[a] \in 0 .. axes[a].max
  /\ Moves(from, target, axes)
  /\ SquareSum(from, target) < FourTo[SqrtBits + 1]
  /\ \A a \in Requested(from, target) :
       ~Exceeds(feedrate * Abs(target[a] - from[a]), PathLength(from, target), axes[a].speed)
  /\ LET b == BlockOf(from, target, feedrate, axes) IN
     ~Exceeds(b.rate, PathLength(from, target), MaxStepRate)
=============================================================================
