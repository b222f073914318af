------------------------------ MODULE MovePath ------------------------------
(***************************************************************************)
(* From a target in micrometres to the steps of the motors: MotionTask's   *)
(* planned positions, the planner and the segment generator.  The buffers  *)
(* between them keep the order of the moves (PlanBuffer, ExecutionBuffer)  *)
(* and stops, faults and refused moves drop them (MotionPipeline): here a  *)
(* move is played before the next one is planned.                          *)
(***************************************************************************)
EXTENDS MotionPlanner, SegmentGenerator

CONSTANTS
  StreamAxes,     \* MOTION_TASK_STREAM_AXES_MASK: X for now
  Targets,        \* targets of the commands
  Feedrates,
  Calibrations    \* records of calibrations

ASSUME PathAssumption ==
  /\ PlannerAxes = Axes /\ StreamAxes \subseteq Axes
  /\ Targets \subseteq Int /\ Feedrates \subseteq Nat
  /\ \A c \in Calibrations :
       /\ c.steps \in Nat \ {0} /\ c.distance \in Nat \ {0} /\ c.travel \in Nat \ {0}
       /\ MaxStepRate * c.distance >= c.steps

VARIABLES
  position,   \* machine_state.position_um
  homedAxes,  \* machine_state.homed_axes_mask
  axisConfig, \* planner_config.axis
  motor,      \* steps of each motor since its axis was homed
  from        \* history: where the last move began

pathVars == <<segmentVars, position, homedAxes, axisConfig, motor, from>>

PathInit ==
  /\ Init
  /\ position = [a \in Axes |-> 0] /\ from = position
  /\ homedAxes = {} /\ motor = [a \in Axes |-> 0]
  /\ axisConfig \in [Axes -> {AxisOf(c) : c \in Calibrations}]

\* motion_task_queue_move: the next move starts where this one ends.
QueueMove ==
  /\ Done
  /\ \E target \in [Axes -> Targets], feedrate \in Feedrates :
       /\ Plans(position, target, feedrate, axisConfig, homedAxes \cap StreamAxes)
       /\ Begin(BlockOf(position, target, feedrate, axisConfig))
       /\ position' = target
  /\ from' = position
  /\ UNCHANGED <<homedAxes, axisConfig, motor>>

\* An event of the generator on its way to the motors.
PlayEvent ==
  /\ NextEvent
  /\ motor' = [a \in Axes |->
                 IF a \in stepMask' THEN (IF block.delta[a] > 0 THEN motor[a] + 1 ELSE motor[a] - 1) ELSE motor[a]]
  /\ UNCHANGED <<position, homedAxes, axisConfig, from>>

\* motion_task_home_complete of an axis at rest.
HomeComplete ==
  /\ Done
  /\ \E a \in Axes :
       /\ homedAxes' = homedAxes \cup {a}
       /\ position' = [position EXCEPT ![a] = 0] /\ motor' = [motor EXCEPT ![a] = 0]
       /\ from' = [from EXCEPT ![a] = 0]
  /\ UNCHANGED <<segmentVars, axisConfig>>

\* A calibration ends: it takes effect, and the axis is on its way home.
AppliesInPlace(a) == UNCHANGED homedAxes
Unhomes(a) == homedAxes' = homedAxes \ {a}

ApplyCalibration ==
  /\ Done
  /\ \E a \in Axes, c \in Calibrations : axisConfig' = [axisConfig EXCEPT ![a] = AxisOf(c)] /\ Unhomes(a)
  /\ from' = position
  /\ UNCHANGED <<segmentVars, position, motor>>

PathNext == QueueMove \/ PlayEvent \/ HomeComplete \/ ApplyCalibration

PathSpec == PathInit /\ [][PathNext]_pathVars

-----------------------------------------------------------------------------
(* Properties *)

\* However many moves, homings and calibrations: between moves the motor of a homed axis
\* is at the step of its planned position.  Nothing is rounded twice.
NoDrift ==
  Done => \A a \in homedAxes : motor[a] = PositionToSteps(position[a], axisConfig[a])

\* A move is as fast as its feedrate asks, since the length of the path that sets its time
\* is the exact one rounded down, and no faster than it may be: over the time its events
\* take it keeps the speed limit of every axis, and no two of them are closer than the
\* highest step rate allows.
SpeedAsPlanned ==
  /\ ~Done => LET length == block.interval \div NsPerSecond
                  square == MapThenSumSet(LAMBDA a : (position[a] - from[a]) * (position[a] - from[a]), Axes)
              IN length * length <= square /\ square < (length + 1) * (length + 1)
  /\ Done /\ block # NoBlock =>
       \A a \in Axes : Abs(position[a] - from[a]) * NsPerSecond < axisConfig[a].speed * (elapsed + 1)
  /\ events > 0 => MaxStepRate * (interval + 1) > NsPerSecond

\* The planner gives the generator only blocks that it accepts and plays to the end.
GeneratorImplemented == Spec
=============================================================================
