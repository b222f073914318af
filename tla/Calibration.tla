----------------------------- MODULE Calibration -----------------------------
(***************************************************************************)
(* HOME, CALIBRATE and STOP of one axis: MotionTask's homing and           *)
(* calibration (src/APP/tasks/motion_task.c) with the procedure of         *)
(* src/APP/motion/axis_calibration_run.c, over the axis of AxisInterrupts: *)
(* bouncing switches, a drive with slack, nested interrupts, late          *)
(* interrupts and CommandTask's immediate stop requests.                   *)
(*                                                                         *)
(* A step moves the carriage one micrometre of the scale.  The planned     *)
(* moves of X are streams that run while the axis is neither homing nor    *)
(* calibrating; MotionPipeline models where they come from.  Both switches *)
(* on at once and a scale that does not move, which are hardware faults,   *)
(* and the settle timeout of STOP are left out.                            *)
(***************************************************************************)
EXTENDS AxisInterrupts

CONSTANTS
  TakeUpSteps,     \* take_up_steps
  MeasureSteps     \* measure_steps

\* MOTION_TASK_HOME_MOVE_STEPS and AXIS_BENCH_MAX_STEPS are more than the travel.
HomeSteps == MaxSteps

ASSUME ProcedureAssumption ==
  /\ TakeUpSteps \in 1 .. MaxSteps /\ MeasureSteps \in 1 .. MaxSteps
  /\ Slack <= TakeUpSteps      \* "this move takes up the slack"
  \* "travel about 16.3 mm", "take-up is about 0.08 mm and the measurement about 12.2 mm"
  /\ TakeUpSteps + MeasureSteps <= EndSwitch

VARIABLES
  pc,             \* where MotionTask is: in its loop, in the settle delay or in STOP
  homePhase,      \* home_phase
  homed,          \* the axis in machine_state.homed_axes_mask
  phase,          \* procedure.phase
  homing,         \* waiting_for_home, returning_home or neither
  travel, measureStart   \* of the procedure

procedure == <<phase, homing, travel, measureStart>>
taskVars == <<pc, homePhase, homed, procedure>>
allVars == <<vars, taskVars>>

Distance(a, b) == IF a < b THEN b - a ELSE a - b
Scale == Distance(zero, place)
Lengths == 0 .. EndSwitch + 2 * Overrun

\* The type invariant: the axis' and what MotionTask keeps of homing and calibration.  HOME
\* and CALIBRATE of a busy axis are refused, so only one of its two polls has work.
ProcedureTypeOK ==
  /\ TypeOK
  /\ pc \in {"loop", "delay", "ready", "stop store", "stop axis", "settle"}
  /\ homePhase \in {"IDLE", "FAST_SEEK", "BACKOFF", "APPROACH"} /\ homed \in BOOLEAN
  /\ phase \in {"IDLE", "SEEK_END", "TAKE_UP", "MEASURE"} /\ homing \in {"no", "waiting", "returning"}
  /\ travel \in Lengths /\ measureStart \in Lengths
  /\ homePhase = "IDLE" \/ phase = "IDLE"

ProcedureInit ==
  /\ Init
  /\ pc = "loop" /\ homePhase = "IDLE" /\ homed = FALSE
  /\ phase = "IDLE" /\ homing = "no" /\ travel = 0 /\ measureStart = 0

Busy == homePhase # "IDLE" \/ phase # "IDLE" \/ homing # "no"
EndedBy(reason) == status = "STOPPED" /\ stopReason = reason

\* The loop receives a command or times out, polls homing and polls the procedure.  At
\* most one of the polls has something to do (ProcedureTypeOK), and one that has not is no step.
MotionTaskAt(step, to) == TasksRun /\ pc = step /\ pc' = to

-----------------------------------------------------------------------------
(* Homing *)

AxisUnchanged == UNCHANGED vars

Disarm == releaseArmed' = FALSE /\ hookArmed' = FALSE

\* home_abort of an axis at rest: its stop request finds nothing to stop.
HomeAbort ==
  /\ Disarm /\ homePhase' = "IDLE" /\ homed' = FALSE
  /\ UNCHANGED <<move, jog, stream, request, switch, braking, timer, world, storing, history>>

HomeStartMoveUnhooked(to, d, profiled) ==
  \/ /\ Start(d, HomeSteps, profiled, releaseArmed \/ to = "BACKOFF", hookArmed)
     /\ homePhase' = to /\ homed' = FALSE
  \/ IsFault /\ HomeAbort

\* The reactions are armed first; a move that its switch blocks at once is judged by
\* the next poll, an axis with a fault does not start.
HomeStartMove(to, d, profiled) ==
  \/ /\ Start(d, HomeSteps, profiled, releaseArmed \/ to = "BACKOFF", hookArmed \/ to = "APPROACH")
     /\ homePhase' = to /\ homed' = FALSE
  \/ IsFault /\ HomeAbort

HomeBeginOnce ==
  \/ ~IsActive /\ ~homed /\ HomeStartMove("FAST_SEEK", -1, TRUE)
  \/ (IsActive \/ homed) /\ AxisUnchanged /\ UNCHANGED <<homePhase, homed>>

HomeBegin ==
  \/ ~IsActive /\ HomeStartMove("FAST_SEEK", -1, TRUE)
  \/ IsActive /\ AxisUnchanged /\ UNCHANGED <<homePhase, homed>>

HomePolled(to) == MotionTaskAt("loop", to) /\ homePhase # "IDLE" /\ ~IsActive /\ UNCHANGED procedure

\* The switch flickered on its edge: it backs off again.
StartBackoff ==
  /\ HomePolled("loop")
  /\ \/ homePhase = "FAST_SEEK" /\ EndedBy("START_LIMIT")
     \/ homePhase = "BACKOFF" /\ EndedBy("START_LIMIT_RELEASE") /\ startOn
  /\ HomeStartMove("BACKOFF", 1, TRUE)

BackoffSettles ==
  /\ HomePolled("delay")
  /\ homePhase = "BACKOFF" /\ EndedBy("START_LIMIT_RELEASE") /\ ~startOn
  /\ AxisUnchanged /\ UNCHANGED <<homePhase, homed>>

StartApproach ==
  /\ MotionTaskAt("delay", "loop")
  /\ HomeStartMove("APPROACH", -1, FALSE)
  /\ UNCHANGED procedure

ApproachDone == homePhase = "APPROACH" /\ EndedBy("START_LIMIT") /\ startOn

HomeComplete ==
  /\ HomePolled("ready") /\ ApproachDone
  /\ homed' = TRUE /\ homePhase' = "IDLE"
  /\ AxisUnchanged

\* It reads the switch once more.
ReadyAfterHome ==
  /\ MotionTaskAt("ready", "loop")
  /\ IF status = "STOPPED" /\ startOn THEN Recover ELSE AxisUnchanged
  /\ UNCHANGED <<homePhase, homed, procedure>>

Failed ==
  \/ homePhase = "FAST_SEEK" /\ ~EndedBy("START_LIMIT")
  \/ homePhase = "BACKOFF" /\ ~EndedBy("START_LIMIT_RELEASE")
  \/ homePhase = "APPROACH" /\ ~ApproachDone

HomeFails == HomePolled("loop") /\ Failed /\ HomeAbort

HomePoll == StartBackoff \/ BackoffSettles \/ StartApproach \/ HomeComplete \/ ReadyAfterHome \/ HomeFails

-----------------------------------------------------------------------------
(* The calibration procedure *)

\* axis_bench_start_profile: anything but a start is an error.
ProcedureMove(to, d, steps) ==
  \/ /\ Start(d, steps, TRUE, releaseArmed, hookArmed)
     /\ phase' = IF status' = "STARTING" THEN to ELSE "IDLE"
  \/ ~CanStart /\ phase' = "IDLE" /\ AxisUnchanged

Polled == MotionTaskAt("loop", "loop") /\ UNCHANGED <<homePhase, homed>>

\* Homing before or after the procedure is over.
HomeEnds == Polled /\ homing # "no" /\ homePhase = "IDLE" /\ homing' = "no"

HomeFailed ==
  /\ HomeEnds /\ ~homed
  /\ AxisUnchanged /\ UNCHANGED <<phase, travel, measureStart>>

Begin ==
  /\ HomeEnds /\ homed /\ homing = "waiting"
  /\ ProcedureMove("SEEK_END", 1, HomeSteps)
  /\ travel' = 0 /\ measureStart' = 0

\* The result is OK.
Returned ==
  /\ HomeEnds /\ homed /\ homing = "returning"
  /\ AxisUnchanged /\ UNCHANGED <<phase, travel, measureStart>>

\* A return move that any stop cut short did not travel as commanded.
EndedAnyhow(steps) == completed <= steps
Completed(steps) == status = "COMPLETE" /\ completed = steps

SeekFails == ~EndedBy("END_LIMIT") \/ Distance(zero, trigger) = 0
TakeUpFails == ~Completed(TakeUpSteps)
MeasureFails == ~Completed(MeasureSteps) \/ Distance(measureStart, Scale) = 0

Judged(step) == phase = step /\ homing = "no" /\ ~IsActive

ProcedureFails ==
  /\ Polled
  /\ \/ Judged("SEEK_END") /\ SeekFails
     \/ Judged("TAKE_UP") /\ TakeUpFails
     \/ Judged("MEASURE") /\ MeasureFails
  /\ phase' = "IDLE" /\ travel' = 0 /\ measureStart' = 0
  /\ AxisUnchanged /\ UNCHANGED homing

\* The travel is the place where the end switch fired.
EndReached ==
  /\ Polled /\ Judged("SEEK_END") /\ ~SeekFails
  /\ travel' = Distance(zero, trigger)
  /\ ProcedureMove("TAKE_UP", -1, TakeUpSteps)
  /\ UNCHANGED <<homing, measureStart>>

SlackTakenUp ==
  /\ Polled /\ Judged("TAKE_UP") /\ ~TakeUpFails
  /\ measureStart' = Scale
  /\ ProcedureMove("MEASURE", -1, MeasureSteps)
  /\ UNCHANGED <<homing, travel>>

\* What is stored: steps, distance_um and travel_um.
Record == [steps |-> MeasureSteps, distance |-> Distance(measureStart, Scale), travel |-> travel]

\* The record is stored and the axis goes home once more.
Measured ==
  /\ MotionTaskAt("loop", "loop")
  /\ Judged("MEASURE") /\ ~MeasureFails
  /\ phase' = "IDLE" /\ travel' = 0 /\ measureStart' = 0
  /\ homing' = "returning"
  /\ HomeBegin

CalibrationPoll ==
  \/ HomeFailed \/ Begin \/ Returned \/ ProcedureFails
  \/ EndReached \/ SlackTakenUp \/ Measured

-----------------------------------------------------------------------------
(* Commands *)

ExecuteHome == MotionTaskAt("loop", "loop") /\ ~Busy /\ HomeBegin /\ UNCHANGED procedure

\* A moving axis is not homed first.
ExecuteCalibrate ==
  /\ MotionTaskAt("loop", "loop") /\ ~Busy
  /\ HomeBegin
  /\ homing' = "waiting"
  /\ UNCHANGED <<phase, travel, measureStart>>

\* STOP cancels the calibration and requests a moving axis to stop: the check here,
ExecuteStop ==
  /\ MotionTaskAt("loop", IF IsActive THEN "stop store" ELSE "stop axis")
  /\ phase' = "IDLE" /\ homing' = "no" /\ travel' = 0 /\ measureStart' = 0
  /\ AxisUnchanged /\ UNCHANGED <<homePhase, homed>>

\* the store under the interrupt mask;
StopStore ==
  /\ MotionTaskAt("stop store", "stop axis")
  /\ request' = IF request = None THEN "REQUEST" ELSE request
  /\ UNCHANGED <<move, jog, stream, armed, switch, braking, timer, world, storing, history>>
  /\ UNCHANGED <<homePhase, homed, procedure>>

\* it ends homing and acknowledges a fault,
AbortKeeps == UNCHANGED armed
AbortDisarms == Disarm
StopAxisTask ==
  /\ MotionTaskAt("stop axis", "settle")
  /\ \/ IsFault /\ Recover /\ homed' = FALSE
     \/ /\ ~IsFault /\ homePhase # "IDLE"
        /\ AbortDisarms /\ homed' = FALSE
        /\ UNCHANGED <<move, jog, stream, request, switch, braking, timer, world, storing, history>>
     \/ ~IsFault /\ homePhase = "IDLE" /\ AxisUnchanged /\ UNCHANGED homed
  /\ homePhase' = "IDLE" /\ UNCHANGED procedure

\* and waits for the axis to come to rest.
FinishStop ==
  /\ MotionTaskAt("settle", "loop") /\ ~IsActive
  /\ AxisUnchanged /\ UNCHANGED <<homePhase, homed, procedure>>

Execute == ExecuteHome \/ ExecuteCalibrate \/ ExecuteStop
MotionTask ==
  HomePoll \/ CalibrationPoll \/ StopStore \/ StopAxisTask \/ FinishStop

-----------------------------------------------------------------------------

\* A planned move of X; other axes have none.
StreamStarts ==
  /\ homed /\ ~Busy /\ status \in {"READY", "COMPLETE"}
  /\ \E d \in {-1, 1} : Start(d, 0, FALSE, releaseArmed, hookArmed)
  /\ UNCHANGED taskVars

AxisRuns == (LimitInterrupt \/ TimerInterrupt \/ DelayEnds \/ Pulse) /\ UNCHANGED taskVars

ProcedureNext ==
  \/ AxisRuns \/ MotionTask \/ Execute \/ StreamStarts
  \/ RequestStop /\ UNCHANGED taskVars
  \/ Bounce /\ UNCHANGED taskVars

ProcedureSpec == ProcedureInit /\ [][ProcedureNext]_allVars

-----------------------------------------------------------------------------
(* Properties *)

\* What is stored is what the machine did: the measured distance is free of the slack
\* that the reversal at the end switch left in the drive, and the travel lies between
\* the edges of the two switches as they fired.
MeasuredRight ==
  [][homing' = "returning" /\ homing # "returning" =>
       /\ Record.distance = Record.steps
       /\ Record.travel \in EndSwitch .. EndSwitch + 2 * (BounceSteps + 1)]_allVars

\* A homed axis counts from where its start switch fired, bouncing or not.
HomedAtTheEdge == homed => zero \in -(BounceSteps + 1) .. 0

\* The one-shot reactions do not outlive the homing move they were armed for: left over,
\* they would zero the scale or stop a move anywhere else.
ArmedWhileHoming ==
  /\ hookArmed => homePhase = "APPROACH"
  /\ releaseArmed => homePhase = "BACKOFF"

\* "Calibration reports OK only once the axis is back home" (motion_task.c:527).
OkMeansHome ==
  [][homing = "returning" /\ homing' = "no" /\ pc' = "loop" /\ homed => ~IsActive /\ place <= 0]_allVars
=============================================================================
