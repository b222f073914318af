--------------------------- MODULE MotionPipeline ---------------------------
(***************************************************************************)
(* From an accepted command to the pulses of axis X, and back to rest when *)
(* STOP arrives: CommandTask, the command queue, MotionTask with its       *)
(* homing, PlanBuffer, StepGeneratorTask, ExecutionBuffer and the axis.    *)
(*                                                                         *)
(* The two buffers are the FIFO queues that PlanBuffer and ExecutionBuffer *)
(* are shown to implement.  A step is one micrometre.  A block is the      *)
(* signed number of steps left of a move, an event one step.  CommandTask  *)
(* and MotionTask share a priority and interleave freely; the generator    *)
(* has a higher one, so neither runs while it is ready, and interrupts run *)
(* between any two steps of all three.                                     *)
(***************************************************************************)
EXTENDS AxisHardware, Sequences

CONSTANTS
  Targets,          \* absolute positions clients ask for
  Deltas,           \* lengths of their X_JOG moves
  MaxPosition,      \* max_position_um of the planner's X limits
  QueueCapacity,    \* COMMAND_QUEUE_CAPACITY (100)
  PlanCapacity,     \* PLAN_BUFFER_CAPACITY (100)
  BufferCapacity,   \* EXECUTION_BUFFER_CAPACITY (512)
  LowWatermark,     \* EXECUTION_BUFFER_LOW_WATERMARK (256)
  HomeSteps         \* MOTION_TASK_HOME_MOVE_STEPS

ASSUME TargetAssumption == Targets \subseteq Int /\ Deltas \subseteq Int /\ MaxPosition \in Nat
ASSUME CapacityAssumption ==
  /\ QueueCapacity \in Nat \ {0} /\ PlanCapacity \in Nat \ {0} /\ BufferCapacity \in Nat \ {0}
  /\ LowWatermark \in 0 .. BufferCapacity - 1
\* "The start switch, not a step count, ends every homing move."
ASSUME HomeStepsAssumption == HomeSteps \in Nat /\ HomeSteps > EndSwitch + Margin

VARIABLES
  commandQueue,     \* command_queue
  commandStep,      \* where CommandTask is in motion_task_request_stop
  motionStep,       \* where MotionTask is in its loop
  motionCommand,    \* the command MotionTask took from the queue
  homePhase,        \* home_phase of X
  homed,            \* X in machine_state.homed_axes_mask
  position,         \* machine_state.position_um of X
  planBuffer,
  generatorStep,    \* where StepGeneratorTask is in its loop
  active,           \* steps of the active block not yet in ExecutionBuffer
  flags,            \* its pending thread flags
  halted,           \* step_generator_task_halted
  buffer,           \* ExecutionBuffer
  currentIsLast,    \* StepExecutor_t.current_is_last
  desynced          \* history: why position may no longer be where X is

commandVars == <<commandQueue, commandStep>>
motionVars == <<motionStep, motionCommand, homePhase, homed, position>>
generatorVars == <<generatorStep, active, halted>>
streamVars == <<buffer, currentIsLast>>
vars == <<axisVars, commandVars, motionVars, planBuffer, generatorVars, flags, streamVars, desynced>>

Move(target) == [code |-> "MOVE", target |-> target]
Jog(delta) == [code |-> "JOG", target |-> delta]
Home == [code |-> "HOME", target |-> 0]
Stop == [code |-> "STOP", target |-> 0]
Request == {Move(target) : target \in Targets} \cup {Jog(delta) : delta \in Deltas} \cup {Home}
Command == Request \cup {Stop}
NoCommand == [code |-> "NONE", target |-> 0]

BlockReady == "BLOCK_READY"
BufferSpace == "BUFFER_SPACE"
StopReset == "STOP_RESET"

Event == [step : {-1, 1}, last : BOOLEAN]
Sign(n) == IF n > 0 THEN 1 ELSE -1

\* The type invariant: no buffer of the pipeline holds more than fits.
TypeOK ==
  /\ AxisTypeOK /\ requesting \subseteq {"command", "motion"}
  /\ commandQueue \in Seq(Command) /\ Len(commandQueue) <= QueueCapacity
  /\ commandStep \in {"idle", "halted", "store", "discard", "send"}
  /\ motionStep \in {"receive", "execute", "poll", "delay", "stopRequest", "stopStore", "stopAxis", "settle"}
  /\ motionCommand \in Command \cup {NoCommand}
  /\ homePhase \in {"IDLE", "FAST_SEEK", "BACKOFF", "APPROACH"}
  /\ homed \in BOOLEAN
  /\ position \in Nat
  /\ planBuffer \in Seq(Int) /\ Len(planBuffer) <= PlanCapacity
  /\ generatorStep \in {"wait", "fill", "start"}
  /\ active \in Int
  /\ flags \subseteq {BlockReady, BufferSpace, StopReset}
  /\ halted \in BOOLEAN
  /\ buffer \in Seq(Event) /\ Len(buffer) <= BufferCapacity
  /\ currentIsLast \in BOOLEAN
  /\ desynced \subseteq {"homed over events", "planner error"}

Init ==
  /\ AxisInit
  /\ commandQueue = << >> /\ commandStep = "idle"
  /\ motionStep = "receive" /\ motionCommand = NoCommand
  /\ homePhase = "IDLE" /\ homed = FALSE /\ position = 0
  /\ planBuffer = << >>
  /\ generatorStep = "wait" /\ active = 0 /\ flags = {} /\ halted = FALSE
  /\ buffer = << >> /\ currentIsLast = FALSE
  /\ desynced = {}

\* The tasks of normal priority run while the generator waits without a flag.
TasksRun == generatorStep = "wait" /\ flags = {}

-----------------------------------------------------------------------------
(* CommandTask *)

\* handle_assembly_event of any command but STOP; a full queue refuses it.
AcceptCommand(command) ==
  /\ TasksRun /\ commandStep = "idle"
  /\ command \in Request /\ Len(commandQueue) < QueueCapacity
  /\ commandQueue' = Append(commandQueue, command)
  /\ UNCHANGED <<axisVars, commandStep, motionVars, planBuffer, generatorVars, flags, streamVars, desynced>>

\* STOP: motion_task_request_stop halts the generator,
StopArrives ==
  /\ TasksRun /\ commandStep = "idle"
  /\ halted' = TRUE
  /\ commandStep' = "halted"
  /\ UNCHANGED <<axisVars, commandQueue, motionVars, planBuffer, generatorStep, active, flags, streamVars, desynced>>

\* requests the axis to stop if it moves,
StopRequestsAxis ==
  /\ TasksRun /\ commandStep = "halted"
  /\ \/ RequestStopCheck("command") /\ commandStep' = "store"
     \/ ~IsActive /\ commandStep' = "discard" /\ UNCHANGED axisVars
  /\ UNCHANGED <<commandQueue, motionVars, planBuffer, generatorVars, flags, streamVars, desynced>>

StopStoresRequest ==
  /\ TasksRun /\ commandStep = "store"
  /\ RequestStopStore("command")
  /\ commandStep' = "discard"
  /\ UNCHANGED <<commandQueue, motionVars, planBuffer, generatorVars, flags, streamVars, desynced>>

\* drops every command accepted before it,
StopDiscards ==
  /\ TasksRun /\ commandStep = "discard"
  /\ commandQueue' = << >>
  /\ commandStep' = "send"
  /\ UNCHANGED <<axisVars, motionVars, planBuffer, generatorVars, flags, streamVars, desynced>>

\* and queues STOP itself.
StopIsQueued ==
  /\ TasksRun /\ commandStep = "send"
  /\ commandQueue' = Append(commandQueue, Stop)
  /\ commandStep' = "idle"
  /\ UNCHANGED <<axisVars, motionVars, planBuffer, generatorVars, flags, streamVars, desynced>>

CommandTask == StopRequestsAxis \/ StopStoresRequest \/ StopDiscards \/ StopIsQueued

-----------------------------------------------------------------------------
(* MotionTask: the planned moves *)

Receive ==
  /\ TasksRun /\ motionStep = "receive"
  /\ commandQueue # << >>
  /\ motionCommand' = Head(commandQueue)
  /\ commandQueue' = Tail(commandQueue)
  /\ motionStep' = "execute"
  /\ UNCHANGED <<axisVars, commandStep, homePhase, homed, position, planBuffer, generatorVars, flags,
                 streamVars, desynced>>

\* The queue wait ends after a millisecond while X homes.
ReceiveTimesOut ==
  /\ TasksRun /\ motionStep = "receive"
  /\ commandQueue = << >> /\ homePhase # "IDLE"
  /\ motionStep' = "poll"
  /\ UNCHANGED <<axisVars, commandVars, motionCommand, homePhase, homed, position, planBuffer, generatorVars,
                 flags, streamVars, desynced>>

PlanStatus(target) ==
  IF target = position THEN "NO_MOVEMENT"
  ELSE IF ~homed THEN "NOT_HOMED"
  ELSE IF target \notin 0 .. MaxPosition THEN "POSITION_OUT_OF_RANGE"
  ELSE "OK"

\* queue_move; a full plan buffer drops the move, a planner error the plan.
Plans(target) == PlanStatus(target) = "OK"
PlannerError(target) == PlanStatus(target) \notin {"OK", "NO_MOVEMENT"}

PositionBeforePush(target) == IF Plans(target) THEN target ELSE position
PositionAfterMove(target) ==
  IF Plans(target) /\ Len(planBuffer) < PlanCapacity THEN target ELSE position

QueueMove(target) ==
  /\ motionStep' = "poll"
  /\ \/ /\ Plans(target) /\ Len(planBuffer) < PlanCapacity
        /\ planBuffer' = Append(planBuffer, target - position)
        /\ flags' = flags \cup {BlockReady}
        /\ UNCHANGED desynced
     \/ /\ PlannerError(target)
        /\ planBuffer' = << >>
        /\ desynced' = desynced \cup (IF planBuffer = << >> THEN {} ELSE {"planner error"})
        /\ UNCHANGED flags
     \/ /\ ~PlannerError(target) /\ ~(Plans(target) /\ Len(planBuffer) < PlanCapacity)
        /\ UNCHANGED <<planBuffer, flags, desynced>>
  /\ position' = PositionAfterMove(target)
  /\ UNCHANGED <<axisVars, commandVars, motionCommand, homePhase, homed, generatorVars, streamVars>>

\* An axis that homes drops every command but STOP.
DropCommand ==
  /\ TasksRun /\ motionStep = "execute" /\ motionCommand # Stop
  /\ homePhase # "IDLE"
  /\ motionStep' = "poll"
  /\ UNCHANGED <<axisVars, commandVars, motionCommand, homePhase, homed, position, planBuffer,
                 generatorVars, flags, streamVars, desynced>>

Executes(code) == TasksRun /\ motionStep = "execute" /\ motionCommand.code = code

\* queue_xyz_move and queue_x_jog, which moves from the planned position.
ExecuteMove == Executes("MOVE") /\ homePhase = "IDLE" /\ QueueMove(motionCommand.target)
ExecuteJog == Executes("JOG") /\ homePhase = "IDLE" /\ QueueMove(position + motionCommand.target)

-----------------------------------------------------------------------------
(* MotionTask: homing *)

\* home_start_move with the switch reactions it arms first; home_abort of a
\* faulted axis, which cannot start.
Disarm ==
  /\ releaseArmed' = FALSE /\ hookArmed' = FALSE
  /\ UNCHANGED <<status, direction, stepsLeft, fast, pendingStop, stopReason, braking, place, zero,
                 requesting>>

HomeAbort == Disarm /\ homePhase' = "IDLE" /\ homed' = FALSE

HomeStartMove(phase, d, profiled) ==
  \/ /\ StartArmed(d, HomeSteps, profiled, releaseArmed \/ phase = "BACKOFF", hookArmed \/ phase = "APPROACH")
     /\ homePhase' = phase /\ homed' = FALSE
  \/ ~CanStart /\ HomeAbort

\* home_begin: a moving axis ignores HOME.
HomeBegin ==
  /\ Executes("HOME") /\ homePhase = "IDLE"
  /\ motionStep' = "poll"
  /\ \/ /\ ~IsActive
        /\ HomeStartMove("FAST_SEEK", -1, TRUE)
        /\ planBuffer' = << >>
        /\ desynced' = IF active # 0 \/ buffer # << >> THEN {"homed over events"} ELSE {}
     \/ IsActive /\ UNCHANGED <<axisVars, homePhase, homed, planBuffer, desynced>>
  /\ UNCHANGED <<commandVars, motionCommand, position, generatorVars, flags, streamVars>>

Judged == TasksRun /\ motionStep = "poll" /\ homePhase # "IDLE" /\ ~IsActive
EndedBy(reason) == status = "STOPPED" /\ stopReason = reason

\* home_poll: one action per branch.
NothingToPoll ==
  /\ TasksRun /\ motionStep = "poll"
  /\ homePhase = "IDLE" \/ IsActive
  /\ motionStep' = "receive"
  /\ UNCHANGED <<axisVars, commandVars, motionCommand, homePhase, homed, position, planBuffer,
                 generatorVars, flags, streamVars, desynced>>

HomingUnchanged == UNCHANGED <<commandVars, motionCommand, planBuffer, generatorVars, flags, streamVars, desynced>>

StartBackoff ==
  /\ Judged
  /\ \/ homePhase = "FAST_SEEK" /\ EndedBy("START_LIMIT")
     \/ homePhase = "BACKOFF" /\ EndedBy("START_LIMIT_RELEASE") /\ StartSwitchAt(place)
  /\ HomeStartMove("BACKOFF", 1, TRUE)
  /\ motionStep' = "receive"
  /\ UNCHANGED position /\ HomingUnchanged

BackoffSettles ==
  /\ Judged
  /\ homePhase = "BACKOFF" /\ EndedBy("START_LIMIT_RELEASE") /\ ~StartSwitchAt(place)
  /\ motionStep' = "delay"
  /\ UNCHANGED <<axisVars, homePhase, homed, position>> /\ HomingUnchanged

StartApproach ==
  /\ TasksRun /\ motionStep = "delay"
  /\ HomeStartMove("APPROACH", -1, FALSE)
  /\ motionStep' = "receive"
  /\ UNCHANGED position /\ HomingUnchanged

ApproachDone == homePhase = "APPROACH" /\ EndedBy("START_LIMIT") /\ StartSwitchAt(place)

HomeComplete ==
  /\ Judged /\ ApproachDone
  /\ position' = 0
  /\ homed' = TRUE
  /\ ReadyAfterHome
  /\ homePhase' = "IDLE"
  /\ motionStep' = "receive"
  /\ HomingUnchanged

FailedSeek == homePhase = "FAST_SEEK" /\ ~EndedBy("START_LIMIT")
Failed ==
  \/ FailedSeek
  \/ homePhase = "BACKOFF" /\ ~EndedBy("START_LIMIT_RELEASE")
  \/ homePhase = "APPROACH" /\ ~ApproachDone

HomeFails ==
  /\ Judged /\ Failed
  /\ HomeAbort
  /\ motionStep' = "receive"
  /\ UNCHANGED position /\ HomingUnchanged

HomePoll == NothingToPoll \/ StartBackoff \/ BackoffSettles \/ StartApproach \/ HomeComplete \/ HomeFails

-----------------------------------------------------------------------------
(* MotionTask: STOP *)

\* stop clears the plan,
ClearPlan ==
  /\ Executes("STOP")
  /\ planBuffer' = << >>
  /\ motionStep' = "stopRequest"
  /\ UNCHANGED <<axisVars, commandVars, motionCommand, homePhase, homed, position, generatorVars, flags,
                 streamVars, desynced>>

\* requests the axis to stop (directly or in home_abort),
StopRequest ==
  /\ TasksRun /\ motionStep = "stopRequest"
  /\ \/ RequestStopCheck("motion") /\ motionStep' = "stopStore"
     \/ ~IsActive /\ motionStep' = "stopAxis" /\ UNCHANGED axisVars
  /\ UNCHANGED <<homePhase, homed, position>> /\ HomingUnchanged

StopStore ==
  /\ TasksRun /\ motionStep = "stopStore"
  /\ RequestStopStore("motion")
  /\ motionStep' = "stopAxis"
  /\ UNCHANGED <<homePhase, homed, position>> /\ HomingUnchanged

\* aborts homing and acknowledges a fault, after which X is not homed,
StopAxisTask ==
  /\ TasksRun /\ motionStep = "stopAxis"
  /\ \/ IsFault /\ ClearFault /\ homed' = FALSE
     \/ ~IsFault /\ homePhase # "IDLE" /\ Disarm /\ homed' = FALSE
     \/ ~IsFault /\ homePhase = "IDLE" /\ UNCHANGED <<axisVars, homed>>
  /\ homePhase' = "IDLE"
  /\ motionStep' = "settle"
  /\ UNCHANGED position /\ HomingUnchanged

Anytime == TRUE
AtRest == ~IsActive

\* and once X is at rest takes the position from the scale and resumes the generator.
FinishStop ==
  /\ TasksRun /\ motionStep = "settle" /\ AtRest
  /\ position' = IF homed THEN Scale ELSE position
  /\ desynced' = IF homed THEN {} ELSE desynced
  /\ flags' = flags \cup {StopReset}
  /\ motionStep' = "receive"
  /\ UNCHANGED <<axisVars, commandVars, motionCommand, homePhase, homed, planBuffer, generatorVars, streamVars>>

MotionStop == ClearPlan \/ StopRequest \/ StopStore \/ StopAxisTask \/ FinishStop
MotionTask == Receive \/ ReceiveTimesOut \/ DropCommand \/ ExecuteMove \/ ExecuteJog \/ HomeBegin \/ HomePoll \/ MotionStop

-----------------------------------------------------------------------------
(* StepGeneratorTask *)

StillHalted == halted
Resumed == FALSE

GeneratorWakesAsItWas ==
  /\ generatorStep = "wait" /\ flags # {}
  /\ flags' = {} /\ halted' = (halted /\ StopReset \notin flags)
  /\ generatorStep' = IF halted' THEN "wait" ELSE "fill"
  /\ UNCHANGED <<axisVars, commandVars, motionVars, planBuffer, active, streamVars, desynced>>

\* osThreadFlagsWait returns; STOP_RESET drops the active block and ExecutionBuffer.
GeneratorWakes ==
  /\ generatorStep = "wait" /\ flags # {}
  /\ flags' = {}
  /\ IF StopReset \in flags
     THEN active' = 0 /\ buffer' = << >> /\ halted' = Resumed
     ELSE UNCHANGED <<active, buffer, halted>>
  /\ generatorStep' = IF halted' THEN "wait" ELSE "fill"
  /\ UNCHANGED <<axisVars, commandVars, motionVars, planBuffer, currentIsLast, desynced>>

HasRoomLate == Len(buffer) <= BufferCapacity
HasRoom == Len(buffer) < BufferCapacity

\* fill: one event of the active block,
GenerateEvent ==
  /\ generatorStep = "fill" /\ active # 0 /\ HasRoom
  /\ buffer' = Append(buffer, [step |-> Sign(active), last |-> active \in {-1, 1}])
  /\ active' = active - Sign(active)
  /\ UNCHANGED <<axisVars, commandVars, motionVars, planBuffer, generatorStep, flags, halted, currentIsLast,
                 desynced>>

\* the next block of the plan,
TakeBlock ==
  /\ generatorStep = "fill" /\ active = 0 /\ planBuffer # << >>
  /\ active' = Head(planBuffer)
  /\ planBuffer' = Tail(planBuffer)
  /\ UNCHANGED <<axisVars, commandVars, motionVars, generatorStep, flags, halted, streamVars, desynced>>

\* until the buffer is full or the plan empty.
FillEnds ==
  /\ generatorStep = "fill"
  /\ IF active = 0 THEN planBuffer = << >> ELSE ~HasRoom
  /\ generatorStep' = "start"
  /\ UNCHANGED <<axisVars, commandVars, motionVars, planBuffer, active, flags, halted, streamVars, desynced>>

\* ExecutionBuffer's pop, which reports the crossing of the low watermark.
PopEvent ==
  /\ buffer' = Tail(buffer)
  /\ currentIsLast' = Head(buffer).last
  /\ flags' = IF Len(buffer) = LowWatermark + 1 THEN flags \cup {BufferSpace} ELSE flags

Startable == ~halted /\ buffer # << >> /\ status \in {"READY", "COMPLETE"}

\* start_axis: an idle X starts with the buffer's first event.
StartAxis ==
  /\ generatorStep = "start"
  /\ \/ Startable /\ PopEvent /\ StartEvent(Head(buffer).step, 0, FALSE)
     \/ ~Startable /\ UNCHANGED <<axisVars, streamVars, flags>>
  /\ generatorStep' = "wait"
  /\ UNCHANGED <<commandVars, motionVars, planBuffer, active, halted, desynced>>

StepGenerator == GeneratorWakes \/ GenerateEvent \/ TakeBlock \/ FillEnds \/ StartAxis

-----------------------------------------------------------------------------
(* The interrupts of X *)

\* The ones that take no event of the stream.
TakesNoEvent ==
  /\ JogInterrupt
  /\ UNCHANGED <<commandVars, motionVars, planBuffer, generatorVars, flags, streamVars, desynced>>

\* step_executor_pulse_complete finds the stream at its end,
StreamRunsOut ==
  /\ buffer = << >>
  /\ StreamEnds(IF currentIsLast THEN "COMPLETE" ELSE "FAULT_UNDERRUN")
  /\ UNCHANGED <<commandVars, motionVars, planBuffer, generatorVars, flags, streamVars, desynced>>

\* or takes the next event, which may come too late.
NextEvent ==
  /\ buffer # << >>
  /\ PopEvent
  /\ StreamContinues(Head(buffer).step) \/ StreamEnds("FAULT_TIMING")
  /\ UNCHANGED <<commandVars, motionVars, planBuffer, generatorVars, desynced>>

AxisInterrupt == TakesNoEvent \/ StreamRunsOut \/ NextEvent

-----------------------------------------------------------------------------
Next ==
  \/ \E command \in Request : AcceptCommand(command)
  \/ StopArrives
  \/ CommandTask \/ MotionTask \/ StepGenerator \/ AxisInterrupt

Spec == Init /\ [][Next]_vars

(* Clients may stay silent, but a STOP that began is carried through.  The    *)
(* timer of a moving axis keeps interrupting.  MotionTask gets its turn       *)
(* whenever CommandTask blocks for the next command, so a command waiting     *)
(* again and again is received: strong fairness.                              *)
Fairness ==
  /\ WF_vars(AxisInterrupt) /\ WF_vars(StepGenerator)
  /\ WF_vars(CommandTask) /\ SF_vars(MotionTask)

FairSpec == Spec /\ Fairness

-----------------------------------------------------------------------------
(* Properties. *)

\* A STOP has arrived and MotionTask has not finished it.
StopUnderWay ==
  \/ commandStep # "idle"
  \/ \E i \in DOMAIN commandQueue : commandQueue[i] = Stop
  \/ motionStep = "execute" /\ motionCommand = Stop
  \/ motionStep \in {"stopRequest", "stopStore", "stopAxis", "settle"}

\* No move is planned, generated, buffered or running.
Quiet ==
  /\ planBuffer = << >> /\ active = 0 /\ buffer = << >>
  /\ generatorStep = "wait" /\ flags = {}
  /\ motionStep = "receive"
  /\ homePhase = "IDLE"
  /\ status \in {"READY", "COMPLETE"}

\* Only a homed axis runs planned moves: events that a switch, a fault or a STOP left in
\* the buffer never run while it is not homed, nor while it homes.  Its scale counts from the edge of the
\* start switch, and when it has run all its moves it stands where the planner takes the
\* next one from, unless events were dropped behind the planner's back.
PositionTrusted ==
  /\ IsActive /\ ~IsJog => homed
  /\ homed => /\ zero = 0
              /\ Quiet /\ ~StopUnderWay /\ desynced = {} => position = Scale

\* "The axis has stopped and this task is not filling, so both ends of
\* ExecutionBuffer are idle" when StepGeneratorTask resets after STOP.
ResetsAtRest == StopReset \in flags => ~IsActive /\ generatorStep = "wait" /\ planBuffer = << >>

\* Every STOP is finished: the generator does not stay halted.
HaltedGeneratorResumes == halted ~> ~halted

\* Homing ends, in a homed axis or in an aborted one.
HomingEnds == homePhase # "IDLE" ~> homePhase = "IDLE"

-----------------------------------------------------------------------------
(* What a comment of the code promises, and a run refutes. *)

\* "pulses stop at the next timer interrupt, nothing new is started": from the
\* moment CommandTask has dropped the older commands until MotionTask is done, X
\* starts no move.
NothingStartsAfterStop ==
  [][commandStep = "send" /\ ~IsActive => ~IsActive']_vars
=============================================================================
