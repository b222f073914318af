# Verification of the fm_v3 motion firmware

fm_v3 is the firmware of a three-axis measuring machine on an STM32H723: it
accepts commands over TCP, plans moves of the axes X, Y and Z, turns them into
STEP pulses from timer interrupts, watches the two switches at the ends of each
axis, homes the axes, and sends telemetry and diagnostics over UDP. It runs
FreeRTOS (through CMSIS-RTOS2) and lwIP. This directory holds TLA+ models of the
core of it and of its network side, the TLC runs that check them and TLAPS proofs about them.

- [Inventory](#inventory): the parts of the system
- [Modules](#modules): which module models which part, and how
- [Runs](#runs): what TLC checks, the bounds, the fairness
- [Proofs](#proofs): what is proved and along which argument
- [Findings](#findings): where the code and its comments, tests or other code disagree
- [Not modelled](#not-modelled) and the [plan](#plan)

Checking everything by hand, from this directory:

    tlc -workers 2 -config MCAxisUse.cfg MCAxisUse      # one run
    tlapm AxisUseProofs.tla                             # one proof module

## Inventory

Commands flow down, pulses come out at the bottom:

    TCP client -> CommandTask -> CommandQueue -> MotionTask -> PlanBuffer
        -> StepGeneratorTask (SegmentGenerator) -> ExecutionBuffer
        -> timer interrupt (StepExecutor) -> axis hardware -> STEP pulses
                                             switches, scale <- carriage

Everything but the last two stages is a FreeRTOS task: CommandTask, MotionTask
(priority Normal) and StepGeneratorTask (AboveNormal, `Core/Src/freertos.c`).
The axis' timer interrupt and the switch interrupt (which outranks it) preempt
all of them.

| Part | State | Operations | What makes it right |
|---|---|---|---|
| **ExecutionBuffer** `APP/motion/execution_buffer.c` | entries, two free-running 32-bit positions, a watermark listener | try_push (task), try_pop (interrupt), clear, count | lock-free FIFO; nothing overwritten before it is read; the single wake-up at the watermark is never lost |
| **PlanBuffer** `APP/motion/plan_buffer.c` | entries, head, tail, count, saturating totals | try_push, clear (MotionTask), try_pop (generator), get_diagnostics, all under one mutex | FIFO; counters account for every block; a diagnostic frame is one moment's truth; callers never wait long |
| **Axis hardware** `BSP/MCU/motion_axis_hardware.c` | status, direction, steps left, pending stop, braking, the armed release stop and hook, timer and GPIO registers | start_event, start_profile, request_stop, clear_fault, ready_after_home, arming; switch and timer interrupts | bounded overshoot past a switch; no move onto an active switch; the scale is zeroed on the start switch only; a stop request stops |
| **StepExecutor** `APP/motion/step_executor.c` | state, current_is_last | begin, pulse_complete, reset | a stream ends COMPLETE only after its last event, else UNDERRUN |
| **StepGeneratorTask** `APP/tasks/step_generator_task.c` | active block, pending event, thread flags, halted | fill, start_axis, halt, resume | produces every step of every block; clears the ring only when both ends are idle; a halt is always followed by a resume |
| **MotionTask** `APP/tasks/motion_task.c` | planned position per axis, homed mask, home phase and calibration state per axis | moves, jogs, HOME, CALIBRATE, STOP | the planned position is where the axes will be; homing ends; STOP drops all and resumes |
| **CommandQueue** `APP/tasks/command/command_queue.c` | an RTOS queue of 100 | send, receive, discard_all, free slots, space listener | order; no command lost after its ACK |
| **CommandTask** `APP/tasks/network/command/command_task.c` | TCP connection, assembler, held ACK, response buffer | accept, receive, decode, answer; immediate STOP | one answer per command, in order; ACK held while the queue is full; STOP bypasses the queue |
| **Command protocol** `APP/protocol/command/` | frame assembler | feed bytes, decode | resynchronisation on bad frames, no frame twice |
| **Motion planner, segment generator** `APP/motion/motion_planner.c`, `motion_segment_generator.c` | limits; error terms per axis | plan a block; next event | admitted moves keep travel, speed and step rate; events sum to the block's steps and time; nothing drifts over many moves |
| **Calibration procedure** `APP/motion/axis_calibration_run.c` | phase, start of the measured move | begin, poll, abort | a measured travel is the distance of the switches, a measured distance free of slack |
| **Calibration data and store** `APP/motion/axis_calibration.c`, `calibration_store.c`, `BSP/MCU/flash_storage.c` | record in flash | derive limits, encode, load, save | a torn record is not loaded |
| **Axis bench** `APP/motion/axis_bench.c` | none | start a fixed-profile move under the kernel lock | refuses an axis that moves |
| **Step stream** `APP/motion/step_stream_generator.c`, `BSP/MCU/step_stream_*.c` | interval grid and carry; completed halves, DMA flags and counter | init, fill; start, stop, steps_done, DMA interrupt; started by no task yet | every step at its tick; played steps are counted |
| **Diagnostic, telemetry** `APP/tasks/network/diagnostic`, `telemetry` | counters, UDP peers | copy counters into frames | consistent frames |
| **Ethernet port, PHY** `BSP/ETH`, `LWIP/` | PHY interrupt line, thread flag, configured speed, interface state | PHY interrupt, link thread, configuration of the MAC | the thread never sleeps over an event; interface and MAC follow the link |
| **Scales** `BSP/ENC/encoder.c` | a hardware counter | read, zero | |
| **Startup** `APP/tasks/startup_task.c`, `Core/` | | straight-line set-up | |

The parts interact through calls (MotionTask and StepGeneratorTask into the axis
hardware), the two rings, thread flags (BLOCK_READY from MotionTask,
BUFFER_SPACE from the interrupt, STOP_RESET from MotionTask's resume), the
command queue, callbacks (the start-limit hook from the switch interrupt, the
space listeners) and shared words that one side writes and another reads (axis
status, `stop_requested`, `step_generator_task_halted`).

What is hard here, each with its line under `hazards` in PROJECT.json:

- interrupts between any two memory accesses of a task, on rings without locks;
- a status checked before a lock or an interrupt mask and used after it;
- STOP, which CommandTask carries out at once and MotionTask again later, against
  whatever MotionTask, the generator and the interrupts are in the middle of;
- one-shot reactions (release stop, hook) armed for one move and still armed in
  the next;
- moves that start on, turn around on, or run into a switch at speed;
- a planned position kept ahead of the axis, to be taken back when moves are
  refused, dropped or cut short;
- wake-ups by a single flag at an exact watermark, halts that someone must undo;
- saturating counters, wrapping positions, the two ends of the travel;
- rounding that adds up over steps, moves, streams and calibrations;
- a connection that is cut, broken or full at any byte, with an ACK held back;
- a wake-up by an edge, for a state that lasts; a link that changes while it is
  looked at; a DMA that moves on between two reads.

## Modules

### BoundedFifo

The abstract specification of both rings: values leave in order, once, unaltered,
at most Capacity of them, and a clear drops all at once.

### ExecutionBuffer

`execution_buffer.c` with the use `step_generator_task.c` makes of it, at the
granularity of the accesses that matter. A push is three steps (PushCheck reads
the consumer's position, PushStore writes the entry, PushPublish is the release
store of the position); the interrupt preempts the task but is not preempted by
it, so a pop is one step. `execution_buffer_clear` is two stores, and no lock
protects it. `pc` is where the producer is in its loop: filling, inside a push,
between fill and wait (`full`), waiting, clearing. The 32-bit positions are
`% Modulus`. `axisRunning` says whether the consumer's interrupt fires at all; it
stops at any time, with events left or without. `halted` is set by a STOP at any
time (Halt), and the producer looks at it where the code does: when it wakes
(AfterWake) and before it starts the axis. A halted producer clears the flags that
wake it and waits again, so it may sleep below the watermark with an event in hand
and no wake-up to come. NoLostWakeup excepts that and says how it ends: STOP_RESET
alone ends the halt, and the producer has forgotten the event by then.

| ExecutionBuffer | the code |
|---|---|
| `GenerateEvent`, `PlanExhausted` | `step_generator_task_fill`: the next event of the active block, or none |
| `PushCheck`, `PushStore`, `PushPublish` | `execution_buffer_try_push`, access by access |
| `StartAxisAndWait`, `WakeOnSpace`, `WakeOnBlock` | `step_generator_task_start_axis`, the wait for thread flags and what ends it |
| `Halt` | `motion_task_request_stop`'s `step_generator_task_halt`, in another task |
| `ClearRead`, `ClearWrite` | STOP_RESET, `execution_buffer_clear` and the end of the halt |
| `TryPop`, `CrossesWatermark` | `execution_buffer_try_pop` and its listener |
| `AxisStops` | every way a move ends, with events left or without |

### PlanBuffer

`plan_buffer.c` under its priority-inheritance mutex. An operation is the steps it
takes while it holds the mutex (`progress`), so that tasks preempt each other in
the middle of it and what the mutex protects is visible: without `MutexFree` a
diagnostic frame is torn. `Outranks` is the priority of the generator, `Add` the
saturating sum of the tallies. `rejected_operations` (no caller passes NULL) and
`full_rejections` (a tally nothing depends on) are left out.

### AxisHardware and AxisUse

AxisHardware is one axis of `motion_axis_hardware.c`: the status machine, the
switches, stop requests and one-shot arming. A step is one pulse with the
interrupts it leads to. AxisUse closes it with every use its interface allows:
moves of any kind, arming at any time, stops from two tasks, recovery of faults,
and a stream that yields any direction next.

| AxisHardware | the code |
|---|---|
| `status`, `direction`, `stepsLeft`, `pendingStop`, `stopReason` | the fields of the axis' state; 0 steps outside a jog, None when no stop is requested |
| `braking`, `releaseArmed`, `hookArmed` | `limit_deceleration_reason`, `start_limit_release_stop_armed`, `start_limit_hook` |
| `StartArmed` | `start_event` and `start_profile`, with what was armed before them |
| `RequestStopCheck`, `RequestStopStore` | `request_stop`, before and under the interrupt mask |
| `StopAxis`, `StopWithReason`, `Latch` | `motion_axis_stop` and its callers, `latch_limit` |
| `StartupInterrupt` | the timer interrupt during the start-up delays |
| `StoppedBySwitch`, `StoppedByRequest`, `JogEnds`, `JogContinues`, `JogMissesDeadline`, `StreamContinues`, `StreamEnds` | a pulse, by outcome of its two interrupts |

Braking distances come from `BrakingSteps`: a fast profiled move may need any up
to MaxBrake steps, every other move none.

### AxisInterrupts

The two interrupts of the same file apart, access by access: the switch interrupt
outranks the timer interrupt and runs between any two of its steps, except in
masked blocks, which are one step. The switches bounce near their edges.

| AxisInterrupts | the code |
|---|---|
| `timerPc`, `seen`, `next` | where the timer interrupt is, its local copies |
| `jogMode`, `remaining`, `total`, `completed` | `jog_mode`, `jog_steps_remaining`, `jog_total_steps`, `last_jog_steps_completed` |
| `latched`, `trigger` | `limit_latched`, `limit_trigger_position` |
| `limitRequested`, `limitReason` | `limit_deceleration_requested`, `limit_deceleration_reason` |
| `releaseArmed`, `hookArmed`, `zero` | the armed one-shot reactions, and where the hook zeroed the scale |
| `startOn`, `endOn`, `place`, `lead`, `Pulse`, `Bounce` | the switches, the carriage and the slack between motor and carriage (environment) |

`motion_axis_stop` is one step here although its unmasked callers can be
interrupted in it: all it could show is that a release edge between the reset of
`stop_requested` and that of the arming leaves a request behind, which acts like
one that `request_stop` stores too late. The decrement that a served stop request
makes is part of the stop. The stream belongs to this axis alone. `asked` and
`pulses` are history: what StepsAccounted compares the counters with.

Two properties say more than they did before their proofs. LatchedAtTheEdge held
on every small instance tried as "the latch is on the edge", and is false for a
longer braking distance or some slack: a stream that turns round beyond a switch
latches where it turns. StepsAccounted now says of a completed jog that the pulses,
too, are those asked for, which is what calibration relies on.

### MotionPipeline

The composition: CommandTask's STOP, the command queue, MotionTask with its
homing, PlanBuffer, StepGeneratorTask, ExecutionBuffer and the X axis
(EXTENDS AxisHardware). The two buffers are plain queues, which is what
PlanBuffer and ExecutionBuffer are shown to implement. CommandTask and MotionTask
interleave freely, the generator outranks both (`TasksRun`), interrupts run
between any two steps.

| MotionPipeline | the code |
|---|---|
| `AcceptCommand` | `handle_assembly_event` of a command that fits the queue |
| `StopArrives`, `StopRequestsAxis`, `StopStoresRequest`, `StopDiscards`, `StopIsQueued` | CommandTask's STOP, call by call |
| `Receive`, `ReceiveTimesOut` | MotionTask's wait for a command |
| `DropCommand`, `ExecuteMove`, `ExecuteJog` | `motion_task_execute`, `queue_move` |
| `HomeBegin`, `StartBackoff`, `BackoffSettles`, `StartApproach`, `HomeComplete`, `HomeFails` | `home_begin`, and `home_poll` by branch |
| `ClearPlan`, `StopRequest`, `StopStore`, `StopAxisTask`, `FinishStop` | MotionTask's STOP, call by call |
| `GeneratorWakes`, `GenerateEvent`, `TakeBlock`, `FillEnds`, `StartAxis` | StepGeneratorTask's loop |
| `TakesNoEvent`, `StreamRunsOut`, `NextEvent` | the axis' interrupts, with StepExecutor's `pulse_complete` |

`desynced` is a history variable: it records the two known ways in which the
planned position parts from the axis (the second and third under
[Findings](#findings)), so that PositionTrusted can be checked for everything
else. HomeStepsAssumption, that a homing move has more steps than the travel, is
what `motion_task.c` says of MOTION_TASK_HOME_MOVE_STEPS ("the start switch, not a
step count, ends every homing move"); a homing move that ran out of steps would
leave an axis COMPLETE, from which a stream may start.

### CommandTask

One TCP client at a time, from accept to close, against LwIP, MotionTask and
time. `pc` is where CommandTask is: in `netconn_accept`, waiting for its four
thread flags, reading what LwIP holds, or in the handling of a command, whose
steps other tasks can come between (request_stop, the put, the look at the free
slots).

| CommandTask | the code |
|---|---|
| `flags` | the thread flags of the task, set by LwIP's callback and the queue's space listener |
| `mailbox`, `room`, `watch`, `peer` | LwIP: pbufs received, bytes of the send buffer, a pending SENDPLUS, the state of the connection |
| `asm` | the frame assembler by what it tells apart: nothing, less than a header, a header, bytes that are no frame |
| `held`, `pending`, `paused` | `ack_pending` with its sequence, `tx_length - tx_sent`, `rx_paused` |
| `Respond`, `Flushed`, `Close` | `send_response` and `flush_responses`, and what a failure of either does |
| `NeedMore`, `FrameError`, `TrailingBytes`, `CommandReady` | `assemble_pbuf` with `handle_assembly_event`, by outcome |
| `RequestStop`, `QueueFull`, `PutCommand`, `AnswerCommand` | the command: STOP's discard, the put, and the answer after the look at the free slots |
| `WakeWithAck`, `Wake`, `FrameTimesOut` | the wait and what follows from its flags or from its end |
| `Take`, `Notify` | `command_queue_receive` in MotionTask: the message first, the listener after |

A frame is a number and a kind, a pbuf a whole frame, a part of one, or a frame
with the next behind it. What bytes out of step look like is unknown, so a frame
read as junk is in `lost`, and no answer counts as its own. `answer`,
`accepted`, `lost` and `overrun` are history.

### Calibration

HOME, CALIBRATE and STOP on AxisInterrupts instead of AxisHardware: the chain of
homing moves and that of the calibration procedure, with switches that bounce,
slack in the drive, the interrupts nested as they are in the code, and
CommandTask's stop requests at any time. MotionTask's loop is one poll per step;
it waits in the settle delay, between completing a homing and the second read of
the switch in `ready_after_home`, and in the steps of STOP (`pc`). MotionPipeline
has homing too, with what stands in front of the axis; this module has what lies
behind it.

| Calibration | the code |
|---|---|
| `homePhase`, `homed` | `home_phase` of the axis, its bit in `homed_axes_mask` |
| `phase`, `travel`, `measureStart` | `AxisCalibrationRun_t` |
| `homing` | `waiting_for_home`, `returning_home` |
| `HomeBegin`, `StartBackoff`, `BackoffSettles`, `StartApproach`, `HomeComplete`, `ReadyAfterHome`, `HomeFails` | `motion_task_home_begin` and `home_poll` by outcome |
| `Begin`, `EndReached`, `SlackTakenUp`, `Measured`, `ProcedureFails` | `axis_calibration_run_begin` and `_poll` by outcome |
| `ExecuteStop`, `StopStore`, `StopAxisTask`, `FinishStop` | the task's STOP, with the two halves of `request_stop` |
| `StreamStarts` | a planned move; only the arming left over from homing matters to it |

ProcedureAssumption asks for a travel with room for the take-up and the measured
move: `motion_task.c` chooses them so ("travel about 16.3 mm", "take-up is about
0.08 mm and the measurement about 12.2 mm"). On a shorter travel MeasuredRight
fails: the carriage passes the zero of the scale, which counts without a sign.

### SegmentGenerator, MotionPlanner, StepStreamGenerator and MovePath

The arithmetic of a move. SegmentGenerator is a module with state: a block in,
an event per `next()`, error terms per axis and for the nanoseconds;
`moved` and `elapsed` are the history that its promises are about. MotionPlanner
is operators only: the integer square root digit by digit, the checked sum of
squares under it, the rounding of a position to steps, the two ratio checks, the
block of a move, and when a move is planned. MovePath is MotionTask's use of them:
positions, homed axes and calibrations that change between moves, and a block
played to its end. StepStreamGenerator is a module with state: `init_from_block`
begins a stream of one axis of a block, with no carry (BeginAlone) or with the
carry of the stream before it (BeginAfterAnother, `get_carry`), and `fill` cuts its
duration into intervals on a grid of nanoseconds, these into ticks with the carry,
and the ticks into records. The code's `fill` writes as many records as it is given
room for and keeps all it knows in the generator, so that a record at a time (Fill)
is every way to call it; an interval that is refused leaves the generator as it was
(Refuses). The abstract specification is arithmetic itself: where a step belongs on
the line and in time (StraightLine, OnTime, TickOf), the square root as the number
whose square fits, the motor at the step of its position.

GeneratorImplemented is the link between the planner and the generator: the
planner's blocks are behaviours of SegmentGenerator's specification, whose
invariants are proved for every block. PathAssumption asks of a calibration what
`axis_calibration_to_planner_axis` refuses otherwise: steps and lengths that are not
zero, and a highest speed of at least one (`axis_calibration.c:49`).

### LinkSupervision

The PHY's interrupt line is low from an event until MISR is read, EXTI fires on
the falling edge, the interrupt raises a flag, and the link thread reads MISR,
then BSR and PHYSCSR, then sets the MAC and the interface. Each read is a step,
and the link may change before and after each: the module shows that the order
of the code (clear MISR first, then look) loses no change. `failed` records
which of the failures named in `Failures` happened since the last event was
taken up, so that the promises hold exactly where no call failed.

### StepStream

The DMA moves a word at a time; `steps_done` reads the flags and then the counter,
the interrupt reads the flags and then clears those it read, `stop` disables the
DMA and reads both. `step_stream_format_steps_done` is translated as it stands,
and compared with the words that were really moved. The halves of the buffer are
known by their parity only, which is what makes the lagging counts hard.
LengthAssumption keeps a stream shorter than 2^32 halves of its buffer, where the
count of halves wraps: 1365 steps each, more than a year at 150 kHz.

## Runs

Every run is an MC module, which extends its specification, with a cfg that gives
the constants their values.

| Run | Properties | Instance | What it shows |
|---|---|---|---|
| execution_buffer | NoLostWakeup, ImplementsFifo, BlockedProducerWakes | 4 slots, positions mod 8, 2 events, watermark 2 | the ring is a FIFO under every interleaving; a blocked producer is woken, and a wake-up is lost only to a STOP |
| plan_buffer | CountersConserved, SnapshotConsistent, ImplementsFifo, GeneratorIsServed | 2 slots, counters that saturate after the ring has wrapped | FIFO, accounting, consistent frames, no starvation of the generator |
| axis_use | OvershootBounded, NeverStepsOntoSwitch, ZeroedOnStartSwitch, RequestedStopStops | end switch at 3, braking up to 2, moves up to 6 | one axis is safe whatever its users do |
| axis_interrupts | BrakesFromTheEdge, LatchedAtTheEdge, StepsAccounted, StoppedStaysStopped | end switch at 2, braking up to 1, bounce over 1 step, moves up to 3 | nested interrupts and bouncing switches leave braking, latch, step counts and stops right |
| calibration | HomedAtTheEdge, ArmedWhileHoming, MeasuredRight, OkMeansHome | the shortest travel on which a calibration can succeed, slack 1, bounce 1 | homing and calibration measure what the machine did and leave nothing armed |
| pipeline_safety | TypeOK, PositionTrusted, ResetsAtRest | end switch at 3, braking up to 1, absolute and relative moves, buffers of 1, 1 and 2 | only a homed axis runs moves; position, homing and STOP agree through the whole chain |
| pipeline_liveness | HaltedGeneratorResumes, HomingEnds | the shortest axis, buffers of 1 | STOP and homing always finish |
| command_link | NeverOutOfRoom, AnswerTellsFate, AcksInOrder, EveryFrameAnswered | three frames cut anywhere, a queue of 1, a send buffer of one byte | every frame that arrives is answered, truly, in order and in room |
| move_path | BlockPlayedExactly, NoDrift, SpeedAsPlanned, GeneratorImplemented | two axes, positions 0..3, two calibrations, three feedrates | no rounding adds up, no limit is passed |
| link_supervision | NeverDeaf, FollowsWhenSettled, FollowsInTheEnd | two modes, every failure | no event is slept over; the interface follows the link |
| step_stream | StreamKeepsTime, FitsOrIsRefused, HalvesConserved, AnswersInBetween, StopCountsAll | seven blocks of two axes, chains of up to 300 ns and a stream; 4 records of 3 words, 3 laps and a half, a counter of 11 | every step at its tick, every record fits, nothing is refused that has room; the steps that were played are counted |
| stop_then_start | NothingStartsAfterStop (violated) | the shortest axis, buffers of 1 | the [finding](#findings) |

The type invariants of all modules with steps are proved; that of StepStream is a
conjunct of HalvesConserved.

**Bounds.** The numbers are small, and every action still happens: between them the
passing runs leave no disjunct of a next-state relation unfired. ExecutionBuffer: positions wrap every other lap and the ring is
full, at and below its watermark; two events tell reordering from loss. PlanBuffer:
the tallies saturate after the ring has wrapped. AxisUse: an axis longer than the
braking distance, with moves longer than both, so that a move can brake at either
switch and can end while it brakes; Margin leaves room to overshoot past what is
promised. AxisInterrupts: a switch bounces over the whole braking distance,
and moves cross the whole axis. MotionPipeline: buffers of one, one and two
entries are full and empty all the time, which is what STOP, refused moves and
the watermark depend on; HomeSteps outlasts the travel; positions
are bounded by MaxPosition, and moves by the axis.

Calibration: EndSwitch = 3, one step of slack, taken up by one step, and a
measured move of two: the shortest travel that ProcedureAssumption admits for
them; MaxSteps = 8 outlasts the travel and its
overshoots, so a seek that meets no switch does not exist, as with the code's
step limit. CommandTask: MaxFrames = 3 lets an ACK be held while a newer command
is put and a further frame waits unread; with TxSize = 2 ErrorSize any
undrained byte pauses reading, and one byte of send buffer makes every response
drain in parts; the frames may be commands, STOP, refused ones and ones with a
broken header (PING and a broken CRC take the same paths as a refused frame and
a broken header that is seen later). What depends on the sizes is proved.
MovePath: a second of 200 ns makes nanoseconds and steps of comparable size, so
that every remainder occurs. SqrtBits = 3 covers every
square here; SqrtIsRoot and LimitsAreKept are proved for every SqrtBits.
StepStreamGenerator: the same second and a timer of 43 ticks in it; with pulses of 5
ticks, 10 low, records of 9 to 16 ticks, intervals are refused as too short or as
too long for one record and too short for two, cut into several
records or played in one, and idle axes are too short or long; the blocks have
steps that divide their duration and steps that do not, and MaxChain = 300 lets
carries go through a chain of streams to wherever it leads. StepStream: a buffer
of four records of three words; MaxWords = 42 is three laps and a half, and
Word = 11 saturates the steps at the end of the third lap. One run checks both:
they share nothing in the code yet (`step_stream_axis_start` fills its buffer
itself), so each takes its steps with the other as it is initially.
LinkSupervision has no bound: the link may change for ever.

Deadlock is checked in every run but command_link, where the bound on frames
lets everything come to rest: all clients have gone and nothing is left to do.

**Fairness** is stated where a liveness property needs it, and is no stronger than
the scheduling of the code. In ExecutionBuffer: the ready producer, which is the
task of highest priority, runs, and the timer interrupts a running axis; an axis
whose generator is halted stops, since `motion_task_request_stop` goes on to
request it and an axis' next interrupt finds the request (RequestedStopStops);
nobody has to plan a block, to stop or to reset. In PlanBuffer: a critical section is finished
and the ready generator takes a free mutex (priority inheritance). In AxisUse:
the timer of an active axis keeps interrupting and a task inside `request_stop`
gets to its store; no task has to call anything. In MotionPipeline: weak fairness
of the interrupts, the generator and a STOP that has begun, and strong fairness
of MotionTask, which gets its turn whenever CommandTask blocks for the
next command: a client that keeps sending can delay it but not for ever. In
CommandTask: the task, MotionTask's receive and its listener, and a client that
takes responses off the connection while it is open; nobody has to write, and a
frame's timeout need not come. In LinkSupervision: the EXTI interrupt, the link
thread, and strong fairness of reading MISR, since the mutex that a thread keeps
asking for is held for short sections only; the PHY owes nothing, and what is
promised is promised once the link is at rest. AxisInterrupts, Calibration,
MovePath, StepStreamGenerator and StepStream are checked for safety only.

## Proofs

Proved by TLAPS for every value of the constants that the ASSUMEs of the modules
admit (a capacity that divides the modulus, a watermark below the capacity, two
switches apart, an ACK no longer than an ERROR and room for two ERRORs, a homing
move longer than the travel, a take-up longer than the slack, a travel with room
for what is measured, 2^32 steps more than any move):

| Module | Theorems | Inductive invariant |
|---|---|---|
| ExecutionBufferProofs | TypeCorrect, RingNeverOverruns, WakeupsAreNotLost, RingIsFifo | RingInvariant |
| PlanBufferProofs | TypeCorrect, CountersAgree, FramesAreConsistent, PlanBufferIsFifo | PlanInvariant |
| AxisUseProofs | TypeCorrect, OvershootIsBounded, SwitchesAreRespected, ScaleZeroesOnStartSwitch | IInv |
| CalibrationProofs, the axis | AxisTypeCorrect, RunsOnForTheBrakingDistance, JogsAreAccounted, LatchesWhereItFired, StoppedIsOver | AxisInv |
| CalibrationProofs, homing | ProcedureTypeCorrect, ReactionsEndWithTheirMove, HomedCountsFromTheEdge, OkIsReportedAtHome | HomeInv |
| CalibrationProofs, calibration | CalibrationMeasuresRight | CourseInv |
| MotionPipelineProofs | TypeCorrect, StopResetsAtRest, PositionIsTrusted | PipelineInvariant |
| CommandTaskProofs | TypeInvariant, ResponsesHaveRoom, AcksLeaveInOrder, AnswersTellTheFate | TypeOK, StageOK, RoomOK, MailOK, OrderOK, FramesInOrder, FateOK |
| MovePathProofs, the segment generator | TypeInvariant, KeepsTheLine, MakesEveryStep, KeepsTime, EventsStayValid, PlaysBlocksExactly | IInv |
| MovePathProofs, the planner and the path | SqrtIsRoot, MotorsNeverDrift, LimitsAreKept, PathImplementsGenerator | PathIInv |
| MovePathProofs, the generator of step streams | StreamsKeepTime, RoomIsJudgedRight (RecordsAlwaysFit, RefusalsAreJust) | FillIInv |
| MovePathProofs, the step stream | HalvesAreConserved, AnswersAreInBetween, StopsCountAll | StreamIInv |
| LinkSupervisionProofs | TypeCorrect, ThreadIsNeverDeaf, SettledFollows | IInv |

*ExecutionBuffer.* RingInvariant adds to NeverOverrun and NoLostWakeup what each
place of the producer's code knows: a push past its check still has room and an
event in hand, the stored entry is that event, and a clear finds the axis at rest.
The wake-up is ahead or pending from the moment the push finds the ring full, unless
the producer is halted. Fewer than a capacity apart, two positions never share a slot
(SlotsDistinct), which is where the capacity has to divide 2^32. For RingIsFifo each step is a
step of the FIFO or leaves the queued events as they are: the store of an entry
is invisible (StoreIsInvisible), its publication appends (PublishAppends), a pop
removes the oldest (PopIsTail), both halves of a clear leave nothing (ClearEmpties).

*PlanBuffer.* CountersConserved and SnapshotConsistent speak of the moments
between operations; Accounted and FrameAgrees say by what a half-done
operation is off. The tallies agree as long as none has saturated (AddSaturates).
InsertAppends and RemoveIsTail give the refinement.

*AxisUse.* OvershootBounded is not inductive by itself: MovesFreely says that a
move which does not brake faces no active switch, BrakesInTime that one that
brakes has no more steps left than keep it within the braking distance. A
pulse (PulseStaysInBounds) then stays in bounds by arithmetic. For ZeroedOnStartSwitch the
invariant adds that tasks request plain stops only (RequestsOnly), so that a stop
for the start switch is one the interrupt saw.

*AxisInterrupts* (CalibrationProofs). AxisInv knows, at every place of the two
interrupts, which of them may still be wrong about the move. PhaseOK: where the
timer interrupt is fits the status, unless the switch interrupt stopped the move
meanwhile. JogOK: the counters agree with the pulses given, up to the pulse that
is not counted yet (Uncounted); this is why the decrement without a look at the
counter never passes zero. LatchOK: while a move brakes, the steps it has left and
the way it went from the latch add up to the braking distance. EdgeOK: a move
whose switch did not fire is at most a step beyond where the switch may be off,
and if it is there the interrupt is pending. CountOK keeps what the jog's end
leaves. StopKeeps proves once, for any number of steps left, what the seven ways
to stop share. The action properties follow from the invariant case by case.

*Homing* (CalibrationProofs). A step of the axis is seen from the tasks in one of
three ways (AxisEffects): it leaves the move alone (Quiet), the move goes on (Goes)
or it ends (Ends), each with what becomes of the reactions, the latch and the zero.
HomeInv relates these to `home_phase`: an approach is a slow jog toward the start
with its hook armed (HookOK), so that one which ended on the switch zeroed the
scale where the switch fired (ApproachOK); who is homing is not homed (HomingOK).
ArmedWhileHoming is a part of it, since a hook that is still armed could zero the
scale of a homed axis.

*Calibration* (CalibrationProofs). CourseInv follows slack and carriage along the
three moves. To the end switch: the latch is on its edge and the carriage still
beyond it (SeekOK). Take-up: place, lead and pulses have a constant sum, and slack
that is left is slack less the pulses (TakeUpOK), so a take-up that completed has
none. Measured move: the place and the pulses have a constant sum (MeasureOK); it
ends with every pulse given, on the positive side of the zero, and the difference
of the two readings is the number of steps.

*MotionPipeline.* PipelineInvariant has a part for each actor: AxisOK (the axis
alone), HomingOK (what each homing move is sure of while it runs; no homing move
completes), CommandOK, MotionOK, PlanOK (an empty plan from STOP's clear to its
end), StreamOK and ResetOK (a reset is only asked for while nothing moves, the
generator sleeps and nothing is planned), which gives ResetsAtRest. PositionOK says
that the steps in the ring, those of the active block and the planned blocks lead
from where the axis is about to be to the position MotionTask plans from (Leads).
Sums over queues would be recursive; Walk says instead that a function of partial
sums exists, and the lemmas about appending to and taking from a queue construct
that function, with no induction. HomingIsAlone is why a homing begins with
nothing under way, unless it is the one finding of which `desynced` keeps track.
RunsHomed makes PositionTrusted's first part inductive: an axis that is not homed
and not homing is READY or COMPLETE with something left to play only at the end
of a STOP, one that acknowledged its fault or ended its homing. MotionTask is
then still to ask for the reset, or STOP_RESET is pending: either way the
generator drops what is left before it starts anything, and meanwhile no move
is planned, since `motion_task_execute` takes one from a homed axis only.

*CommandTask.* NeverOutOfRoom rests on RoomOK: at each place of the task's loop
what may still be written before the next check of the reserve fits: a held ACK
always, an ERROR for a header that is in the assembler always, both together
too, and two errors from the check to the put. A partial frame whose header is
there was read when the reserve was checked, which is why timeout and held ACK
can both come before reading resumes. AcksInOrder rests on an order of the
frames' numbers through the stages they pass: acknowledged, held, handled, read,
in the mailbox, written (OrderOK, MailOK); a STOP's discard changes the queue but
no stage. Types of the stages are apart (StageOK). AnswerTellsFate needs that no
answer comes twice and none too early: beginnings of frames lie in the mailbox in
the order of their numbers, all behind the answered and accepted ones, and the one
in the assembler is newer than those (FramesInOrder); a command in the task's hands
is not answered, one past the put is accepted, a held one too (FateOK). The assumptions are that an
ACK is no longer than an ERROR and that two ERRORs fit into the buffer.

*SegmentGenerator.* The invariant says what the error terms are: events times
the steps of an axis is moved times the steps of the block plus its error
(Spread), and the same for the nanoseconds (Timed). Each promise is then a
division. BlockPlayedExactly is all of them. The blocks are all that `motion_segment_validate_block` accepts, with
no bound on steps, rate or number of axes; 64-bit overflow is not part of the
model.

*The planner's arithmetic.* The square root, the powers of four, the sum of
squares and the largest number of steps are functions defined by recursion, and what
such a function computes takes induction. The library's induction theorems have an
operator as a parameter, which the provers cannot instantiate; a smallest
counterexample needs none: the numbers at which a claim fails are a set, which has a
least element if it has any (Smallest), and the step from the one before refutes it.
Unrolls and SumsExist show so that the functions exist, SqrtIsRoot that a round of the
loop keeps the root of what it has taken off (Rooted, DigitKeepsRoot): in the round of
bit 4^n, result is the root so far times 2^n and value what is left of the number,
less than the square of one more. Squared is why each bit is a square.

*MovePath.* PathIInv adds to the generator's IInv where each motor will be at the end
of the block (MotorOK: its place and the steps to go are the rounded position; this is
why nothing is rounded twice), the limits along the path (LimitsOK: at the block's
feedrate and length no axis passes its speed), that the length is the whole part of
the exact one (LengthOK, by SqrtIsRoot), and that no event comes too soon (RateOK).
SpeedAsPlanned is about time: at the end of a block the elapsed nanoseconds are within
one of master times interval over rate, and TimeIsEnough divides. PathImplementsGenerator
shows that a planned block is one that `init` accepts: it has a step (Moves), the
largest number of them as master, and an interval no shorter than the rate allows.

*StepStreamGenerator.* FillIInv says of the generator between any two records that the
grid's remainder is that of the nanoseconds so far (GridOK), that the ticks given,
those of the current interval yet to be given and the carry are the exact time of the
interval's end, from the beginning of the chain (ClockOK), that the records to come
have a length the DMA and the timer take (SplitOK), and that a step gives its pulse
with the first record of its interval (PulsesOK). The correction of the grid at both
ends of its period is GridStep: an interval is what its ends, each rounded up, are
apart. TicksAre makes ticks of the clock: a time is a number of ticks and a carry in
one way only, so the ticks given before a pulse are TickOf of its step, whatever
was lost and carried before. Cuts is about records: as many of the longest length as
cover an interval have nearly equal lengths, none longer than the timer counts and,
where there are several, none less than half of it, which is why a refusal means
that there is no room (RefusalIsJust).

*StepStream.* While a stream goes on, the halves counted and the flags that are set
add up to the halves passed (CountOK), the interrupt clears only flags it has seen
(FlagsOK), and a reader's sum is the half in which it read the flags, less than a half
ago (ReaderOK). The two action properties are then a case on the parity of that half
and on whether the counter was reloaded since. LengthAssumption keeps the counts below
their width.

*LinkSupervision.* Awake says that while the line is low an edge, the flag or
the thread's place will lead to a read of MISR, UpToDate that what the thread
has seen at each step still is so as long as MISR shows no new event; an event
makes both true by making `misr` true.

Model-checked only: the liveness properties (BlockedProducerWakes,
GeneratorIsServed, RequestedStopStops, HaltedGeneratorResumes, HomingEnds,
EveryFrameAnswered, FollowsInTheEnd), since fairness is about what is ENABLED, which
is out of the prover's reach. Every invariant and every action property of a passing
run is proved.

## Findings

**stop_then_start**, the run that TLC ends with a violation: MotionTask takes HOME
from the queue; STOP arrives and CommandTask handles it (generator halted, axis
asked to stop, queue emptied); MotionTask goes on with the HOME in its hands and
starts the axis. The queued STOP ends it later. `motion_stop.h` promises that
nothing new is started.

Disagreements met while modelling. The models behave as the code does in each;
most are also under `hazards` in PROJECT.json, with their line:

1. STOP leaves a homed axis STOPPED. Moves are accepted again, planned and
   buffered, but `start_axis` starts READY and COMPLETE axes only, so none runs
   until HOME (`step_generator_task.c:110`).
2. A refused move clears the plan, but the planned position is still the end of
   the cleared moves (`motion_task.c:228`).
3. A switch cuts a stream short; HOME clears PlanBuffer, but the active block and
   the buffered events survive, and run after homing (`motion_task.c:394`).
4. `request_stop` sees an active axis, the move ends, and only then is the
   request stored: it stops the next move (`motion_axis_hardware.c:1021`).
5. The timer interrupt has checked that the axis runs; the switch interrupt stops
   it and resets the stream; the unmasked stop at `motion_axis_hardware.c:1250`
   turns STOPPED into FAULT_EVENT. Nearby, the timer interrupt may stop an axis
   for the reason NONE over a limit reason that the switch interrupt has just
   stored (`:1319`).
6. CALIBRATE of a moving axis that was homed goes on without homing
   (`motion_task.c:386`), where a comment expects the axis to be unhomed
   (`:473`). MeasuredRight holds all the same.
7. A held ACK is sent on a QUEUE_SPACE flag that an earlier receive had raised,
   with the queue full (`command_task.c:628`); order and fate of commands hold.
8. The steps of a running DMA stream may be answered up to half a buffer too low
   if the middle of the buffer is passed between two reads, and so run backwards
   from one answer to the next (`step_stream_format.c:43`); a stop may count a
   lap too many if disabling the DMA sets its transfer-complete flag
   (`step_stream_axis.c:263`).
9. The link thread does not repeat the first read of MISR when the mutex is taken
   (`ethernetif.c:559`), nor a link check that failed after MISR was cleared
   (`ethernet_port.c:116`), and a fatal bus error leaves the MAC in a state from
   which nothing starts it again (`ethernet_port.c:154`).
10. `axis_calibration.c:48` rounds the highest speed down "so the limit is never
    exceeded"; rounding of the two ends of a move to steps can still give a block
    one step more than its speed times its time, which the planner's check of
    the block's own rate catches (SpeedAsPlanned).

11. `step_stream_generator.c:105-123` cuts an interval just longer than a record into
    two halves. With a pulse, or a shortest record, of more than half of the longest
    record, both halves are too short and the stream is refused with
    STEP_INTERVAL_TOO_SHORT, although the interval is long enough: the third case
    of RefusedForLackOfRoom. So is, without a low time, an interval just as long as
    its pulse.

## Not modelled

The firmware's own code is about 9000 lines; the rest of the tree is vendored
(HAL and CMSIS, FreeRTOS, LwIP) or generated, and appears only where the
firmware calls it: queues, flags and mutexes of the RTOS, LwIP's connection, the
DMA and the PHY, as external actions. Of the firmware itself:

- Registers, timer ticks, ramp arithmetic, the interval clock: the axis stops,
  brakes or misses a deadline by choice.
- In MotionPipeline: bounce of the switches, CALIBRATE (both in Calibration), Y
  and Z. In neither: both switches on at once, a scale that stands still (faults
  of the hardware that the code answers by stopping), failures of the RTOS
  queue, and the homing of several axes at the same time.
- The settle timeout of STOP (1000 ms): an axis' interrupts come at most about
  164 ms apart and a pending request ends a move at the next one, so the models'
  axis always comes to rest.
- The hysteresis of the switches: a move to an end of the usable travel (0 or the
  full travel, both admitted) ends on the switch in the model, which is not held
  against the code.
- Refusals of sums and products beyond 64 bits, but the planner's sum of squares,
  and configurations the planner refuses: the models' integers have no width there,
  and every refusal leaves its caller with no block. Step counts, positions and tallies that do wrap or saturate are
  modelled with their width.
- The layout of frames, the CRC and the decoder's checks of payloads: CommandTask
  sees their outcome.
- Packet input and output of the Ethernet driver, the PHY's set-up and register
  access, the diagnostic and telemetry frames: they copy data and do not act on
  anything modelled here.
- `calibration_store.c` and `flash_storage.c`: no task calls the save, so a record
  is never written on the machine and a load finds the sector EMPTY; the
  erase-program sequence and the CRC that would tell a torn record are left until
  something uses them.
- The refill of a DMA stream: no task starts one; StepStream has one caller.
- The planned position may be taken from the scale only while X is on the
  positive side of its zero; the scale counts without a sign, as in the model.

## Plan

Done, in this order: the rings, one axis and its users, the pipeline, the
interrupts, CommandTask, homing and calibration, the arithmetic of moves and
streams, link supervision and the DMA stream. What is left, by weight:

1. **Interrupts**: AxisInterrupts shown to implement AxisHardware's pulse, or the
   steps where it does not found; two axes that share one stream, where a nested
   stop of a jog reads the other's events.
2. **Several axes**: homing of two axes at a time, and STOP among them.
3. **Flash record**, once a task saves one: erase and program with a crash between
   any two words, and what a load finds.
4. **Stream refill**, once a task starts a DMA stream: the generator filling the
   half that the DMA has left.
