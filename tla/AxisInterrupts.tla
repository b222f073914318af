--------------------------- MODULE AxisInterrupts ---------------------------
(***************************************************************************)
(* The two interrupts of one axis, access by access                        *)
(* (src/BSP/MCU/motion_axis_hardware.c).  The switch interrupt outranks    *)
(* the timer interrupt and may run between any two of its steps, except    *)
(* while the timer interrupt masks interrupts: a masked block is one step. *)
(* Tasks run when neither interrupt is pending or running.                 *)
(*                                                                         *)
(* AxisHardware takes a pulse and its interrupts as one step; here they    *)
(* are apart, and the switches bounce: from its edge (0 and EndSwitch) and *)
(* for BounceSteps beyond it a switch is on or off and changes at any      *)
(* time, further on it is on.  After a reversal the drive takes up Slack   *)
(* steps before the carriage moves.  Interrupts are served before the next *)
(* pulse; one that is too late for it faults.  An interval that no timer   *)
(* setting can play, which the planner does not produce, is left out.      *)
(***************************************************************************)
EXTENDS Integers

CONSTANTS
  EndSwitch,   \* where the end switch turns on
  MaxBrake,    \* longest braking distance of a fast profiled move
  BounceSteps, \* steps past its edge within which a switch may still be off
  Slack,       \* steps the drive loses in a reversal
  MaxSteps,    \* longest profiled move of the instance
  Word         \* step counters are uint32_t: 2^32

ASSUME EndSwitchAssumption == EndSwitch \in Nat \ {0}
ASSUME StepAssumption == MaxBrake \in Nat /\ BounceSteps \in Nat /\ Slack \in Nat /\ MaxSteps \in Nat \ {0}
ASSUME WordAssumption == Word \in Nat /\ Word > MaxSteps

VARIABLES
  status, stopReason,
  direction,        \* of current_event
  jogMode, remaining, total, completed,   \* jog_steps_remaining, jog_total_steps, last_jog_steps_completed
  fast,             \* the jog's rate exceeds its initial rate
  usesStream,
  executor,         \* StepExecutor_t.state
  request,          \* pending_stop_reason, None when stop_requested = 0
  releaseArmed, hookArmed, \* start_limit_release_stop_armed, start_limit_hook is set
  zero,             \* where the scale was last zeroed
  latched, trigger, \* limit_latched, limit_trigger_position
  limitRequested,   \* limit_deceleration_requested
  limitReason,      \* limit_deceleration_reason
  timerPc,          \* where the timer interrupt is
  seen,             \* its copy of the steps left
  next,             \* the direction of its next_event
  due,              \* the timer flag that is set
  lines,            \* pending switch lines
  startOn, endOn,   \* the levels of the switches
  place,            \* the carriage
  lead,             \* steps the motor is ahead of it toward the end, 0 .. Slack
  storing,          \* a task is between the check and the store of request_stop
  asked, pulses     \* history: steps asked for and pulses given in the last jog

jog == <<jogMode, remaining, total, completed, fast>>
stream == <<usesStream, executor>>
switch == <<latched, trigger, zero>>
armed == <<releaseArmed, hookArmed>>
braking == <<limitRequested, limitReason>>
timer == <<timerPc, seen, next, due>>
timerLocals == <<seen, next>>
world == <<lines, startOn, endOn, place, lead>>
history == <<asked, pulses>>
move == <<status, stopReason, direction>>
vars == <<move, jog, stream, request, armed, switch, braking, timer, world, storing, history>>

None == "NONE"
Active == {"STARTING", "RUNNING", "WAITING"}
Faults == {"FAULT_UNDERRUN", "FAULT_EVENT", "FAULT_TIMING"}
LimitReasons == {"START_LIMIT", "END_LIMIT"}
Reasons == LimitReasons \cup {"REQUEST", "START_LIMIT_RELEASE", None}
Overrun == BounceSteps + MaxBrake + 2
Place == -Overrun .. EndSwitch + Overrun

\* Where a switch may be on, and where it may be off.
MayBeOn(line, p) == IF line = "start" THEN p <= 0 ELSE p >= EndSwitch
MayBeOff(line, p) == IF line = "start" THEN p >= -BounceSteps ELSE p <= EndSwitch + BounceSteps
Levels(line, p) == {on \in BOOLEAN : IF on THEN MayBeOn(line, p) ELSE MayBeOff(line, p)}

IsActive == status \in Active
IsFault == status \in Faults
CanStart == status \in {"READY", "COMPLETE", "STOPPED"}

\* The type invariant: no counter of the interrupts leaves its range, jog_steps_remaining
\* least of all, which is decremented without a look at it.
TypeOK ==
  /\ status \in Active \cup Faults \cup {"READY", "COMPLETE", "STOPPED"}
  /\ stopReason \in Reasons /\ direction \in {-1, 1}
  /\ jogMode \in BOOLEAN /\ fast \in BOOLEAN /\ usesStream \in BOOLEAN
  /\ remaining \in 0 .. Word - 1 /\ total \in 0 .. MaxSteps /\ completed \in 0 .. MaxSteps
  /\ executor \in {"IDLE", "RUNNING", "COMPLETE", "UNDERRUN"}
  /\ request \in Reasons \ LimitReasons
  /\ releaseArmed \in BOOLEAN /\ hookArmed \in BOOLEAN /\ latched \in BOOLEAN
  /\ limitRequested \in LimitReasons \cup {None} /\ limitReason \in LimitReasons \cup {None}
  /\ timerPc \in {"idle", "stop", "pulse stop", "update", "step", "jog", "decrement", "stream", "pop",
                  "ended", "load", "FAULT_EVENT", "FAULT_UNDERRUN"}
  /\ seen \in 0 .. MaxSteps /\ next \in {-1, 1}
  /\ due \in {"none", "update", "compare"}
  /\ lines \subseteq {"start", "end"} /\ startOn \in BOOLEAN /\ endOn \in BOOLEAN
  /\ place \in Place /\ trigger \in Place /\ zero \in Place /\ lead \in 0 .. Slack
  /\ storing \in BOOLEAN /\ asked \in 0 .. MaxSteps /\ pulses \in Nat

Init ==
  /\ status = "READY" /\ stopReason = None /\ direction = 1
  /\ jogMode = FALSE /\ remaining = 0 /\ total = 0 /\ completed = 0 /\ fast = FALSE
  /\ usesStream = FALSE /\ executor = "IDLE"
  /\ request = None /\ releaseArmed = FALSE /\ hookArmed = FALSE
  /\ latched = FALSE /\ trigger = 0 /\ limitRequested = None /\ limitReason = None
  /\ timerPc = "idle" /\ seen = 0 /\ next = 1 /\ due = "none"
  /\ lines = {} /\ place \in 0 .. EndSwitch /\ lead = 0 /\ zero = place
  /\ startOn = (place = 0) /\ endOn = (place = EndSwitch)
  /\ storing = FALSE /\ asked = 0 /\ pulses = 0

\* limit_blocks_direction reads the levels.
LimitBlocks(d) ==
  IF d = -1 /\ startOn THEN "START_LIMIT" ELSE IF d = 1 /\ endOn THEN "END_LIMIT" ELSE None

\* limit_deceleration_steps at some moment of the ramp.
BrakingSteps == IF jogMode /\ fast THEN 0 .. MaxBrake ELSE {0}

-----------------------------------------------------------------------------
(* Stopping. *)

HookRuns(reason) == hookArmed /\ reason = "START_LIMIT"

\* latch_limit: the position of the switch, once per move, then the armed hook.
PositionAgain == place
Position == IF latched THEN trigger ELSE place
Latch(reason) ==
  /\ latched' = TRUE /\ trigger' = Position
  /\ zero' = IF HookRuns(reason) THEN place ELSE zero

\* motion_axis_stop when left steps remain; a fault stays.
StopAxis(final, left) ==
  /\ status' = IF IsFault THEN status ELSE final
  /\ completed' = IF jogMode /\ total >= left THEN total - left ELSE completed
  /\ jogMode' = FALSE /\ remaining' = 0 /\ total' = 0
  /\ request' = None /\ releaseArmed' = FALSE /\ hookArmed' = FALSE
  /\ limitRequested' = None /\ limitReason' = None
  /\ due' = "none"
  /\ UNCHANGED <<direction, fast, usesStream, storing, history>>

ResetStream == executor' = IF usesStream THEN "IDLE" ELSE executor

StopWithReason(reason, left) ==
  /\ IF reason \in LimitReasons THEN Latch(reason) ELSE UNCHANGED switch
  /\ stopReason' = reason
  /\ StopAxis("STOPPED", left)
  /\ ResetStream

-----------------------------------------------------------------------------
(* The switch interrupt, one pending line at a time. *)

\* The level is read when the interrupt runs: a switch that bounced off is not seen.
Reached(line) ==
  IF line = "start" /\ startOn /\ direction = -1 THEN "START_LIMIT"
  ELSE IF line = "end" /\ endOn /\ direction = 1 THEN "END_LIMIT" ELSE None

ReleaseSeen(line) == line = "start" /\ ~startOn /\ releaseArmed /\ direction = 1 /\ request = None

Served(line) == lines' = lines \ {line} /\ UNCHANGED <<startOn, endOn, place, lead>>

LimitIgnored(line) ==
  /\ Served(line)
  /\ ~IsActive \/ (Reached(line) = None /\ ~ReleaseSeen(line))
  /\ UNCHANGED <<move, jog, stream, request, armed, switch, braking, timer, storing, history>>

ReleaseRequestsStop(line) ==
  /\ Served(line)
  /\ IsActive /\ ReleaseSeen(line)
  /\ request' = "START_LIMIT_RELEASE"
  /\ UNCHANGED <<move, jog, stream, armed, switch, braking, timer, storing, history>>

\* A fast move is asked to brake, ...
LimitAsksToBrake(line) ==
  /\ Served(line)
  /\ status = "RUNNING" /\ Reached(line) # None /\ BrakingSteps # {0}
  /\ Latch(Reached(line)) /\ hookArmed' = FALSE
  /\ limitRequested' = Reached(line)
  /\ UNCHANGED <<move, jog, stream, request, releaseArmed, limitReason, timer, storing, history>>

\* ... everything else stops.
LimitStops(line) ==
  /\ Served(line)
  /\ IsActive /\ Reached(line) # None
  /\ status = "RUNNING" => 0 \in BrakingSteps
  /\ StopWithReason(Reached(line), remaining)
  /\ UNCHANGED <<timerPc, timerLocals>>

LimitInterrupt ==
  \E line \in lines :
    LimitIgnored(line) \/ ReleaseRequestsStop(line) \/ LimitAsksToBrake(line) \/ LimitStops(line)

-----------------------------------------------------------------------------
(* The timer interrupt. *)

\* A pending switch line preempts the steps that run unmasked.
Masked(step) == timerPc = step
At(step) == timerPc = step /\ lines = {}
Goto(step) == timerPc' = step
Return == timerPc' = "idle" /\ seen' = 0 /\ next' = 1
Local == UNCHANGED <<move, jog, stream, request, armed, switch, braking, world, storing, history>>

\* timer_irq_dispatch: a requested stop, the start-up or a pulse.
Dispatch ==
  /\ At("idle") /\ due # "none"
  /\ due' = "none"
  /\ \/ /\ request # None /\ IsActive
        /\ Goto(IF status = "RUNNING" /\ due = "compare" THEN "pulse stop" ELSE "stop")
     \/ /\ request = None \/ ~IsActive
        /\ Goto(IF due = "update" /\ status \in {"STARTING", "WAITING"} THEN "update"
                ELSE IF due = "compare" /\ status = "RUNNING" THEN "step" ELSE "idle")
  /\ UNCHANGED timerLocals /\ Local

\* The pulse that has ended is counted.
PulseUncounted(left) == left
PulseCounted(left) == IF jogMode /\ left # 0 THEN left - 1 ELSE left

\* It stops for the reason that is pending by now.
StopAsRequested ==
  /\ \/ At("stop") /\ StopWithReason(request, remaining)
     \/ At("pulse stop") /\ StopWithReason(request, PulseCounted(remaining))
  /\ Return /\ UNCHANGED world

Unchecked == TRUE
StillStarting == status \in {"STARTING", "WAITING"}
StillRunning == status = "RUNNING"

\* A masked block that finds the move stopped meanwhile does nothing.
Abandon ==
  /\ \/ Masked("update") /\ ~StillStarting
     \/ (Masked("ended") \/ Masked("load")) /\ ~StillRunning
  /\ Return /\ UNCHANGED due /\ Local

\* timer_update: the last delay is over, or a switch is on.
Update ==
  /\ Masked("update") /\ StillStarting
  /\ \/ /\ LimitBlocks(direction) # None
        /\ StopWithReason(LimitBlocks(direction), remaining)
     \/ /\ LimitBlocks(direction) = None
        /\ status' = "RUNNING"
        /\ UNCHANGED <<stopReason, direction, jog, stream, request, armed, switch, braking, due, storing, history>>
  /\ Return /\ UNCHANGED world

\* timer_step: a jog counts its steps here, ...
Step ==
  /\ At("step")
  /\ Goto(IF jogMode THEN "jog" ELSE "stream")
  /\ UNCHANGED <<timerLocals, due>> /\ Local

JogStep ==
  /\ At("jog")
  /\ \/ /\ remaining <= 1
        /\ remaining' = 0 /\ Goto("ended") /\ UNCHANGED seen
     \/ /\ remaining > 1
        /\ seen' = remaining /\ Goto("decrement") /\ UNCHANGED remaining
  /\ UNCHANGED <<move, jogMode, total, completed, fast, stream, request, armed, switch, braking, next, due, world,
                 storing, history>>

\* the decrement using the value read before or a new one: a stop in between left 0;
Decremented(left) == (left - 1) % Word

Decrement ==
  /\ At("decrement")
  /\ remaining' \in {Decremented(seen), Decremented(remaining)}
  /\ next' = direction
  /\ Goto("load")
  /\ UNCHANGED <<move, jogMode, total, completed, fast, stream, request, armed, switch, braking, seen, due, world,
                 storing, history>>

\* ... a planned stream takes its next event from step_executor_pulse_complete,
\* which knows only its own state,
StreamStep ==
  /\ At("stream")
  /\ \/ executor = "RUNNING" /\ Goto("pop")
     \/ executor = "COMPLETE" /\ Goto("ended")
     \/ executor \in {"IDLE", "UNDERRUN"} /\ Goto("FAULT_EVENT")
  /\ UNCHANGED <<timerLocals, due>> /\ Local

\* and finds an event, the end of the motion or an empty buffer.
StreamPop ==
  /\ At("pop")
  /\ \/ next' \in {-1, 1} /\ Goto("load") /\ UNCHANGED executor
     \/ executor' = "COMPLETE" /\ Goto("ended") /\ UNCHANGED next
     \/ executor' = "UNDERRUN" /\ Goto("FAULT_UNDERRUN") /\ UNCHANGED next
  /\ UNCHANGED <<move, jog, usesStream, request, armed, switch, braking, seen, due, world, storing, history>>

\* A fault stops the axis without looking at its status again.
StopFaulted ==
  /\ timerPc \in Faults /\ lines = {}
  /\ StopAxis(timerPc, remaining)
  /\ Return /\ UNCHANGED <<stopReason, executor, switch, world>>

\* The move is over; on a switch, or braking for one, that is why it ended.
End ==
  /\ Masked("ended") /\ StillRunning
  /\ LET limit == IF limitReason # None THEN limitReason ELSE LimitBlocks(direction) IN
     \/ limit # None /\ StopWithReason(limit, remaining)
     \/ limit = None /\ StopAxis("COMPLETE", remaining) /\ UNCHANGED <<stopReason, executor, switch>>
  /\ Return /\ UNCHANGED world

LevelOnly(limit) == limit
CountsRequest(limit) == IF limit = None THEN limitRequested ELSE limit

\* The masked block that loads the next interval.
Load ==
  /\ Masked("load") /\ StillRunning
  /\ Return /\ UNCHANGED world

\* A switch that needs no braking distance stops the move;
LoadStops ==
  /\ Load
  /\ LET limit == CountsRequest(LimitBlocks(next)) IN
     /\ limit # None /\ limitReason = None /\ 0 \in BrakingSteps
     /\ StopWithReason(limit, remaining)

\* a fast move is shortened to it;
BrakesFor(limit, steps) ==
  /\ limit # None /\ limitReason = None /\ steps \in BrakingSteps \ {0}
  /\ limitReason' = limit
  /\ Latch(limit) /\ hookArmed' = FALSE
  /\ remaining' = IF steps < remaining THEN steps ELSE remaining
  /\ total' = IF steps < remaining THEN total - (remaining - steps) ELSE total

LoadContinues ==
  /\ Load
  /\ LET limit == CountsRequest(LimitBlocks(next)) IN
     \/ /\ limit = None \/ limitReason # None
        /\ UNCHANGED <<switch, hookArmed, remaining, total, limitReason>>
     \/ \E steps \in 1 .. MaxBrake : BrakesFor(limit, steps)
  /\ direction' = next
  /\ \/ status' = "RUNNING" /\ UNCHANGED due
     \/ status' = "WAITING" /\ UNCHANGED due
  /\ UNCHANGED <<stopReason, jogMode, completed, fast, stream, request, releaseArmed, limitRequested,
                 storing, history>>

\* the interval is loaded too late.
LoadMissesDeadline ==
  /\ Load
  /\ LET limit == CountsRequest(LimitBlocks(next)) IN
     \/ (limit = None \/ limitReason # None) /\ UNCHANGED switch
     \/ limit # None /\ limitReason = None /\ BrakingSteps # {0} /\ Latch(limit)
  /\ StopAxis("FAULT_TIMING", remaining)
  /\ UNCHANGED <<stopReason, executor>>

TimerInterrupt ==
  \/ Dispatch \/ StopAsRequested \/ Abandon \/ Update \/ Step \/ JogStep \/ Decrement
  \/ StreamStep \/ StreamPop \/ StopFaulted \/ End \/ LoadStops \/ LoadContinues \/ LoadMissesDeadline

-----------------------------------------------------------------------------
(* The tasks. *)

TasksRun == At("idle") /\ due = "none"

\* An edge that falls before the new status is stored is served without effect.
LevelsMayChange ==
  /\ startOn' \in Levels("start", place)
  /\ endOn' \in Levels("end", place)
  /\ UNCHANGED <<lines, place, lead>>

\* start_jog_profile (steps > 0) and start, after the reactions armed for the move.
Start(d, steps, profiled, release, hook) ==
  /\ TasksRun /\ CanStart
  /\ usesStream' = (steps = 0)
  /\ direction' = d
  /\ asked' = steps /\ pulses' = 0
  /\ completed' = IF steps = 0 THEN completed ELSE 0
  /\ \/ /\ LimitBlocks(d) # None
        /\ status' = "STOPPED" /\ stopReason' = LimitBlocks(d)
        /\ latched' = TRUE /\ trigger' = place
        /\ zero' = IF hook /\ d = -1 THEN place ELSE zero
        /\ hookArmed' = FALSE
        /\ executor' = IF steps = 0 THEN "IDLE" ELSE executor
        /\ jogMode' = FALSE /\ remaining' = 0 /\ total' = 0
        /\ UNCHANGED <<fast, braking, world>>
     \/ /\ LimitBlocks(d) = None
        /\ status' = "STARTING" /\ stopReason' = None
        /\ latched' = FALSE /\ limitRequested' = None /\ limitReason' = None
        /\ executor' = IF steps = 0 THEN "RUNNING" ELSE executor
        /\ jogMode' = (steps > 0) /\ remaining' = steps /\ total' = steps /\ fast' = profiled
        /\ hookArmed' = hook
        /\ UNCHANGED <<trigger, zero>>
        /\ LevelsMayChange
  /\ releaseArmed' = release
  /\ UNCHANGED <<request, timer, storing>>

\* request_stop checks the status, and stores later.
RequestStop ==
  /\ TasksRun
  /\ \/ ~storing /\ IsActive /\ storing' = TRUE /\ UNCHANGED request
     \/ /\ storing /\ storing' = FALSE
        /\ request' = IF request = None THEN "REQUEST" ELSE request
  /\ UNCHANGED <<move, jog, stream, armed, switch, braking, timer, world, history>>

\* clear_fault of a fault, ready_after_home of an axis stopped on the start switch.
Recover ==
  /\ TasksRun
  /\ IsFault \/ (status = "STOPPED" /\ startOn)
  /\ status' = "READY"
  /\ jogMode' = FALSE /\ remaining' = 0 /\ total' = 0
  /\ request' = None /\ releaseArmed' = FALSE /\ hookArmed' = FALSE
  /\ limitRequested' = None /\ limitReason' = None
  /\ ResetStream
  /\ UNCHANGED <<stopReason, direction, completed, fast, usesStream, switch, timer, world, storing, history>>

Task ==
  \/ \E d \in {-1, 1}, steps \in 0 .. MaxSteps, profiled, release \in BOOLEAN :
       Start(d, steps, profiled, release, FALSE)
  \/ RequestStop \/ Recover

-----------------------------------------------------------------------------
(* The timer hardware and the carriage. *)

\* The delay of a start or a long interval is over.
DelayEnds ==
  /\ TasksRun /\ status \in {"STARTING", "WAITING"}
  /\ due' = "update"
  /\ UNCHANGED <<timerPc, timerLocals>> /\ Local

\* The motor has the carriage in tow.
Drives == lead = IF direction = 1 THEN Slack ELSE 0

\* A pulse of a running timer; it may carry a switch past its edge.
Pulse ==
  /\ TasksRun /\ status = "RUNNING"
  /\ \/ Drives /\ place' = place + direction /\ place' \in Place /\ UNCHANGED lead
     \/ ~Drives /\ lead' = lead + direction /\ UNCHANGED place
  /\ pulses' = IF usesStream THEN pulses ELSE pulses + 1
  /\ due' = "compare"
  /\ startOn' \in Levels("start", place') /\ endOn' \in Levels("end", place')
  /\ lines' = (IF startOn' # startOn THEN {"start"} ELSE {}) \cup (IF endOn' /\ ~endOn THEN {"end"} ELSE {})
  /\ UNCHANGED <<move, jog, stream, request, armed, switch, braking, timerPc, timerLocals, storing, asked>>

\* A switch bounces near its edge; the start switch interrupts on both edges.
Bounce ==
  /\ \/ /\ startOn' = ~startOn /\ startOn' \in Levels("start", place)
        /\ lines' = lines \cup {"start"} /\ UNCHANGED endOn
     \/ /\ endOn' = ~endOn /\ endOn' \in Levels("end", place)
        /\ lines' = (IF endOn' THEN lines \cup {"end"} ELSE lines) /\ UNCHANGED startOn
  /\ UNCHANGED <<place, lead, move, jog, stream, request, armed, switch, braking, timer, storing, history>>

Next == LimitInterrupt \/ TimerInterrupt \/ Task \/ DelayEnds \/ Pulse \/ Bounce

Spec == Init /\ [][Next]_vars

-----------------------------------------------------------------------------
(* Properties. *)

\* "The switch may already be off again; its interrupt still counts": from where
\* its switch fired first, a move runs on for the braking distance and at most one
\* step more, whether the switch bounces off or not.
BrakesFromTheEdge == latched => place - trigger \in -(MaxBrake + 1) .. MaxBrake + 1

\* "Position reader value at the moment a switch fired": however often a switch
\* bounces while the move brakes, the latched position, which is also where the
\* hook zeroes the scale, is where an interrupt saw the switch first, and that is on
\* its edge; only a stream that turns round beyond a switch finds it on further out.
LatchedAtTheEdge ==
  [][IsActive /\ trigger' # trigger =>
       /\ ~latched
       /\ \/ place \in -(BounceSteps + 1) .. 0 \cup EndSwitch .. EndSwitch + BounceSteps + 1
          \/ ~jogMode /\ timerPc = "load" /\ next # direction]_vars

\* What calibration measures with: a jog that completed gave every step asked
\* for, one that was stopped on request is counted exactly, and one that a switch
\* stopped to within the pulse it fell into.
StepsAccounted ==
  ~IsActive /\ asked # 0 /\ TasksRun =>
    /\ status = "COMPLETE" => completed = asked /\ pulses = asked
    /\ stopReason \in {"REQUEST", "START_LIMIT_RELEASE"} => completed = pulses
    /\ pulses - completed \in {0, 1}

\* A move that one interrupt stopped is not set going again by the other, which
\* was in the middle of its work.
StoppedStaysStopped == [][~IsActive /\ timerPc # "idle" => ~IsActive']_vars
=============================================================================
