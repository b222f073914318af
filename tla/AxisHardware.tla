---------------------------- MODULE AxisHardware ----------------------------
(***************************************************************************)
(* One axis: its status machine, its step timer and its two switches       *)
(* (src/BSP/MCU/motion_axis_hardware.c).  Tasks start moves, request stops *)
(* and arm the one-shot switch reactions; everything else happens in the   *)
(* axis' interrupts.                                                       *)
(*                                                                         *)
(* A step of the carriage is one STEP pulse with the interrupts it leads   *)
(* to: the switch interrupt if the pulse crosses a switch, then the timer  *)
(* interrupt of the pulse's end.  The three start-up delays are one state  *)
(* (they only wait and recheck the switches), and so is WAITING, the idle  *)
(* part of a long interval.  The start switch is active at places <= 0,    *)
(* the end switch from EndSwitch on; the scale counts away from its zero   *)
(* in either direction.                                                    *)
(***************************************************************************)
EXTENDS Integers

CONSTANTS
  EndSwitch,     \* where the end switch turns on
  MaxBrake,      \* longest braking distance of a fast profiled move
  Margin         \* room modelled past each switch

ASSUME EndSwitchAssumption == EndSwitch \in Nat \ {0}
ASSUME BrakeAssumption == MaxBrake \in Nat /\ Margin \in Nat /\ Margin > MaxBrake

VARIABLES
  status,          \* status
  direction,       \* current_direction_positive: 1 toward the end, -1 toward the start
  stepsLeft,       \* jog_steps_remaining; 0 outside a jog (jog_mode = 0)
  fast,            \* the jog ramps above the rate at which it may stop dead
  pendingStop,     \* pending_stop_reason, None when stop_requested = 0
  stopReason,      \* stop_reason
  braking,         \* limit_deceleration_reason
  releaseArmed,    \* start_limit_release_stop_armed
  hookArmed,       \* start_limit_hook is set
  place,           \* where the carriage is
  zero,            \* where the scale was last zeroed
  requesting       \* tasks between the check and the store of request_stop

axisVars == <<status, direction, stepsLeft, fast, pendingStop, stopReason, braking,
              releaseArmed, hookArmed, place, zero, requesting>>

Faults == {"FAULT_UNDERRUN", "FAULT_EVENT", "FAULT_TIMING"}
ActiveStatuses == {"STARTING", "RUNNING"}
StartableStatuses == {"READY", "COMPLETE", "STOPPED"}
Status == Faults \cup ActiveStatuses \cup StartableStatuses

None == "NONE"
LimitReasons == {"START_LIMIT", "END_LIMIT"}
StopReasons == LimitReasons \cup {"REQUEST", "START_LIMIT_RELEASE"}

Place == -Margin .. EndSwitch + Margin

IsActive == status \in ActiveStatuses
IsFault == status \in Faults
CanStart == status \in StartableStatuses
IsJog == stepsLeft # 0

StartSwitchAt(p) == p <= 0
EndSwitchAt(p) == p >= EndSwitch

\* The scale reads the distance to its zero, without a sign.
Scale == IF place >= zero THEN place - zero ELSE zero - place

NothingBlocks(p, d) == None
LimitBlocks(p, d) ==
  IF d = -1 /\ StartSwitchAt(p) THEN "START_LIMIT"
  ELSE IF d = 1 /\ EndSwitchAt(p) THEN "END_LIMIT" ELSE None

Smaller(a, b) == IF a < b THEN a ELSE b

\* Braking distances of the current move: a fast one may need any up to MaxBrake.
BrakingSteps == IF IsJog /\ fast THEN 0 .. MaxBrake ELSE {0}

\* The type invariant of one axis: the status machine and what the switches and requests leave in it.
AxisTypeOK ==
  /\ status \in Status
  /\ direction \in {-1, 1}
  /\ stepsLeft \in Nat
  /\ fast \in BOOLEAN
  /\ pendingStop \in StopReasons \cup {None}
  /\ stopReason \in StopReasons \cup {None}
  /\ braking \in LimitReasons \cup {None}
  /\ releaseArmed \in BOOLEAN /\ hookArmed \in BOOLEAN
  /\ place \in Place
  /\ zero \in Place

AxisInit ==
  /\ status = "READY"
  /\ direction = 1
  /\ stepsLeft = 0
  /\ fast = FALSE
  /\ pendingStop = None /\ stopReason = None /\ braking = None
  /\ releaseArmed = FALSE /\ hookArmed = FALSE
  /\ place \in 0 .. EndSwitch
  /\ zero = place
  /\ requesting = {}

-----------------------------------------------------------------------------
(* motion_axis_stop and its callers. *)

\* Every stop drops the jog, the requests and whatever was armed; a fault stays.
StopAxis(final) ==
  /\ status' = IF IsFault THEN status ELSE final
  /\ stepsLeft' = 0
  /\ pendingStop' = None
  /\ braking' = None
  /\ releaseArmed' = FALSE
  /\ hookArmed' = FALSE
  /\ UNCHANGED <<direction, fast, requesting>>

HookWithoutReason(hook, reason) == hook
HookOnEndSwitch(hook, reason) == hook /\ reason = "END_LIMIT"
HookRuns(hook, reason) == hook /\ reason = "START_LIMIT"

\* latch_limit: the hook armed for the start switch zeroes the scale on the spot.
Latch(hook, reason) ==
  zero' = IF HookRuns(hook, reason) THEN place' ELSE zero

StopWithReason(reason) ==
  /\ stopReason' = reason
  /\ Latch(hookArmed, reason)
  /\ StopAxis("STOPPED")

-----------------------------------------------------------------------------
(* What tasks do. *)

\* start_event, with the switch reactions armed before it: a move whose switch is
\* already active ends before it begins.
StartArmed(d, steps, profiled, release, hook) ==
  /\ CanStart
  /\ place' = place
  /\ releaseArmed' = release
  /\ LET limit == LimitBlocks(place, d) IN
     \/ /\ limit # None
        /\ status' = "STOPPED" /\ stopReason' = limit
        /\ Latch(hook, limit) /\ hookArmed' = FALSE
        /\ stepsLeft' = 0
        /\ UNCHANGED <<direction, fast, braking>>
     \/ /\ limit = None
        /\ status' = "STARTING" /\ stopReason' = None
        /\ direction' = d /\ stepsLeft' = steps /\ fast' = profiled
        /\ braking' = None
        /\ hookArmed' = hook
        /\ UNCHANGED zero
  /\ UNCHANGED <<pendingStop, requesting>>

StartEvent(d, steps, profiled) == StartArmed(d, steps, profiled, releaseArmed, hookArmed)
StartJog(d, steps, profiled) == steps > 0 /\ StartEvent(d, steps, profiled)

\* request_stop: the status is checked before interrupts are masked ...
RequestStopCheck(task) ==
  /\ task \notin requesting
  /\ IsActive
  /\ requesting' = requesting \cup {task}
  /\ UNCHANGED <<status, direction, stepsLeft, fast, pendingStop, stopReason, braking,
                 releaseArmed, hookArmed, place, zero>>

\* ... and the request is stored under the mask, unless one is pending.
RequestStopStore(task) ==
  /\ task \in requesting
  /\ pendingStop' = IF pendingStop = None THEN "REQUEST" ELSE pendingStop
  /\ requesting' = requesting \ {task}
  /\ UNCHANGED <<status, direction, stepsLeft, fast, stopReason, braking,
                 releaseArmed, hookArmed, place, zero>>

\* clear_fault and ready_after_home, under the interrupt mask.
ClearFault ==
  /\ IsFault
  /\ status' = "READY"
  /\ stepsLeft' = 0 /\ pendingStop' = None /\ braking' = None
  /\ releaseArmed' = FALSE /\ hookArmed' = FALSE
  /\ UNCHANGED <<direction, fast, stopReason, place, zero, requesting>>

ReadyAfterHome ==
  /\ status = "STOPPED" /\ StartSwitchAt(place)
  /\ StopAxis("READY")
  /\ UNCHANGED <<stopReason, place, zero>>

-----------------------------------------------------------------------------
(* The interrupts. *)

Carries(p) == p \in Place /\ place' = p

\* A timer interrupt of the start-up delays, no pulse yet.
StartupInterrupt ==
  /\ status = "STARTING"
  /\ place' = place
  /\ LET limit == LimitBlocks(place, direction) IN
     \/ /\ pendingStop # None
        /\ StopWithReason(pendingStop)
     \/ /\ pendingStop = None /\ limit # None
        /\ StopWithReason(limit)
     \/ /\ pendingStop = None /\ limit = None
        /\ status' = "RUNNING"
        /\ UNCHANGED <<direction, stepsLeft, fast, pendingStop, stopReason, braking,
                       releaseArmed, hookArmed, zero, requesting>>

Pulse == status = "RUNNING" /\ Carries(place + direction)
NextPlace == place + direction
LimitReached == LimitBlocks(NextPlace, direction)
Released == direction = 1 /\ StartSwitchAt(place) /\ ~StartSwitchAt(NextPlace)

\* The switch interrupt stops a move that needs no braking distance at once.
StoppedBySwitch ==
  /\ Pulse
  /\ braking = None /\ LimitReached # None /\ 0 \in BrakingSteps
  /\ StopWithReason(LimitReached)

\* A switch met at speed is latched by its interrupt, whatever then ends the move.
LatchedAtSpeed == IF braking = None /\ BrakingSteps # {0} THEN LimitReached ELSE None

\* The timer interrupt finds a request, the release's one included; the switch
\* interrupt of the same pulse may come before it or after.
StoppedByRequest ==
  /\ Pulse
  /\ \/ pendingStop # None /\ stopReason' = pendingStop
     \/ pendingStop = None /\ Released /\ releaseArmed /\ stopReason' = "START_LIMIT_RELEASE"
  /\ Latch(hookArmed, LatchedAtSpeed) \/ UNCHANGED zero
  /\ StopAxis("STOPPED")

RequestUnnoticed == ~(Released /\ releaseArmed)
NoStopDue == pendingStop = None /\ ~(Released /\ releaseArmed)

\* The last step of a jog: it completed unless a switch made it brake.
JogEnds ==
  /\ Pulse /\ NoStopDue
  /\ stepsLeft = 1
  /\ LET limit == IF braking # None THEN braking ELSE LimitReached IN
     IF limit # None THEN StopWithReason(limit)
     ELSE StopAxis("COMPLETE") /\ UNCHANGED <<stopReason, zero>>

NotShortened(left, steps) == left
Shortened(left, steps) == Smaller(left, steps)

\* A step in the middle of a jog; at a switch a fast one begins to brake, which
\* latches the switch point and shortens the move to the braking distance.
JogContinues ==
  /\ Pulse /\ NoStopDue
  /\ stepsLeft > 1
  /\ \/ /\ braking # None \/ LimitReached = None
        /\ stepsLeft' = stepsLeft - 1
        /\ UNCHANGED <<braking, hookArmed, zero>>
     \/ /\ braking = None /\ LimitReached # None
        /\ \E steps \in BrakingSteps \ {0} : stepsLeft' = Shortened(stepsLeft - 1, steps)
        /\ braking' = LimitReached
        /\ Latch(hookArmed, LimitReached)
        /\ hookArmed' = FALSE
  /\ UNCHANGED <<status, direction, fast, pendingStop, stopReason, releaseArmed, requesting>>

\* The interrupt came too late to load the next interval.
JogMissesDeadline ==
  /\ Pulse /\ NoStopDue
  /\ stepsLeft > 1
  /\ braking # None \/ LimitReached = None \/ BrakingSteps # {0}
  /\ Latch(hookArmed, LatchedAtSpeed)
  /\ StopAxis("FAULT_TIMING")
  /\ UNCHANGED stopReason

\* The stream's next event, taken while no switch blocks its direction.
StreamContinues(d) ==
  /\ Pulse /\ NoStopDue
  /\ ~IsJog
  /\ LimitReached = None
  /\ LET limit == LimitBlocks(NextPlace, d) IN
     IF limit # None THEN StopWithReason(limit)
     ELSE /\ direction' = d
          /\ UNCHANGED <<status, stepsLeft, fast, pendingStop, stopReason, braking,
                         releaseArmed, hookArmed, zero, requesting>>

\* The stream has no next event: the motion is complete, or it ran dry.
StreamEnds(final) ==
  /\ Pulse /\ NoStopDue
  /\ ~IsJog
  /\ LimitReached = None
  /\ StopAxis(final)
  /\ UNCHANGED <<stopReason, zero>>

\* Interrupts of the axis alone; those that take stream events need their source.
JogInterrupt ==
  \/ StartupInterrupt \/ StoppedBySwitch \/ StoppedByRequest
  \/ JogEnds \/ JogContinues \/ JogMissesDeadline
=============================================================================
