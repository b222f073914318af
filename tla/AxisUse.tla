------------------------------ MODULE AxisUse ------------------------------
(***************************************************************************)
(* Every use of one axis that its interface allows: tasks start profiled   *)
(* and planned moves, request stops, arm the switch reactions and recover  *)
(* faults at any time (src/BSP/MCU/motion_axis_hardware.h), and a planned  *)
(* stream yields any direction next, ends or runs dry.                     *)
(***************************************************************************)
EXTENDS AxisHardware

CONSTANT MaxSteps   \* bound on the length of a profiled move

ASSUME MaxStepsAssumption == MaxSteps \in Nat \ {0}

Task == {"command", "motion"}

Init == AxisInit

\* arm_start_limit_release_stop and disarm_start_limit_release_stop
ArmReleaseStop ==
  /\ releaseArmed' \in BOOLEAN
  /\ UNCHANGED <<status, direction, stepsLeft, fast, pendingStop, stopReason, braking,
                 hookArmed, place, zero, requesting>>

\* arm_start_limit_hook
ArmHook ==
  /\ hookArmed' \in BOOLEAN
  /\ UNCHANGED <<status, direction, stepsLeft, fast, pendingStop, stopReason, braking,
                 releaseArmed, place, zero, requesting>>

TaskCall ==
  \/ \E d \in {-1, 1}, steps \in 1 .. MaxSteps, profiled \in BOOLEAN : StartJog(d, steps, profiled)
  \/ \E d \in {-1, 1} : StartEvent(d, 0, FALSE)
  \/ \E task \in Task : RequestStopCheck(task)
  \/ ArmReleaseStop \/ ArmHook
  \/ ClearFault \/ ReadyAfterHome

Interrupt ==
  \/ JogInterrupt
  \/ \E d \in {-1, 1} : StreamContinues(d)
  \/ \E final \in {"COMPLETE"} \cup Faults : StreamEnds(final)

Next == TaskCall \/ Interrupt \/ \E task \in Task : RequestStopStore(task)

Spec == Init /\ [][Next]_axisVars

(* The timer of an active axis keeps interrupting, and a task inside          *)
(* request_stop gets to store its request.                                    *)
Fairness ==
  /\ WF_axisVars(Interrupt)
  /\ \A task \in Task : WF_axisVars(RequestStopStore(task))

FairSpec == Spec /\ Fairness

-----------------------------------------------------------------------------
(* Properties. *)

\* The type invariant: no move has more steps left than it was asked for, also after braking.
TypeOK == AxisTypeOK /\ requesting \subseteq Task /\ stepsLeft <= MaxSteps

\* The carriage never runs further past a switch than the braking distance of the
\* configured deceleration, whatever moves, reversals and stops led there.
OvershootBounded == place \in -MaxBrake .. EndSwitch + MaxBrake

\* No move, planned or profiled, steps further onto a switch that is already
\* active, except while it brakes for that switch.
NeverStepsOntoSwitch ==
  [][/\ place' < place /\ StartSwitchAt(place) => braking = "START_LIMIT"
     /\ place' > place /\ EndSwitchAt(place) => braking = "END_LIMIT"]_axisVars

\* The scale is only ever zeroed on the start switch, at the point where the
\* move met it.
ZeroedOnStartSwitch == [][zero' # zero => StartSwitchAt(zero') /\ zero' = place']_axisVars

\* "Stops active motion at the next timer interrupt": a stop requested while the
\* axis moves ends the move.
RequestedStopStops == pendingStop # None ~> ~IsActive
=============================================================================
