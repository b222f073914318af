--------------------------- MODULE AxisUseProofs ---------------------------
(***************************************************************************)
(* Proofs about one axis under any use: its state stays well typed, the    *)
(* carriage never overruns a switch by more than the braking distance, no  *)
(* move steps onto a switch that is active, and the scale is zeroed on the *)
(* start switch only.                                                      *)
(***************************************************************************)
EXTENDS AxisUse, TLAPS

\* A move runs free of the switches unless it brakes for one, and then the steps
\* left keep it within the braking distance.
MovesFreely == IsActive /\ braking = None => LimitBlocks(place, direction) = None

BrakesForStart == direction = -1 /\ place <= 0 /\ place - stepsLeft >= -MaxBrake
BrakesForEnd == direction = 1 /\ place >= EndSwitch /\ place + stepsLeft <= EndSwitch + MaxBrake

BrakesInTime ==
  braking # None =>
    /\ status = "RUNNING" /\ stepsLeft >= 1
    /\ braking = "START_LIMIT" => BrakesForStart
    /\ braking = "END_LIMIT" => BrakesForEnd

IInv == TypeOK /\ OvershootBounded /\ MovesFreely /\ BrakesInTime

USE EndSwitchAssumption, BrakeAssumption, MaxStepsAssumption
DEF EndSwitchAssumption, BrakeAssumption, MaxStepsAssumption

\* A step count within the braking distance, on either side of a switch.
LEMMA WithinBefore ==
  ASSUME NEW p \in Int, NEW left \in Int, NEW brake \in Int, 0 <= p, left <= brake
  PROVE  p - left >= -brake
  OBVIOUS

LEMMA WithinAfter ==
  ASSUME NEW p \in Int, NEW left \in Int, NEW brake \in Int, NEW edge \in Int, p <= edge, left <= brake
  PROVE  p + left <= edge + brake
  OBVIOUS

\* The switches are apart: at most one blocks, and only its own direction.
LEMMA LimitBlocksCases ==
  ASSUME NEW p \in Int, NEW d \in {-1, 1}
  PROVE  /\ LimitBlocks(p, d) \in {None, "START_LIMIT", "END_LIMIT"}
         /\ LimitBlocks(p, d) = "START_LIMIT" <=> (d = -1 /\ p <= 0)
         /\ LimitBlocks(p, d) = "END_LIMIT" <=> (d = 1 /\ p >= EndSwitch)
         /\ LimitBlocks(p, d) = None <=> ((d = -1 => p > 0) /\ (d = 1 => p < EndSwitch))
  BY DEF LimitBlocks, StartSwitchAt, EndSwitchAt, None

LEMMA BrakingStepsRange == BrakingSteps \subseteq 0 .. MaxBrake
  BY DEF BrakingSteps

\* One pulse of a moving axis stays within the braking distance, and a move that
\* does not brake lands on the edge of a switch at most.
LEMMA PulseStaysInBounds ==
  ASSUME IInv, Pulse
  PROVE  /\ place' = place + direction
         /\ place' \in Place
         /\ place' \in -MaxBrake .. EndSwitch + MaxBrake
         /\ braking = None => (direction = -1 => place' >= 0) /\ (direction = 1 => place' <= EndSwitch)
<1>1. place \in Int /\ direction \in {-1, 1} /\ stepsLeft \in Nat
  BY DEF IInv, TypeOK, AxisTypeOK, Place
<1>2. place' = place + direction /\ place' \in Place
  BY DEF Pulse, Carries
<1>3. CASE braking = None
  <2>1. LimitBlocks(place, direction) = None
    BY <1>3 DEF IInv, MovesFreely, IsActive, ActiveStatuses, Pulse
  <2> QED
    BY <2>1, <1>1, <1>2, LimitBlocksCases DEF IInv, OvershootBounded
<1>4. CASE braking # None
  <2>1. braking \in {"START_LIMIT", "END_LIMIT"}
    BY <1>4 DEF IInv, TypeOK, AxisTypeOK, LimitReasons
  <2>2. CASE braking = "START_LIMIT"
    BY <2>2, <1>1, <1>2, <1>4 DEF IInv, OvershootBounded, BrakesInTime, BrakesForStart
  <2>3. CASE braking = "END_LIMIT"
    BY <2>3, <1>1, <1>2, <1>4 DEF IInv, OvershootBounded, BrakesInTime, BrakesForEnd
  <2> QED
    BY <2>1, <2>2, <2>3, <1>2, <1>4
<1> QED
  BY <1>2, <1>3, <1>4

\* Every stop leaves the axis at rest with nothing braking.
LEMMA StopKeepsIInv ==
  ASSUME IInv, NEW final \in Status \ ActiveStatuses, StopAxis(final),
         place' \in Place, place' \in -MaxBrake .. EndSwitch + MaxBrake,
         zero' \in Place, stopReason' \in StopReasons \cup {None}
  PROVE  IInv'
<1>1. status' \in Status /\ status' \notin ActiveStatuses
  BY DEF StopAxis, IInv, TypeOK, AxisTypeOK, IsFault, Status, Faults, ActiveStatuses, StartableStatuses
<1>2. AxisTypeOK'
  BY <1>1 DEF StopAxis, IInv, TypeOK, AxisTypeOK
<1>3. TypeOK'
  BY <1>2 DEF TypeOK, StopAxis, IInv
<1> QED
  BY <1>1, <1>3 DEF IInv, OvershootBounded, MovesFreely, BrakesInTime, IsActive, StopAxis, ActiveStatuses

LEMMA StopWithReasonKeepsIInv ==
  ASSUME IInv, NEW reason \in StopReasons, StopWithReason(reason),
         place' \in Place, place' \in -MaxBrake .. EndSwitch + MaxBrake
  PROVE  IInv'
<1>1. "STOPPED" \in Status \ ActiveStatuses
  BY DEF Status, Faults, ActiveStatuses, StartableStatuses
<1>2. zero' \in Place
  BY DEF StopWithReason, Latch, IInv, TypeOK, AxisTypeOK
<1> QED
  BY <1>1, <1>2, StopKeepsIInv DEF StopWithReason

-----------------------------------------------------------------------------
(* One lemma per kind of step. *)

LEMMA StartKeepsIInv ==
  ASSUME IInv, NEW d \in {-1, 1}, NEW steps \in 0 .. MaxSteps, NEW profiled \in BOOLEAN,
         StartEvent(d, steps, profiled)
  PROVE  IInv'
<1>1. CanStart /\ place' = place /\ releaseArmed' = releaseArmed
      /\ UNCHANGED <<pendingStop, requesting>>
  BY DEF StartEvent, StartArmed
<1>2. status \notin ActiveStatuses /\ status # "RUNNING"
  BY <1>1 DEF CanStart, StartableStatuses, ActiveStatuses
<1>3. braking = None
  BY <1>2 DEF IInv, BrakesInTime
<1>4. place \in Int
  BY DEF IInv, TypeOK, AxisTypeOK, Place
<1>5. CASE LimitBlocks(place, d) # None
  <2>1. /\ status' = "STOPPED" /\ stopReason' = LimitBlocks(place, d)
        /\ Latch(hookArmed, LimitBlocks(place, d)) /\ hookArmed' = FALSE
        /\ stepsLeft' = 0
        /\ UNCHANGED <<direction, fast, braking>>
    BY <1>5 DEF StartEvent, StartArmed
  <2>2. stopReason' \in StopReasons
    BY <2>1, <1>4, <1>5, LimitBlocksCases DEF StopReasons, LimitReasons
  <2>3. zero' \in Place
    BY <2>1, <1>1 DEF Latch, IInv, TypeOK, AxisTypeOK
  <2>4. AxisTypeOK'
    BY <1>1, <2>1, <2>2, <2>3 DEF IInv, TypeOK, AxisTypeOK, Status, StartableStatuses
  <2> QED
    BY <1>1, <1>3, <2>1, <2>4
       DEF IInv, TypeOK, OvershootBounded, MovesFreely, BrakesInTime, IsActive, ActiveStatuses
<1>6. CASE LimitBlocks(place, d) = None
  <2>1. /\ status' = "STARTING" /\ stopReason' = None
        /\ direction' = d /\ stepsLeft' = steps /\ fast' = profiled
        /\ braking' = None
        /\ hookArmed' = hookArmed
        /\ UNCHANGED zero
    BY <1>6 DEF StartEvent, StartArmed
  <2>2. AxisTypeOK'
    BY <1>1, <2>1 DEF IInv, TypeOK, AxisTypeOK, Status, ActiveStatuses
  <2>3. LimitBlocks(place', direction') = None
    BY <1>1, <1>6, <2>1
  <2> QED
    BY <1>1, <2>1, <2>2, <2>3 DEF IInv, TypeOK, OvershootBounded, MovesFreely, BrakesInTime
<1> QED
  BY <1>5, <1>6

\* The steps that leave the motion alone: arming, and the two halves of request_stop.
LEMMA QuietStepKeepsIInv ==
  ASSUME IInv,
         UNCHANGED <<status, direction, stepsLeft, fast, stopReason, braking, place, zero>>,
         pendingStop' \in StopReasons \cup {None},
         releaseArmed' \in BOOLEAN, hookArmed' \in BOOLEAN,
         requesting' \subseteq Task
  PROVE  IInv'
<1>1. TypeOK'
  BY DEF IInv, TypeOK, AxisTypeOK
<1> QED
  BY <1>1 DEF IInv, OvershootBounded, MovesFreely, BrakesInTime, IsActive, BrakesForStart, BrakesForEnd,
              LimitBlocks, StartSwitchAt, EndSwitchAt

LEMMA TaskStepKeepsIInv ==
  ASSUME IInv, TaskCall \/ \E task \in Task : RequestStopStore(task)
  PROVE  IInv'
<1>1. ASSUME NEW d \in {-1, 1}, NEW steps \in 1 .. MaxSteps, NEW profiled \in BOOLEAN,
             StartJog(d, steps, profiled)
      PROVE  IInv'
  <2>1. steps \in 0 .. MaxSteps /\ StartEvent(d, steps, profiled)
    BY <1>1 DEF StartJog
  <2> QED
    BY <2>1, StartKeepsIInv
<1>2. ASSUME NEW d \in {-1, 1}, StartEvent(d, 0, FALSE)
      PROVE  IInv'
  <2>1. 0 \in 0 .. MaxSteps
    OBVIOUS
  <2> QED
    BY <1>2, <2>1, StartKeepsIInv
<1>3. ASSUME NEW task \in Task, RequestStopCheck(task)
      PROVE  IInv'
  BY <1>3, QuietStepKeepsIInv DEF RequestStopCheck, IInv, TypeOK, AxisTypeOK
<1>4. CASE ArmReleaseStop
  BY <1>4, QuietStepKeepsIInv DEF ArmReleaseStop, IInv, TypeOK, AxisTypeOK
<1>5. CASE ArmHook
  BY <1>5, QuietStepKeepsIInv DEF ArmHook, IInv, TypeOK, AxisTypeOK
<1>6. CASE ClearFault
  <2>1. AxisTypeOK' /\ braking' = None /\ status' = "READY" /\ place' = place
    BY <1>6 DEF ClearFault, IInv, TypeOK, AxisTypeOK, Status, StartableStatuses
  <2>2. TypeOK'
    BY <1>6, <2>1 DEF ClearFault, IInv, TypeOK
  <2> QED
    BY <2>1, <2>2 DEF IInv, OvershootBounded, MovesFreely, BrakesInTime, IsActive, ActiveStatuses
<1>7. CASE ReadyAfterHome
  <2>1. "READY" \in Status \ ActiveStatuses
    BY DEF Status, StartableStatuses, ActiveStatuses
  <2>2. place' = place /\ zero' = zero /\ stopReason' = stopReason
    BY <1>7 DEF ReadyAfterHome
  <2> QED
    BY <1>7, <2>1, <2>2, StopKeepsIInv DEF ReadyAfterHome, IInv, TypeOK, AxisTypeOK, OvershootBounded
<1>8. ASSUME NEW task \in Task, RequestStopStore(task)
      PROVE  IInv'
  BY <1>8, QuietStepKeepsIInv DEF RequestStopStore, IInv, TypeOK, AxisTypeOK, StopReasons
<1> QED
  BY <1>1, <1>2, <1>3, <1>4, <1>5, <1>6, <1>7, <1>8 DEF TaskCall

LEMMA StartupKeepsIInv ==
  ASSUME IInv, StartupInterrupt
  PROVE  IInv'
<1>1. place' = place /\ place \in Int /\ direction \in {-1, 1}
  BY DEF StartupInterrupt, IInv, TypeOK, AxisTypeOK, Place
<1>2. place' \in Place /\ place' \in -MaxBrake .. EndSwitch + MaxBrake
  BY <1>1 DEF IInv, TypeOK, AxisTypeOK, OvershootBounded
<1>3. CASE pendingStop # None /\ StopWithReason(pendingStop)
  BY <1>2, <1>3, StopWithReasonKeepsIInv DEF IInv, TypeOK, AxisTypeOK
<1>4. CASE LimitBlocks(place, direction) # None /\ StopWithReason(LimitBlocks(place, direction))
  <2>1. LimitBlocks(place, direction) \in StopReasons
    BY <1>1, <1>4, LimitBlocksCases DEF StopReasons, LimitReasons
  <2> QED
    BY <1>2, <1>4, <2>1, StopWithReasonKeepsIInv
<1>5. CASE /\ LimitBlocks(place, direction) = None
           /\ status' = "RUNNING"
           /\ UNCHANGED <<direction, stepsLeft, fast, pendingStop, stopReason, braking,
                          releaseArmed, hookArmed, zero, requesting>>
  <2>1. TypeOK'
    BY <1>1, <1>5 DEF IInv, TypeOK, AxisTypeOK, Status, ActiveStatuses
  <2>2. braking = None
    BY DEF StartupInterrupt, IInv, BrakesInTime
  <2> QED
    BY <1>1, <1>5, <2>1, <2>2
       DEF IInv, OvershootBounded, MovesFreely, BrakesInTime
<1> QED
  BY <1>3, <1>4, <1>5 DEF StartupInterrupt

\* What the interrupts that end a move have in common.
LEMMA PulseStopKeepsIInv ==
  ASSUME IInv, Pulse, NEW reason \in StopReasons, StopWithReason(reason)
  PROVE  IInv'
  BY PulseStaysInBounds, StopWithReasonKeepsIInv

LEMMA PulseEndKeepsIInv ==
  ASSUME IInv, Pulse, NEW final \in Status \ ActiveStatuses, StopAxis(final),
         zero' \in Place, stopReason' = stopReason
  PROVE  IInv'
<1>1. stopReason' \in StopReasons \cup {None}
  BY DEF IInv, TypeOK, AxisTypeOK
<1> QED
  BY <1>1, PulseStaysInBounds, StopKeepsIInv

LEMMA LimitReachedIsReason ==
  ASSUME IInv, LimitReached # None
  PROVE  LimitReached \in LimitReasons
<1>1. NextPlace \in Int /\ direction \in {-1, 1}
  BY DEF NextPlace, IInv, TypeOK, AxisTypeOK, Place
<1> QED
  BY <1>1, LimitBlocksCases DEF LimitReached, LimitReasons

LEMMA StopsKeepIInv ==
  ASSUME IInv, StoppedBySwitch \/ StoppedByRequest \/ JogEnds \/ JogMissesDeadline
  PROVE  IInv'
<1>1. CASE StoppedBySwitch
  BY <1>1, LimitReachedIsReason, PulseStopKeepsIInv DEF StoppedBySwitch, StopReasons
<1>2. CASE StoppedByRequest
  <2>1. "STOPPED" \in Status \ ActiveStatuses
    BY DEF Status, Faults, ActiveStatuses, StartableStatuses
  <2>2. stopReason' \in StopReasons \cup {None}
    BY <1>2 DEF StoppedByRequest, StopReasons, IInv, TypeOK, AxisTypeOK
  <2>3. zero' \in Place
    BY <1>2, PulseStaysInBounds DEF StoppedByRequest, Latch, IInv, TypeOK, AxisTypeOK
  <2> QED
    BY <1>2, <2>1, <2>2, <2>3, PulseStaysInBounds, StopKeepsIInv DEF StoppedByRequest
<1>3. CASE JogEnds
  <2> DEFINE limit == IF braking # None THEN braking ELSE LimitReached
  <2>1. CASE limit # None
    <3>1. StopWithReason(limit)
      BY <1>3, <2>1 DEF JogEnds
    <3>2. limit \in StopReasons
      BY <2>1, LimitReachedIsReason DEF IInv, TypeOK, AxisTypeOK, StopReasons
    <3> QED
      BY <1>3, <3>1, <3>2, PulseStopKeepsIInv DEF JogEnds
  <2>2. CASE limit = None
    <3>1. StopAxis("COMPLETE") /\ UNCHANGED <<stopReason, zero>>
      BY <1>3, <2>2 DEF JogEnds
    <3>2. "COMPLETE" \in Status \ ActiveStatuses /\ zero' \in Place
      BY <3>1 DEF Status, StartableStatuses, ActiveStatuses, IInv, TypeOK, AxisTypeOK
    <3> QED
      BY <1>3, <3>1, <3>2, PulseEndKeepsIInv DEF JogEnds
  <2> QED
    BY <2>1, <2>2
<1>4. CASE JogMissesDeadline
  <2>1. "FAULT_TIMING" \in Status \ ActiveStatuses
    BY DEF Status, Faults, ActiveStatuses
  <2>2. zero' \in Place
    BY <1>4, PulseStaysInBounds DEF JogMissesDeadline, Latch, IInv, TypeOK, AxisTypeOK
  <2> QED
    BY <1>4, <2>1, <2>2, PulseEndKeepsIInv DEF JogMissesDeadline
<1> QED
  BY <1>1, <1>2, <1>3, <1>4

\* The step that begins to brake leaves at most MaxBrake steps, from the edge of
\* the switch; every later one takes one of them.
LEMMA JogContinuesKeepsIInv ==
  ASSUME IInv, JogContinues
  PROVE  IInv'
<1>1. Pulse /\ stepsLeft > 1
      /\ UNCHANGED <<status, direction, fast, pendingStop, stopReason, releaseArmed, requesting>>
  BY DEF JogContinues
<1>2. place \in Int /\ direction \in {-1, 1} /\ stepsLeft \in 0 .. MaxSteps /\ status = "RUNNING"
  BY <1>1 DEF IInv, TypeOK, AxisTypeOK, Place, Pulse
<1>3. /\ place' = place + direction /\ place' \in Place
      /\ place' \in -MaxBrake .. EndSwitch + MaxBrake
  BY <1>1, PulseStaysInBounds
<1>4. NextPlace = place'
  BY <1>3 DEF NextPlace
<1>5. CASE /\ braking # None \/ LimitReached = None
           /\ stepsLeft' = stepsLeft - 1
           /\ UNCHANGED <<braking, hookArmed, zero>>
  <2>1. TypeOK'
    BY <1>1, <1>2, <1>3, <1>5 DEF IInv, TypeOK, AxisTypeOK
  <2>2. MovesFreely'
    BY <1>1, <1>3, <1>4, <1>5 DEF MovesFreely, LimitReached
  <2>3. BrakesInTime'
    BY <1>1, <1>2, <1>3, <1>5 DEF IInv, BrakesInTime, BrakesForStart, BrakesForEnd
  <2> QED
    BY <1>3, <2>1, <2>2, <2>3 DEF IInv, OvershootBounded
<1>6. CASE /\ braking = None /\ LimitReached # None
           /\ \E steps \in BrakingSteps \ {0} : stepsLeft' = Shortened(stepsLeft - 1, steps)
           /\ braking' = LimitReached
           /\ Latch(hookArmed, LimitReached)
           /\ hookArmed' = FALSE
  <2>1. /\ stepsLeft' \in 1 .. MaxBrake /\ stepsLeft' <= stepsLeft
    <3>1. PICK steps \in BrakingSteps \ {0} : stepsLeft' = Shortened(stepsLeft - 1, steps)
      BY <1>6
    <3>2. steps \in 1 .. MaxBrake
      BY <3>1, BrakingStepsRange
    <3> QED
      BY <1>1, <1>2, <3>1, <3>2 DEF Shortened, Smaller
  <2>2. zero' \in Place
    BY <1>3, <1>6 DEF Latch, IInv, TypeOK, AxisTypeOK
  <2>3. braking' \in LimitReasons
    BY <1>6, LimitReachedIsReason
  <2>4. braking' \in LimitReasons \cup {None} /\ hookArmed' \in BOOLEAN /\ stepsLeft' \in Nat
        /\ stepsLeft' <= MaxSteps
    <3>1. stepsLeft' \in Nat /\ stepsLeft' <= MaxSteps
      BY <1>2, <2>1
    <3>2. hookArmed' \in BOOLEAN
      BY <1>6
    <3> QED
      BY <2>3, <3>1, <3>2
  <2>5. AxisTypeOK'
    BY <1>1, <1>3, <2>4, <2>2 DEF IInv, TypeOK, AxisTypeOK
  <2>6. TypeOK'
    BY <1>1, <2>4, <2>5 DEF IInv, TypeOK
  <2>7. (direction = -1 => place' >= 0) /\ (direction = 1 => place' <= EndSwitch)
    BY <1>1, <1>6, PulseStaysInBounds
  <2>8. /\ braking' = "START_LIMIT" => direction = -1 /\ place' <= 0
        /\ braking' = "END_LIMIT" => direction = 1 /\ place' >= EndSwitch
    BY <1>2, <1>3, <1>4, <1>6, LimitBlocksCases DEF LimitReached
  <2>9. place' \in Int
    BY <1>2, <1>3
  <2>10. status' = "RUNNING" /\ stepsLeft' >= 1 /\ stepsLeft' \in Nat /\ stepsLeft' <= MaxBrake
    BY <1>1, <1>2, <2>1
  <2>11. direction' = direction
    BY <1>1
  <2>12. stepsLeft' \in Int /\ stepsLeft' <= MaxBrake /\ MaxBrake \in Int /\ EndSwitch \in Int
    BY <2>10
  <2>13. ASSUME braking' = "START_LIMIT" PROVE BrakesForStart'
    <3>1. direction' = -1 /\ place' <= 0 /\ place' >= 0
      BY <2>11, <2>13, <2>7, <2>8
    <3>2. place' - stepsLeft' >= -MaxBrake
      BY <2>12, <2>9, <3>1, WithinBefore
    <3> QED
      BY <3>1, <3>2 DEF BrakesForStart
  <2>14. ASSUME braking' = "END_LIMIT" PROVE BrakesForEnd'
    <3>1. direction' = 1 /\ place' >= EndSwitch /\ place' <= EndSwitch
      BY <2>11, <2>14, <2>7, <2>8
    <3>2. place' + stepsLeft' <= EndSwitch + MaxBrake
      BY <2>12, <2>9, <3>1, WithinAfter
    <3> QED
      BY <3>1, <3>2 DEF BrakesForEnd
  <2>15. BrakesInTime'
    BY <2>10, <2>13, <2>14 DEF BrakesInTime
  <2>16. braking' # None
    BY <1>6
  <2> QED
    BY <1>3, <2>6, <2>15, <2>16 DEF IInv, OvershootBounded, MovesFreely
<1> QED
  BY <1>5, <1>6 DEF JogContinues

LEMMA StreamKeepsIInv ==
  ASSUME IInv,
         \/ \E d \in {-1, 1} : StreamContinues(d)
         \/ \E final \in {"COMPLETE"} \cup Faults : StreamEnds(final)
  PROVE  IInv'
<1>1. ASSUME NEW d \in {-1, 1}, StreamContinues(d)
      PROVE  IInv'
  <2>1. Pulse
    BY <1>1 DEF StreamContinues
  <2>2. place' = place + direction /\ place' \in Place /\ place' \in -MaxBrake .. EndSwitch + MaxBrake
    BY <2>1, PulseStaysInBounds
  <2>3. NextPlace = place' /\ NextPlace \in Int
    BY <2>2 DEF NextPlace, IInv, TypeOK, AxisTypeOK, Place
  <2>4. CASE LimitBlocks(NextPlace, d) # None
    <3>1. StopWithReason(LimitBlocks(NextPlace, d))
      BY <1>1, <2>4 DEF StreamContinues
    <3>2. LimitBlocks(NextPlace, d) \in StopReasons
      BY <2>3, <2>4, LimitBlocksCases DEF StopReasons, LimitReasons
    <3> QED
      BY <2>1, <3>1, <3>2, PulseStopKeepsIInv
  <2>5. CASE LimitBlocks(NextPlace, d) = None
    <3>1. /\ direction' = d
          /\ UNCHANGED <<status, stepsLeft, fast, pendingStop, stopReason, braking,
                         releaseArmed, hookArmed, zero, requesting>>
      BY <1>1, <2>5 DEF StreamContinues
    <3>2. stepsLeft = 0
      BY <1>1 DEF StreamContinues, IsJog
    <3>3. braking = None
      BY <3>2 DEF IInv, BrakesInTime
    <3>4. TypeOK'
      BY <2>2, <3>1 DEF IInv, TypeOK, AxisTypeOK
    <3> QED
      BY <2>2, <2>3, <2>5, <3>1, <3>3, <3>4 DEF IInv, OvershootBounded, MovesFreely, BrakesInTime
  <2> QED
    BY <2>4, <2>5
<1>2. ASSUME NEW final \in {"COMPLETE"} \cup Faults, StreamEnds(final)
      PROVE  IInv'
  <2>1. final \in Status \ ActiveStatuses
    BY DEF Status, Faults, StartableStatuses, ActiveStatuses
  <2>2. zero' \in Place
    BY <1>2 DEF StreamEnds, IInv, TypeOK, AxisTypeOK
  <2> QED
    BY <1>2, <2>1, <2>2, PulseEndKeepsIInv DEF StreamEnds
<1> QED
  BY <1>1, <1>2

-----------------------------------------------------------------------------
(* The theorems. *)

LEMMA InitImpliesIInv == Init => IInv
<1> SUFFICES ASSUME Init PROVE IInv
  OBVIOUS
<1>1. place \in 0 .. EndSwitch /\ zero = place
  BY DEF Init, AxisInit
<1>2. place \in Place /\ zero \in Place
  BY <1>1 DEF Place
<1>3. AxisTypeOK
  BY <1>2 DEF Init, AxisInit, AxisTypeOK, Status, StartableStatuses
<1>4. TypeOK
  BY <1>3 DEF Init, AxisInit, TypeOK
<1> QED
  BY <1>1, <1>4 DEF Init, AxisInit, IInv, OvershootBounded, MovesFreely, BrakesInTime, IsActive, ActiveStatuses

LEMMA NextKeepsIInv == IInv /\ [Next]_axisVars => IInv'
<1> SUFFICES ASSUME IInv, [Next]_axisVars PROVE IInv'
  OBVIOUS
<1>1. CASE TaskCall \/ \E task \in Task : RequestStopStore(task)
  BY <1>1, TaskStepKeepsIInv
<1>2. CASE JogInterrupt
  BY <1>2, StartupKeepsIInv, StopsKeepIInv, JogContinuesKeepsIInv DEF JogInterrupt
<1>3. CASE \/ \E d \in {-1, 1} : StreamContinues(d)
           \/ \E final \in {"COMPLETE"} \cup Faults : StreamEnds(final)
  BY <1>3, StreamKeepsIInv
<1>4. CASE UNCHANGED axisVars
  <2>1. TypeOK'
    BY <1>4 DEF axisVars, IInv, TypeOK, AxisTypeOK
  <2> QED
    BY <1>4, <2>1 DEF axisVars, IInv, OvershootBounded, MovesFreely, BrakesInTime, IsActive, BrakesForStart,
                      BrakesForEnd, LimitBlocks, StartSwitchAt, EndSwitchAt
<1> QED
  BY <1>1, <1>2, <1>3, <1>4 DEF Next, Interrupt

LEMMA IInvHolds == Spec => []IInv
  BY InitImpliesIInv, NextKeepsIInv, PTL DEF Spec

\* Every value of the axis' state stays in its range, whatever use the tasks make
\* of the interface of motion_axis_hardware.
THEOREM TypeCorrect == Spec => []TypeOK
<1>1. IInv => TypeOK
  BY DEF IInv
<1> QED
  BY <1>1, IInvHolds, PTL

\* begin_limit_deceleration and the immediate stops keep the carriage within the
\* braking distance of both switches, for axes and braking distances of any length.
THEOREM OvershootIsBounded == Spec => []OvershootBounded
<1>1. IInv => OvershootBounded
  BY DEF IInv
<1> QED
  BY <1>1, IInvHolds, PTL

\* No pulse drives further onto an active switch unless the axis brakes for it.
THEOREM SwitchesAreRespected == Spec => NeverStepsOntoSwitch
<1> DEFINE Respects ==
      /\ place' < place /\ StartSwitchAt(place) => braking = "START_LIMIT"
      /\ place' > place /\ EndSwitchAt(place) => braking = "END_LIMIT"
<1>1. IInv /\ [Next]_axisVars => [Respects]_axisVars
  <2> SUFFICES ASSUME IInv, Next, place' # place
               PROVE  Respects
    <3>1. IInv => place \in Int
      BY DEF IInv, TypeOK, AxisTypeOK, Place
    <3> QED
      BY <3>1
  <2>1. Pulse
    <3>1. ~TaskCall
      BY DEF TaskCall, StartJog, StartEvent, StartArmed, RequestStopCheck, ArmReleaseStop, ArmHook,
             ClearFault, ReadyAfterHome
    <3>2. ~\E task \in Task : RequestStopStore(task)
      BY DEF RequestStopStore
    <3> QED
      BY <3>1, <3>2 DEF Next, Interrupt, JogInterrupt, StartupInterrupt, StoppedBySwitch, StoppedByRequest,
                        JogEnds, JogContinues, JogMissesDeadline, StreamContinues, StreamEnds
  <2>2. place \in Int /\ direction \in {-1, 1} /\ EndSwitch > 0 /\ place' = place + direction
    BY <2>1 DEF IInv, TypeOK, AxisTypeOK, Place, Pulse, Carries
  <2>3. CASE braking = None
    <3>1. LimitBlocks(place, direction) = None
      BY <2>1, <2>3 DEF IInv, MovesFreely, IsActive, ActiveStatuses, Pulse
    <3> QED
      BY <2>2, <3>1, LimitBlocksCases DEF StartSwitchAt, EndSwitchAt
  <2>4. CASE braking # None
    <3>1. braking \in LimitReasons
      BY <2>4 DEF IInv, TypeOK, AxisTypeOK
    <3>2. CASE braking = "START_LIMIT"
      BY <2>2, <3>2 DEF IInv, BrakesInTime, BrakesForStart, None, EndSwitchAt
    <3>3. CASE braking = "END_LIMIT"
      BY <2>2, <3>3 DEF IInv, BrakesInTime, BrakesForEnd, None, StartSwitchAt
    <3> QED
      BY <3>1, <3>2, <3>3 DEF LimitReasons
  <2> QED
    BY <2>3, <2>4
<1> QED
  BY <1>1, IInvHolds, PTL DEF Spec, NeverStepsOntoSwitch

-----------------------------------------------------------------------------
(* Where the scale is zeroed. *)

\* Tasks request plain stops only: request_stop stores no reason of a switch.
RequestsOnly == pendingStop \in {None, "REQUEST"}

LEMMA NextKeepsRequestsOnly == RequestsOnly /\ [Next]_axisVars => RequestsOnly'
<1> SUFFICES ASSUME RequestsOnly, [Next]_axisVars PROVE RequestsOnly'
  OBVIOUS
<1>1. ASSUME UNCHANGED pendingStop PROVE RequestsOnly'
  BY <1>1 DEF RequestsOnly
<1>2. ASSUME NEW final, StopAxis(final) PROVE RequestsOnly'
  BY <1>2 DEF StopAxis, RequestsOnly
<1>3. ASSUME NEW reason, StopWithReason(reason) PROVE RequestsOnly'
  BY <1>2, <1>3 DEF StopWithReason
<1>4. CASE TaskCall \/ \E task \in Task : RequestStopStore(task)
  <2>1. CASE \/ \E d \in {-1, 1}, steps \in 1 .. MaxSteps, profiled \in BOOLEAN : StartJog(d, steps, profiled)
             \/ \E d \in {-1, 1} : StartEvent(d, 0, FALSE)
    BY <1>1, <2>1 DEF StartJog, StartEvent, StartArmed
  <2>2. CASE (\E task \in Task : RequestStopCheck(task)) \/ ArmReleaseStop \/ ArmHook
    BY <1>1, <2>2 DEF RequestStopCheck, ArmReleaseStop, ArmHook
  <2>3. CASE ClearFault
    BY <2>3 DEF ClearFault, RequestsOnly
  <2>4. CASE ReadyAfterHome
    BY <1>2, <2>4 DEF ReadyAfterHome
  <2>5. CASE \E task \in Task : RequestStopStore(task)
    BY <2>5 DEF RequestStopStore, RequestsOnly
  <2> QED
    BY <1>4, <2>1, <2>2, <2>3, <2>4, <2>5 DEF TaskCall
<1>5. CASE StartupInterrupt
  BY <1>1, <1>3, <1>5 DEF StartupInterrupt
<1>6. CASE StoppedBySwitch \/ StoppedByRequest \/ JogMissesDeadline
  BY <1>2, <1>3, <1>6 DEF StoppedBySwitch, StoppedByRequest, JogMissesDeadline
<1>7. CASE JogEnds
  <2> DEFINE limit == IF braking # None THEN braking ELSE LimitReached
  <2>1. StopWithReason(limit) \/ StopAxis("COMPLETE")
    BY <1>7 DEF JogEnds
  <2> QED
    BY <1>2, <1>3, <2>1
<1>8. CASE JogContinues
  BY <1>1, <1>8 DEF JogContinues
<1>9. ASSUME NEW d \in {-1, 1}, StreamContinues(d) PROVE RequestsOnly'
  <2>1. StopWithReason(LimitBlocks(NextPlace, d)) \/ UNCHANGED pendingStop
    BY <1>9 DEF StreamContinues
  <2> QED
    BY <1>1, <1>3, <2>1
<1>10. ASSUME NEW final \in {"COMPLETE"} \cup Faults, StreamEnds(final) PROVE RequestsOnly'
  BY <1>2, <1>10 DEF StreamEnds
<1>11. CASE UNCHANGED axisVars
  BY <1>1, <1>11 DEF axisVars
<1> QED
  BY <1>4, <1>5, <1>6, <1>7, <1>8, <1>9, <1>10, <1>11 DEF Next, Interrupt, JogInterrupt

\* What ZeroedOnStartSwitch says of one step.
ZeroesOnSwitch == zero' # zero => StartSwitchAt(zero') /\ zero' = place'

LEMMA LatchZeroesOnSwitch ==
  ASSUME NEW hook, NEW reason, Latch(hook, reason), reason = "START_LIMIT" => place' <= 0
  PROVE  ZeroesOnSwitch
  BY DEF Latch, HookRuns, ZeroesOnSwitch, StartSwitchAt

LEMMA InterruptZeroesOnSwitch ==
  ASSUME IInv, RequestsOnly, Interrupt
  PROVE  ZeroesOnSwitch
<1>1. place \in Int /\ direction \in {-1, 1}
  BY DEF IInv, TypeOK, AxisTypeOK, Place
<1>2. ASSUME Pulse
      PROVE  /\ NextPlace = place' /\ place' \in Int /\ status = "RUNNING"
             /\ LimitReached = "START_LIMIT" => place' <= 0
             /\ braking = "START_LIMIT" => place' <= 0
  <2>1. place' = place + direction /\ NextPlace = place' /\ place' \in Int /\ status = "RUNNING"
    BY <1>1, <1>2 DEF Pulse, Carries, NextPlace
  <2>2. LimitReached = "START_LIMIT" => place' <= 0
    BY <1>1, <2>1, LimitBlocksCases DEF LimitReached
  <2>3. braking = "START_LIMIT" => place' <= 0
    <3>1. braking = "START_LIMIT" => direction = -1 /\ place <= 0
      BY DEF IInv, BrakesInTime, BrakesForStart, None
    <3> QED
      BY <1>1, <2>1, <3>1
  <2> QED
    BY <2>1, <2>2, <2>3
<1>3. ASSUME UNCHANGED zero PROVE ZeroesOnSwitch
  BY <1>3 DEF ZeroesOnSwitch
<1>4. CASE StartupInterrupt
  <2>1. CASE StopWithReason(pendingStop) /\ pendingStop # None
    BY <2>1, LatchZeroesOnSwitch DEF StopWithReason, RequestsOnly
  <2>2. CASE StopWithReason(LimitBlocks(place, direction)) /\ place' = place
    <3>1. LimitBlocks(place, direction) = "START_LIMIT" => place' <= 0
      BY <1>1, <2>2, LimitBlocksCases
    <3> QED
      BY <2>2, <3>1, LatchZeroesOnSwitch DEF StopWithReason
  <2> QED
    BY <1>3, <1>4, <2>1, <2>2 DEF StartupInterrupt
<1>5. CASE StoppedBySwitch
  <2>1. Pulse /\ Latch(hookArmed, LimitReached)
    BY <1>5 DEF StoppedBySwitch, StopWithReason
  <2> QED
    BY <1>2, <2>1, LatchZeroesOnSwitch
<1>6. CASE StoppedByRequest \/ JogMissesDeadline
  <2>1. Pulse /\ (Latch(hookArmed, LatchedAtSpeed) \/ UNCHANGED zero)
    BY <1>6 DEF StoppedByRequest, JogMissesDeadline
  <2>2. LatchedAtSpeed = "START_LIMIT" => place' <= 0
    BY <1>2, <2>1 DEF LatchedAtSpeed, None
  <2> QED
    BY <1>3, <2>1, <2>2, LatchZeroesOnSwitch
<1>7. CASE JogEnds
  <2> DEFINE limit == IF braking # None THEN braking ELSE LimitReached
  <2>1. Pulse /\ (Latch(hookArmed, limit) \/ UNCHANGED zero)
    BY <1>7 DEF JogEnds, StopWithReason
  <2>2. limit = "START_LIMIT" => place' <= 0
    BY <1>2, <2>1
  <2> QED
    BY <1>3, <2>1, <2>2, LatchZeroesOnSwitch
<1>8. CASE JogContinues
  <2>1. Pulse /\ (Latch(hookArmed, LimitReached) \/ UNCHANGED zero)
    BY <1>8 DEF JogContinues
  <2> QED
    BY <1>2, <1>3, <2>1, LatchZeroesOnSwitch
<1>9. ASSUME NEW d \in {-1, 1}, StreamContinues(d) PROVE ZeroesOnSwitch
  <2>1. Pulse /\ (Latch(hookArmed, LimitBlocks(NextPlace, d)) \/ UNCHANGED zero)
    BY <1>9 DEF StreamContinues, StopWithReason
  <2>2. LimitBlocks(NextPlace, d) = "START_LIMIT" => place' <= 0
    BY <1>2, <2>1, LimitBlocksCases
  <2> QED
    BY <1>3, <2>1, <2>2, LatchZeroesOnSwitch
<1>10. ASSUME NEW final \in {"COMPLETE"} \cup Faults, StreamEnds(final) PROVE ZeroesOnSwitch
  BY <1>3, <1>10 DEF StreamEnds
<1> QED
  BY <1>4, <1>5, <1>6, <1>7, <1>8, <1>9, <1>10 DEF Interrupt, JogInterrupt

LEMMA TaskCallZeroesOnSwitch ==
  ASSUME IInv, TaskCall \/ \E task \in Task : RequestStopStore(task)
  PROVE  ZeroesOnSwitch
<1>1. place \in Int
  BY DEF IInv, TypeOK, AxisTypeOK, Place
<1>2. ASSUME NEW d \in {-1, 1}, NEW steps, NEW profiled, StartEvent(d, steps, profiled)
      PROVE  ZeroesOnSwitch
  <2>1. place' = place /\ (Latch(hookArmed, LimitBlocks(place, d)) \/ UNCHANGED zero)
    BY <1>2 DEF StartEvent, StartArmed
  <2>2. LimitBlocks(place, d) = "START_LIMIT" => place' <= 0
    BY <1>1, <2>1, LimitBlocksCases
  <2> QED
    BY <2>1, <2>2, LatchZeroesOnSwitch DEF ZeroesOnSwitch
<1>3. CASE \E d \in {-1, 1}, steps \in 1 .. MaxSteps, profiled \in BOOLEAN : StartJog(d, steps, profiled)
  BY <1>2, <1>3 DEF StartJog
<1>4. CASE \E d \in {-1, 1} : StartEvent(d, 0, FALSE)
  BY <1>2, <1>4
<1>5. CASE UNCHANGED zero
  BY <1>5 DEF ZeroesOnSwitch
<1> QED
  BY <1>3, <1>4, <1>5
     DEF TaskCall, RequestStopCheck, RequestStopStore, ArmReleaseStop, ArmHook, ClearFault, ReadyAfterHome

\* The hook armed for the start switch zeroes the scale at the place where the switch is
\* met, and nothing else moves the zero: no stop request, reversal, fault or end switch
\* makes the scale count from a place off the start switch.
THEOREM ScaleZeroesOnStartSwitch == Spec => ZeroedOnStartSwitch
<1>1. Init => RequestsOnly
  BY DEF Init, AxisInit, RequestsOnly
<1>2. IInv /\ RequestsOnly /\ [Next]_axisVars => [ZeroesOnSwitch]_axisVars
  BY InterruptZeroesOnSwitch, TaskCallZeroesOnSwitch DEF Next
<1> QED
  BY <1>1, <1>2, NextKeepsRequestsOnly, IInvHolds, PTL DEF Spec, ZeroedOnStartSwitch, ZeroesOnSwitch
=============================================================================
