------------------------ MODULE MotionPipelineProofs ------------------------
(***************************************************************************)
(* Proofs about the pipeline: no buffer of it overflows, StepGeneratorTask *)
(* resets only while X rests, and a homed X stands where MotionTask        *)
(* believes it to stand.                                                   *)
(*                                                                         *)
(* The inductive invariant has five parts beside the types: what holds of  *)
(* the axis alone, what each homing move is sure of while it runs, where   *)
(* the events and blocks under way lead, what STOP has dropped, and that   *)
(* only a homed X runs planned moves.                                      *)
(***************************************************************************)
EXTENDS MotionPipeline, TLAPS

\* The axis alone: tasks ask for plain stops only, a move that does not brake runs
\* free of the switches, only a jog brakes, and an axis that stopped for the start
\* switch stands on it.
AxisOK ==
  /\ AxisTypeOK /\ requesting \subseteq {"command", "motion"}
  /\ pendingStop \in {None, "REQUEST"}
  /\ IsActive /\ braking = None => LimitBlocks(place, direction) = None
  /\ braking # None => status = "RUNNING" /\ IsJog
  /\ braking = "START_LIMIT" => direction = -1 /\ place <= 0
  /\ EndedBy("START_LIMIT") => place <= 0

USE EndSwitchAssumption, BrakeAssumption DEF EndSwitchAssumption, BrakeAssumption

-----------------------------------------------------------------------------
(* One axis. *)

LEMMA LimitBlocksCases ==
  ASSUME NEW p \in Int, NEW d \in {-1, 1}
  PROVE  /\ LimitBlocks(p, d) \in {None, "START_LIMIT", "END_LIMIT"}
         /\ LimitBlocks(p, d) = "START_LIMIT" <=> (d = -1 /\ p <= 0)
         /\ LimitBlocks(p, d) = "END_LIMIT" <=> (d = 1 /\ p >= EndSwitch)
         /\ LimitBlocks(p, d) = None <=> ((d = -1 => p > 0) /\ (d = 1 => p < EndSwitch))
  BY DEF LimitBlocks, StartSwitchAt, EndSwitchAt, None

LEMMA AxisTypes ==
  ASSUME AxisOK
  PROVE  /\ place \in Int /\ zero \in Int /\ direction \in {-1, 1} /\ stepsLeft \in Nat
         /\ status \in {"READY", "STARTING", "RUNNING", "COMPLETE", "STOPPED",
                        "FAULT_UNDERRUN", "FAULT_EVENT", "FAULT_TIMING"}
  BY DEF AxisOK, AxisTypeOK, Place, Status, Faults, ActiveStatuses, StartableStatuses

\* Which statuses are which.
LEMMA StatusCases ==
  /\ "READY" \in StartableStatuses /\ "COMPLETE" \in StartableStatuses /\ "STOPPED" \in StartableStatuses
  /\ "STARTING" \in ActiveStatuses /\ "RUNNING" \in ActiveStatuses
  /\ \A s \in StartableStatuses : s \notin ActiveStatuses /\ s \notin Faults /\ s \in Status
  /\ \A s \in Faults : s \notin ActiveStatuses /\ s \in Status /\ s \notin {"READY", "COMPLETE", "STOPPED"}
  /\ \A s \in ActiveStatuses : s \in Status /\ s \notin {"READY", "COMPLETE", "STOPPED"}
  BY DEF StartableStatuses, ActiveStatuses, Faults, Status

\* What a pulse of a moving axis does to its place.
LEMMA PulseMoves ==
  ASSUME AxisOK, Pulse
  PROVE  /\ status = "RUNNING" /\ IsActive /\ ~IsFault
         /\ place' = place + direction /\ place' \in Place /\ NextPlace = place'
         /\ LimitReached \in {None, "START_LIMIT", "END_LIMIT"}
         /\ LimitReached = "START_LIMIT" <=> (direction = -1 /\ place' <= 0)
         /\ (braking = None /\ LimitReached = "START_LIMIT") => place' = 0
<1>1. place \in Int /\ direction \in {-1, 1}
  BY AxisTypes
<1>2. status = "RUNNING" /\ place' = place + direction /\ place' \in Place /\ NextPlace = place'
  BY DEF Pulse, Carries, NextPlace
<1>3. IsActive /\ ~IsFault
  BY <1>2, StatusCases DEF IsActive, IsFault
<1>4. place' \in Int
  BY <1>1, <1>2
<1>5. /\ LimitReached \in {None, "START_LIMIT", "END_LIMIT"}
      /\ LimitReached = "START_LIMIT" <=> (direction = -1 /\ place' <= 0)
  BY <1>1, <1>2, <1>4, LimitBlocksCases DEF LimitReached
<1>6. ASSUME braking = None, LimitReached = "START_LIMIT"
      PROVE  place' = 0
  <2>1. LimitBlocks(place, direction) = None
    BY <1>3, <1>6 DEF AxisOK
  <2>2. direction = -1 /\ place' <= 0 /\ place > 0
    BY <1>1, <1>5, <1>6, <2>1, LimitBlocksCases
  <2> QED
    BY <1>1, <1>2, <2>2
<1> QED
  BY <1>2, <1>3, <1>5, <1>6

\* Every stop of a moving axis leaves it at rest, nothing braking, armed or asked for.
LEMMA StopLeavesAxisOK ==
  ASSUME AxisOK, ~IsFault, NEW final \in Status \ ActiveStatuses, StopAxis(final),
         place' \in Place, zero' \in Place, stopReason' \in StopReasons \cup {None},
         final = "STOPPED" /\ stopReason' = "START_LIMIT" => place' <= 0
  PROVE  AxisOK' /\ status' = final /\ ~IsActive' /\ ~hookArmed' /\ stepsLeft' = 0
         /\ direction' = direction
<1>1. /\ status' = final /\ stepsLeft' = 0 /\ pendingStop' = None /\ braking' = None
      /\ releaseArmed' = FALSE /\ hookArmed' = FALSE
      /\ UNCHANGED <<direction, fast, requesting>>
  BY DEF StopAxis
<1>2. AxisTypeOK'
  BY <1>1 DEF AxisOK, AxisTypeOK
<1>3. ~IsActive'
  BY <1>1 DEF IsActive
<1>4. braking' # "START_LIMIT"
  BY <1>1 DEF None
<1>5. requesting' \subseteq {"command", "motion"}
  BY <1>1 DEF AxisOK
<1>6. EndedBy("START_LIMIT")' => place' <= 0
  BY <1>1 DEF EndedBy
<1> QED
  BY <1>1, <1>2, <1>3, <1>4, <1>5, <1>6 DEF AxisOK

\* An interrupt that ends the move.  The hook zeroes the scale where the start
\* switch stops the move; one that runs there without braking is stopped on its edge.
Ends ==
  /\ IsActive /\ ~IsActive' /\ ~hookArmed' /\ stepsLeft' = 0
  /\ status' \notin {"READY", "STARTING", "RUNNING"}
  /\ place' \in {place, place + direction}
  /\ zero' # zero => hookArmed
  /\ EndedBy("START_LIMIT")' =>
       /\ braking = None /\ direction = -1 => place' = 0
       /\ hookArmed => zero' = place'

\* A jog that completed ran out of steps free of the switches.
JogCompletes ==
  /\ stepsLeft = 1 /\ NoStopDue /\ braking = None
  /\ place' = place + direction /\ LimitReached = None

\* A step in the middle of a jog.
Continues ==
  /\ status = "RUNNING" /\ UNCHANGED <<status, direction, fast, stopReason, releaseArmed>>
  /\ place' = place + direction /\ stepsLeft > 1 /\ NoStopDue
  /\ \/ /\ braking # None \/ LimitReached = None
        /\ stepsLeft' = stepsLeft - 1
        /\ UNCHANGED <<braking, hookArmed, zero>>
     \/ /\ braking = None /\ LimitReached # None /\ BrakingSteps \ {0} # {}
        /\ stepsLeft' > 0 /\ braking' # None /\ ~hookArmed'

\* The start-up delays are over.
Runs ==
  /\ status = "STARTING" /\ status' = "RUNNING"
  /\ UNCHANGED <<direction, stepsLeft, fast, pendingStop, stopReason, braking,
                 releaseArmed, hookArmed, place, zero, requesting>>

LEMMA StopWithReasonEnds ==
  ASSUME AxisOK, IsActive, NEW reason \in StopReasons, StopWithReason(reason),
         place' \in Place, place' \in {place, place + direction},
         reason = "START_LIMIT" => place' <= 0 /\ (braking = None /\ direction = -1 => place' = 0)
  PROVE  AxisOK' /\ Ends /\ status' = "STOPPED"
<1>1. ~IsFault
  BY AxisTypes, StatusCases DEF IsActive, IsFault
<1>2. stopReason' = reason /\ StopAxis("STOPPED")
      /\ zero' = IF hookArmed /\ reason = "START_LIMIT" THEN place' ELSE zero
  BY DEF StopWithReason, Latch, HookRuns
<1>3. zero' \in Place
  BY <1>2 DEF AxisOK, AxisTypeOK
<1>4. "STOPPED" \in Status \ ActiveStatuses
  BY StatusCases
<1>5. AxisOK' /\ status' = "STOPPED" /\ ~IsActive' /\ ~hookArmed' /\ stepsLeft' = 0
  BY <1>1, <1>2, <1>3, <1>4, StopLeavesAxisOK
<1> QED
  BY <1>2, <1>5 DEF Ends, EndedBy

LEMMA StartupOutcome ==
  ASSUME AxisOK, StartupInterrupt
  PROVE  AxisOK' /\ (Runs \/ (Ends /\ status' = "STOPPED"))
<1>1. /\ status = "STARTING" /\ place' = place /\ IsActive /\ braking = None
      /\ place \in Int /\ direction \in {-1, 1}
  BY AxisTypes, StatusCases DEF StartupInterrupt, IsActive, AxisOK
<1>2. LimitBlocks(place, direction) = None
  BY <1>1 DEF AxisOK
<1>3. CASE pendingStop # None /\ StopWithReason(pendingStop)
  <2>1. pendingStop = "REQUEST" /\ pendingStop \in StopReasons /\ place' \in Place
    BY <1>1, <1>3 DEF AxisOK, AxisTypeOK, StopReasons
  <2> QED
    BY <1>1, <1>3, <2>1, StopWithReasonEnds
<1>4. CASE /\ status' = "RUNNING"
           /\ UNCHANGED <<direction, stepsLeft, fast, pendingStop, stopReason, braking,
                          releaseArmed, hookArmed, zero, requesting>>
  <2>1. AxisTypeOK'
    BY <1>1, <1>4, StatusCases DEF AxisOK, AxisTypeOK
  <2>2. ~EndedBy("START_LIMIT")'
    BY <1>4 DEF EndedBy
  <2>3. LimitBlocks(place, direction)' = None
    BY <1>1, <1>2, <1>4 DEF LimitBlocks, StartSwitchAt, EndSwitchAt
  <2>4. AxisOK'
    BY <1>1, <1>4, <2>1, <2>2, <2>3 DEF AxisOK, None
  <2> QED
    BY <1>1, <1>4, <2>4 DEF Runs
<1> QED
  BY <1>2, <1>3, <1>4 DEF StartupInterrupt

LEMMA StopsOutcome ==
  ASSUME AxisOK, StoppedBySwitch \/ StoppedByRequest
  PROVE  AxisOK' /\ Ends /\ status' = "STOPPED"
<1>1. CASE StoppedBySwitch
  <2>1. Pulse /\ LimitReached # None /\ StopWithReason(LimitReached) /\ braking = None
    BY <1>1 DEF StoppedBySwitch
  <2>2. LimitReached \in StopReasons
    BY <2>1, PulseMoves DEF StopReasons, LimitReasons
  <2> QED
    BY <2>1, <2>2, PulseMoves, StopWithReasonEnds
<1>2. CASE StoppedByRequest
  <2>1. Pulse /\ StopAxis("STOPPED") /\ stopReason' \in {"REQUEST", "START_LIMIT_RELEASE"}
    BY <1>2 DEF StoppedByRequest, AxisOK
  <2>2. /\ IsActive /\ ~IsFault /\ place' \in Place /\ place' = place + direction
    BY <2>1, PulseMoves
  <2>3. zero' \in {zero, place'} /\ (zero' # zero => hookArmed)
    BY <1>2 DEF StoppedByRequest, Latch, HookRuns
  <2>4. zero' \in Place
    BY <2>2, <2>3 DEF AxisOK, AxisTypeOK
  <2>5. "STOPPED" \in Status \ ActiveStatuses /\ stopReason' \in StopReasons /\ stopReason' # "START_LIMIT"
    BY <2>1, StatusCases DEF StopReasons
  <2>6. AxisOK' /\ status' = "STOPPED" /\ ~IsActive' /\ ~hookArmed' /\ stepsLeft' = 0
    BY <2>1, <2>2, <2>4, <2>5, StopLeavesAxisOK
  <2>7. ~EndedBy("START_LIMIT")'
    BY <2>5 DEF EndedBy
  <2> QED
    BY <2>2, <2>3, <2>6, <2>7 DEF Ends
<1> QED
  BY <1>1, <1>2

LEMMA JogEndsOutcome ==
  ASSUME AxisOK, JogEnds
  PROVE  AxisOK' /\ Ends /\ (status' = "COMPLETE" => JogCompletes)
<1> DEFINE limit == IF braking # None THEN braking ELSE LimitReached
<1>1. Pulse /\ NoStopDue /\ stepsLeft = 1
  BY DEF JogEnds
<1>2. IsActive /\ ~IsFault /\ place' \in Place /\ place' = place + direction /\ place \in Int
      /\ direction \in {-1, 1}
  BY <1>1, PulseMoves, AxisTypes
<1>3. CASE limit # None
  <2>1. StopWithReason(limit)
    BY <1>3 DEF JogEnds
  <2>2. limit \in LimitReasons
    BY <1>1, <1>3, PulseMoves DEF AxisOK, AxisTypeOK, LimitReasons
  <2>3. limit = "START_LIMIT" => place' <= 0 /\ (braking = None /\ direction = -1 => place' = 0)
    <3>1. CASE braking = None
      BY <1>1, <1>2, <3>1, PulseMoves
    <3>2. CASE braking # None
      <4>1. braking = limit /\ place' \in Int
        BY <1>2, <3>2
      <4>2. ASSUME limit = "START_LIMIT" PROVE place' <= 0
        <5>1. place <= 0 /\ direction = -1
          BY <4>1, <4>2 DEF AxisOK
        <5> QED
          BY <1>2, <5>1
      <4> QED
        BY <3>2, <4>2
    <3> QED
      BY <3>1, <3>2
  <2> QED
    BY <1>2, <2>1, <2>2, <2>3, StopWithReasonEnds DEF StopReasons
<1>4. CASE limit = None
  <2>1. StopAxis("COMPLETE") /\ UNCHANGED <<stopReason, zero>>
    BY <1>4 DEF JogEnds
  <2>2. zero' \in Place /\ stopReason' \in StopReasons \cup {None} /\ "COMPLETE" \in Status \ ActiveStatuses
    BY <2>1, StatusCases DEF AxisOK, AxisTypeOK
  <2>3. AxisOK' /\ status' = "COMPLETE" /\ ~IsActive' /\ ~hookArmed' /\ stepsLeft' = 0
    BY <1>2, <2>1, <2>2, StopLeavesAxisOK
  <2>4. ~EndedBy("START_LIMIT")'
    BY <2>3 DEF EndedBy
  <2>5. braking = None /\ LimitReached = None
    BY <1>4
  <2> QED
    BY <1>1, <1>2, <2>1, <2>3, <2>4, <2>5 DEF Ends, JogCompletes
<1> QED
  BY <1>3, <1>4

LEMMA JogMissesDeadlineOutcome ==
  ASSUME AxisOK, JogMissesDeadline
  PROVE  AxisOK' /\ Ends /\ status' = "FAULT_TIMING"
<1>1. Pulse /\ StopAxis("FAULT_TIMING") /\ UNCHANGED stopReason /\ Latch(hookArmed, LatchedAtSpeed)
  BY DEF JogMissesDeadline
<1>2. IsActive /\ ~IsFault /\ place' \in Place /\ place' = place + direction
  BY <1>1, PulseMoves
<1>3. zero' \in {zero, place'} /\ (zero' # zero => hookArmed)
  BY <1>1 DEF Latch, HookRuns
<1>4. zero' \in Place /\ stopReason' \in StopReasons \cup {None}
      /\ "FAULT_TIMING" \in Status \ ActiveStatuses
  BY <1>1, <1>2, <1>3, StatusCases DEF AxisOK, AxisTypeOK, Faults
<1>5. AxisOK' /\ status' = "FAULT_TIMING" /\ ~IsActive' /\ ~hookArmed' /\ stepsLeft' = 0
  BY <1>1, <1>2, <1>4, StopLeavesAxisOK
<1>6. ~EndedBy("START_LIMIT")'
  BY <1>5 DEF EndedBy
<1> QED
  BY <1>2, <1>3, <1>5, <1>6 DEF Ends

LEMMA BrakingStepsRange ==
  /\ BrakingSteps \subseteq 0 .. MaxBrake
  /\ ~fast => BrakingSteps \ {0} = {}
  BY DEF BrakingSteps

LEMMA JogContinuesOutcome ==
  ASSUME AxisOK, JogContinues
  PROVE  AxisOK' /\ Continues
<1>1. /\ Pulse /\ NoStopDue /\ stepsLeft > 1
      /\ UNCHANGED <<status, direction, fast, pendingStop, stopReason, releaseArmed, requesting>>
  BY DEF JogContinues
<1>2. /\ status = "RUNNING" /\ place' \in Place /\ place' = place + direction /\ NextPlace = place'
      /\ place \in Int /\ place' \in Int /\ direction \in {-1, 1} /\ stepsLeft \in Nat
      /\ IsActive /\ LimitReached \in {None, "START_LIMIT", "END_LIMIT"}
      /\ LimitReached = "START_LIMIT" <=> (direction = -1 /\ place' <= 0)
  BY <1>1, PulseMoves, AxisTypes
<1>3. ~EndedBy("START_LIMIT")' /\ IsActive'
  BY <1>1, <1>2, StatusCases DEF EndedBy, IsActive
<1>4. CASE /\ braking # None \/ LimitReached = None
           /\ stepsLeft' = stepsLeft - 1
           /\ UNCHANGED <<braking, hookArmed, zero>>
  <2>1. AxisTypeOK' /\ stepsLeft' # 0
    BY <1>1, <1>2, <1>4 DEF AxisOK, AxisTypeOK
  <2>2. braking = None => LimitBlocks(place, direction)' = None
    BY <1>1, <1>2, <1>4 DEF LimitReached, LimitBlocks, StartSwitchAt, EndSwitchAt
  <2>3. braking' = "START_LIMIT" => direction' = -1 /\ place' <= 0
    BY <1>1, <1>2, <1>4 DEF AxisOK
  <2>4. AxisOK'
    BY <1>1, <1>2, <1>3, <1>4, <2>1, <2>2, <2>3 DEF AxisOK, IsJog
  <2> QED
    BY <1>1, <1>2, <1>4, <2>4 DEF Continues
<1>5. CASE /\ braking = None /\ LimitReached # None
           /\ \E steps \in BrakingSteps \ {0} : stepsLeft' = Shortened(stepsLeft - 1, steps)
           /\ braking' = LimitReached
           /\ Latch(hookArmed, LimitReached)
           /\ hookArmed' = FALSE
  <2>1. stepsLeft' \in Nat /\ stepsLeft' > 0 /\ BrakingSteps \ {0} # {}
    <3>1. PICK steps \in BrakingSteps \ {0} : stepsLeft' = Shortened(stepsLeft - 1, steps)
      BY <1>5
    <3>2. steps \in 1 .. MaxBrake
      BY <3>1, BrakingStepsRange
    <3> QED
      BY <1>1, <1>2, <3>1, <3>2 DEF Shortened, Smaller
  <2>2. zero' \in Place
    BY <1>2, <1>5 DEF Latch, AxisOK, AxisTypeOK
  <2>3. braking' \in LimitReasons /\ braking' # None
    BY <1>2, <1>5 DEF LimitReasons
  <2>4. AxisTypeOK'
    BY <1>1, <1>2, <1>5, <2>1, <2>2, <2>3 DEF AxisOK, AxisTypeOK
  <2>5. braking' = "START_LIMIT" => direction' = -1 /\ place' <= 0
    BY <1>1, <1>2, <1>5
  <2>6. AxisOK'
    BY <1>1, <1>2, <1>3, <2>1, <2>3, <2>4, <2>5 DEF AxisOK, IsJog
  <2> QED
    BY <1>1, <1>2, <1>5, <2>1, <2>3, <2>6 DEF Continues
<1> QED
  BY <1>4, <1>5 DEF JogContinues

\* All the interrupts that take no event of the stream.
LEMMA JogInterruptOutcome ==
  ASSUME AxisOK, JogInterrupt
  PROVE  /\ AxisOK'
         /\ \/ Runs
            \/ Ends /\ (status' = "COMPLETE" => JogCompletes)
            \/ Continues
<1>1. "STOPPED" # "COMPLETE" /\ "FAULT_TIMING" # "COMPLETE"
  OBVIOUS
<1> QED
  BY <1>1, StartupOutcome, StopsOutcome, JogEndsOutcome, JogMissesDeadlineOutcome, JogContinuesOutcome DEF JogInterrupt

\* The stream: an event that goes on, or the last one.
LEMMA StreamContinuesOutcome ==
  ASSUME AxisOK, NEW d \in {-1, 1}, StreamContinues(d)
  PROVE  /\ AxisOK' /\ Pulse /\ ~IsJog /\ place' = place + direction
         /\ \/ Ends /\ status' = "STOPPED"
            \/ /\ direction' = d
               /\ UNCHANGED <<status, stepsLeft, fast, stopReason, braking, releaseArmed, hookArmed, zero>>
<1>1. Pulse /\ ~IsJog /\ LimitReached = None /\ NoStopDue
  BY DEF StreamContinues
<1>2. /\ status = "RUNNING" /\ place' \in Place /\ place' = place + direction /\ NextPlace = place'
      /\ place \in Int /\ place' \in Int /\ direction \in {-1, 1} /\ IsActive
  BY <1>1, PulseMoves, AxisTypes
<1>3. braking = None
  BY <1>1 DEF AxisOK
<1>4. CASE LimitBlocks(NextPlace, d) # None
  <2> DEFINE limit == LimitBlocks(NextPlace, d)
  <2>1. StopWithReason(limit)
    BY <1>4 DEF StreamContinues
  <2>2. limit \in StopReasons /\ (limit = "START_LIMIT" => place' <= 0)
    BY <1>2, <1>4, LimitBlocksCases DEF StopReasons, LimitReasons
  <2>3. direction = -1 => place' > 0
    BY <1>1, <1>2, LimitBlocksCases DEF LimitReached
  <2> QED
    BY <1>1, <1>2, <2>1, <2>2, <2>3, StopWithReasonEnds
<1>5. CASE LimitBlocks(NextPlace, d) = None
  <2>1. /\ direction' = d
        /\ UNCHANGED <<status, stepsLeft, fast, pendingStop, stopReason, braking,
                       releaseArmed, hookArmed, zero, requesting>>
    BY <1>5 DEF StreamContinues
  <2>2. AxisTypeOK'
    BY <1>2, <2>1 DEF AxisOK, AxisTypeOK
  <2>3. ~EndedBy("START_LIMIT")' /\ LimitBlocks(place, direction)' = None
    BY <1>2, <1>5, <2>1 DEF EndedBy, LimitBlocks, StartSwitchAt, EndSwitchAt
  <2>4. AxisOK'
    BY <1>3, <2>1, <2>2, <2>3 DEF AxisOK, None
  <2> QED
    BY <1>1, <1>2, <2>1, <2>4
<1> QED
  BY <1>4, <1>5

LEMMA StreamEndsOutcome ==
  ASSUME AxisOK, NEW final \in {"COMPLETE"} \cup Faults, StreamEnds(final)
  PROVE  AxisOK' /\ Ends /\ status' = final /\ Pulse /\ ~IsJog /\ place' = place + direction /\ zero' = zero
<1>1. Pulse /\ ~IsJog /\ StopAxis(final) /\ UNCHANGED <<stopReason, zero>>
  BY DEF StreamEnds
<1>2. IsActive /\ ~IsFault /\ place' \in Place /\ place' = place + direction
  BY <1>1, PulseMoves
<1>3. /\ final \in Status \ ActiveStatuses /\ zero' \in Place /\ stopReason' \in StopReasons \cup {None}
      /\ final \notin {"READY", "STARTING", "RUNNING", "STOPPED"}
  BY <1>1, StatusCases DEF AxisOK, AxisTypeOK, Faults
<1>4. AxisOK' /\ status' = final /\ ~IsActive' /\ ~hookArmed' /\ stepsLeft' = 0
  BY <1>1, <1>2, <1>3, StopLeavesAxisOK
<1>5. ~EndedBy("START_LIMIT")'
  BY <1>3, <1>4 DEF EndedBy
<1> QED
  BY <1>1, <1>2, <1>3, <1>4, <1>5 DEF Ends

\* A start, which a switch may block at once.
Blocked(d, hook) ==
  /\ status' = "STOPPED" /\ stepsLeft' = 0 /\ ~hookArmed'
  /\ stopReason' = LimitBlocks(place, d) /\ stopReason' # None
  /\ zero' = IF HookRuns(hook, LimitBlocks(place, d)) THEN place ELSE zero

Starts(d, steps, profiled, release, hook) ==
  /\ LimitBlocks(place, d) = None
  /\ status' = "STARTING" /\ stopReason' = None
  /\ direction' = d /\ stepsLeft' = steps /\ fast' = profiled /\ braking' = None
  /\ releaseArmed' = release /\ hookArmed' = hook
  /\ zero' = zero

LEMMA StartOutcome ==
  ASSUME AxisOK, NEW d \in {-1, 1}, NEW steps \in Nat, NEW profiled \in BOOLEAN,
         NEW release \in BOOLEAN, NEW hook \in BOOLEAN, StartArmed(d, steps, profiled, release, hook)
  PROVE  /\ AxisOK' /\ CanStart /\ place' = place
         /\ Blocked(d, hook) \/ Starts(d, steps, profiled, release, hook)
<1>1. CanStart /\ place' = place /\ releaseArmed' = release /\ UNCHANGED <<pendingStop, requesting>>
  BY DEF StartArmed
<1>2. /\ status # "RUNNING" /\ braking = None /\ place \in Int /\ place' \in Place
  BY <1>1, AxisTypes, StatusCases DEF CanStart, AxisOK, AxisTypeOK
<1>3. CASE LimitBlocks(place, d) # None
  <2>1. /\ status' = "STOPPED" /\ stopReason' = LimitBlocks(place, d)
        /\ zero' = (IF HookRuns(hook, LimitBlocks(place, d)) THEN place' ELSE zero) /\ hookArmed' = FALSE
        /\ stepsLeft' = 0
        /\ UNCHANGED <<direction, fast, braking>>
    BY <1>3 DEF StartArmed, Latch
  <2>2. /\ stopReason' \in StopReasons /\ zero' \in Place
        /\ stopReason' = "START_LIMIT" => place <= 0
    BY <1>2, <1>3, <2>1, LimitBlocksCases DEF StopReasons, LimitReasons, AxisOK, AxisTypeOK
  <2>3. AxisTypeOK'
    BY <1>1, <1>2, <2>1, <2>2, StatusCases DEF AxisOK, AxisTypeOK
  <2>4. ~IsActive'
    BY <2>1, StatusCases DEF IsActive
  <2>5. AxisOK'
    BY <1>1, <1>2, <2>1, <2>2, <2>3, <2>4 DEF AxisOK, EndedBy, None
  <2> QED
    BY <1>1, <1>3, <2>1, <2>5 DEF Blocked
<1>4. CASE LimitBlocks(place, d) = None
  <2>1. /\ status' = "STARTING" /\ stopReason' = None
        /\ direction' = d /\ stepsLeft' = steps /\ fast' = profiled
        /\ braking' = None
        /\ hookArmed' = hook
        /\ UNCHANGED zero
    BY <1>4 DEF StartArmed
  <2>2. AxisTypeOK'
    BY <1>1, <1>2, <2>1, StatusCases DEF AxisOK, AxisTypeOK
  <2>3. LimitBlocks(place, direction)' = None
    BY <1>1, <1>4, <2>1 DEF LimitBlocks, StartSwitchAt, EndSwitchAt
  <2>4. AxisOK'
    BY <1>1, <2>1, <2>2, <2>3 DEF AxisOK, EndedBy, None
  <2> QED
    BY <1>1, <1>4, <2>1, <2>4 DEF Starts
<1> QED
  BY <1>3, <1>4

\* The calls that leave the motion alone.
LEMMA QuietCallKeepsAxisOK ==
  ASSUME AxisOK,
         UNCHANGED <<status, direction, stepsLeft, fast, stopReason, braking, place, zero>>,
         pendingStop' \in {None, "REQUEST"}, releaseArmed' \in BOOLEAN, hookArmed' \in BOOLEAN,
         requesting' \subseteq {"command", "motion"}
  PROVE  AxisOK' /\ IsActive' = IsActive
<1>1. AxisTypeOK'
  BY DEF AxisOK, AxisTypeOK, StopReasons
<1>2. LimitBlocks(place, direction)' = LimitBlocks(place, direction)
  BY DEF LimitBlocks, StartSwitchAt, EndSwitchAt
<1>3. IsActive' = IsActive
  BY DEF IsActive
<1> QED
  BY <1>1, <1>2, <1>3 DEF AxisOK, EndedBy, IsJog

LEMMA RequestKeepsAxisOK ==
  ASSUME AxisOK, NEW task \in {"command", "motion"}, RequestStopCheck(task) \/ RequestStopStore(task)
  PROVE  /\ AxisOK' /\ IsActive' = IsActive
         /\ UNCHANGED <<status, direction, stepsLeft, fast, stopReason, braking,
                        releaseArmed, hookArmed, place, zero>>
<1>1. UNCHANGED <<status, direction, stepsLeft, fast, stopReason, braking, releaseArmed, hookArmed, place, zero>>
  BY DEF RequestStopCheck, RequestStopStore
<1>2. pendingStop' \in {None, "REQUEST"} /\ requesting' \subseteq {"command", "motion"}
  BY DEF RequestStopCheck, RequestStopStore, AxisOK
<1>3. releaseArmed' \in BOOLEAN /\ hookArmed' \in BOOLEAN
  BY <1>1 DEF AxisOK, AxisTypeOK
<1> QED
  BY <1>1, <1>2, <1>3, QuietCallKeepsAxisOK

LEMMA DisarmKeepsAxisOK ==
  ASSUME AxisOK, Disarm
  PROVE  /\ AxisOK' /\ IsActive' = IsActive /\ ~hookArmed'
         /\ UNCHANGED <<status, direction, stepsLeft, fast, stopReason, braking, place, zero>>
<1>1. UNCHANGED <<status, direction, stepsLeft, fast, pendingStop, stopReason, braking, place, zero, requesting>>
  BY DEF Disarm
<1>2. releaseArmed' = FALSE /\ hookArmed' = FALSE
  BY DEF Disarm
<1>3. pendingStop' \in {None, "REQUEST"} /\ requesting' \subseteq {"command", "motion"}
  BY <1>1 DEF AxisOK
<1> QED
  BY <1>1, <1>2, <1>3, QuietCallKeepsAxisOK

LEMMA RecoveryKeepsAxisOK ==
  ASSUME AxisOK, ClearFault \/ ReadyAfterHome
  PROVE  /\ AxisOK' /\ status' = "READY" /\ ~IsActive' /\ ~hookArmed' /\ stepsLeft' = 0
         /\ UNCHANGED <<place, zero, direction>>
<1>1. /\ status' = "READY" /\ stepsLeft' = 0 /\ pendingStop' = None /\ braking' = None
      /\ releaseArmed' = FALSE /\ hookArmed' = FALSE
      /\ UNCHANGED <<direction, fast, stopReason, place, zero, requesting>>
  BY StatusCases DEF ClearFault, ReadyAfterHome, StopAxis, IsFault
<1>2. AxisTypeOK' /\ ~IsActive'
  BY <1>1, StatusCases DEF AxisOK, AxisTypeOK, IsActive
<1> QED
  BY <1>1, <1>2 DEF AxisOK, EndedBy, None

LEMMA AxisStutters ==
  ASSUME AxisOK, UNCHANGED axisVars
  PROVE  AxisOK'
<1>1. /\ UNCHANGED <<status, direction, stepsLeft, fast, pendingStop, stopReason, braking>>
      /\ UNCHANGED <<releaseArmed, hookArmed, place, zero, requesting>>
  BY DEF axisVars
<1>2. pendingStop' \in {None, "REQUEST"} /\ releaseArmed' \in BOOLEAN /\ hookArmed' \in BOOLEAN
      /\ requesting' \subseteq {"command", "motion"}
  BY <1>1 DEF AxisOK, AxisTypeOK
<1> QED
  BY <1>1, <1>2, QuietCallKeepsAxisOK

-----------------------------------------------------------------------------
(* Homing. *)

\* A fast seek runs to the start switch with steps enough to reach it, ...
SeekOK ==
  homePhase = "FAST_SEEK" /\ IsActive =>
    IsJog /\ direction = -1 /\ (braking = None => place > 0 /\ stepsLeft >= place)

\* a backoff away from it until the release stops it, ...
BackoffOK ==
  homePhase = "BACKOFF" /\ IsActive =>
    direction = 1 /\ releaseArmed /\ braking = None /\ place <= 0 /\ stepsLeft >= 1 - place

\* and an approach meets the edge of the switch, where its hook zeroes the scale.
ApproachOK ==
  homePhase = "APPROACH" =>
    /\ IsActive => /\ hookArmed /\ ~fast /\ direction = -1 /\ braking = None
                   /\ place > 0 /\ stepsLeft >= place
    /\ EndedBy("START_LIMIT") => place = 0 /\ zero = 0

\* No homing move completes, so no stream can start between two of them.
HomingOK ==
  /\ homePhase # "IDLE" => ~homed /\ status \notin {"READY", "COMPLETE"}
  /\ SeekOK /\ BackoffOK /\ ApproachOK
  /\ motionStep = "delay" => homePhase = "BACKOFF" /\ place > 0 /\ ~IsActive
  /\ hookArmed => homePhase = "APPROACH" /\ IsActive
  /\ homePhase \in {"IDLE", "FAST_SEEK", "BACKOFF", "APPROACH"}

\* A moving axis that homes is in a jog.
LEMMA HomingMovesAreJogs ==
  ASSUME AxisOK, HomingOK, homePhase # "IDLE", IsActive
  PROVE  IsJog /\ stepsLeft > 0 /\ motionStep # "delay"
<1>1. place \in Int /\ stepsLeft \in Nat
  BY AxisTypes
<1> QED
  BY <1>1 DEF HomingOK, SeekOK, BackoffOK, ApproachOK, IsJog

\* While X does not home there is little to show.
LEMMA NotHomingIsOK ==
  ASSUME homePhase' = "IDLE", ~hookArmed', motionStep' # "delay"
  PROVE  HomingOK'
  BY DEF HomingOK, SeekOK, BackoffOK, ApproachOK

LEMMA EndKeepsHomingOK ==
  ASSUME AxisOK, HomingOK, Ends, UNCHANGED <<homePhase, homed, motionStep>>,
         homePhase # "IDLE" => status' # "COMPLETE"
  PROVE  HomingOK'
<1>1. ~IsActive' /\ ~hookArmed' /\ IsActive /\ status' # "READY" /\ zero' \in {zero, zero'}
  BY DEF Ends
<1>2. motionStep # "delay"
  BY <1>1 DEF HomingOK
<1>3. SeekOK' /\ BackoffOK'
  BY <1>1 DEF SeekOK, BackoffOK
<1>4. ApproachOK'
  <2> SUFFICES ASSUME homePhase = "APPROACH", EndedBy("START_LIMIT")'
               PROVE  place' = 0 /\ zero' = 0
    BY <1>1 DEF ApproachOK
  <2>1. braking = None /\ direction = -1 /\ hookArmed
    BY <1>1 DEF HomingOK, ApproachOK
  <2> QED
    BY <2>1 DEF Ends
<1> QED
  BY <1>1, <1>2, <1>3, <1>4 DEF HomingOK

LEMMA JogInterruptKeepsHomingOK ==
  ASSUME AxisOK, HomingOK, JogInterrupt, UNCHANGED <<homePhase, homed, motionStep>>
  PROVE  HomingOK'
<1>1. place \in Int /\ stepsLeft \in Nat /\ direction \in {-1, 1}
  BY AxisTypes
<1>2. CASE Runs
  <2>1. /\ UNCHANGED <<direction, stepsLeft, fast, stopReason, braking, releaseArmed, hookArmed, place, zero>>
        /\ status' = "RUNNING" /\ IsActive' /\ IsActive
    BY <1>2, StatusCases DEF Runs, IsActive
  <2>2. ~EndedBy("START_LIMIT")'
    BY <2>1 DEF EndedBy
  <2>3. SeekOK' /\ BackoffOK' /\ ApproachOK'
    BY <2>1, <2>2 DEF HomingOK, SeekOK, BackoffOK, ApproachOK, IsJog
  <2> QED
    BY <2>1, <2>3 DEF HomingOK
<1>3. CASE Ends /\ (status' = "COMPLETE" => JogCompletes)
  <2>1. ASSUME homePhase # "IDLE", status' = "COMPLETE"
        PROVE  FALSE
    <3>1. stepsLeft = 1 /\ NoStopDue /\ braking = None /\ LimitReached = None /\ IsActive
      BY <1>3, <2>1 DEF JogCompletes, Ends
    <3>2. NextPlace = place + direction /\ NextPlace \in Int
      BY <1>1 DEF NextPlace
    <3>3. direction = -1 => place > 1
      BY <1>1, <3>1, <3>2, LimitBlocksCases DEF LimitReached
    <3>4. CASE homePhase \in {"FAST_SEEK", "APPROACH"}
      BY <1>1, <3>1, <3>3, <3>4 DEF HomingOK, SeekOK, ApproachOK
    <3>5. CASE homePhase = "BACKOFF"
      <4>1. direction = 1 /\ releaseArmed /\ place = 0
        BY <1>1, <3>1, <3>5 DEF HomingOK, BackoffOK
      <4> QED
        BY <3>1, <3>2, <4>1 DEF NoStopDue, Released, StartSwitchAt
    <3> QED
      BY <2>1, <3>4, <3>5 DEF HomingOK
  <2> QED
    BY <1>3, <2>1, EndKeepsHomingOK
<1>4. CASE Continues
  <2>1. /\ status = "RUNNING" /\ UNCHANGED <<status, direction, fast, stopReason, releaseArmed>>
        /\ place' = place + direction /\ stepsLeft > 1 /\ NoStopDue /\ IsActive /\ IsActive'
    BY <1>4, StatusCases DEF Continues, IsActive
  <2>2. ~EndedBy("START_LIMIT")' /\ motionStep # "delay" /\ NextPlace = place'
    BY <2>1 DEF EndedBy, HomingOK, NextPlace
  <2>3. LimitReached = None => (direction = -1 => place' > 0)
    BY <1>1, <2>1, <2>2, LimitBlocksCases DEF LimitReached
  <2>4. CASE /\ braking # None \/ LimitReached = None
             /\ stepsLeft' = stepsLeft - 1
             /\ UNCHANGED <<braking, hookArmed, zero>>
    <3>1. SeekOK'
      <4> SUFFICES ASSUME homePhase = "FAST_SEEK"
                   PROVE  IsJog' /\ direction = -1 /\ (braking = None => place' > 0 /\ stepsLeft' >= place')
        BY <2>1, <2>4 DEF SeekOK
      <4>1. direction = -1 /\ (braking = None => place > 0 /\ stepsLeft >= place)
        BY <2>1 DEF HomingOK, SeekOK
      <4> QED
        BY <1>1, <2>1, <2>3, <2>4, <4>1 DEF IsJog
    <3>2. BackoffOK'
      <4> SUFFICES ASSUME homePhase = "BACKOFF"
                   PROVE  direction = 1 /\ releaseArmed /\ braking = None /\ place' <= 0 /\ stepsLeft' >= 1 - place'
        BY <2>1, <2>4 DEF BackoffOK
      <4>1. direction = 1 /\ releaseArmed /\ braking = None /\ place <= 0 /\ stepsLeft >= 1 - place
        BY <2>1 DEF HomingOK, BackoffOK
      <4>2. place' <= 0
        BY <1>1, <2>1, <2>2, <4>1 DEF NoStopDue, Released, StartSwitchAt
      <4> QED
        BY <1>1, <2>1, <2>4, <4>1, <4>2
    <3>3. ApproachOK'
      <4> SUFFICES ASSUME homePhase = "APPROACH"
                   PROVE  /\ hookArmed' /\ ~fast' /\ direction' = -1 /\ braking' = None
                          /\ place' > 0 /\ stepsLeft' >= place'
        BY <2>2 DEF ApproachOK
      <4>1. hookArmed /\ ~fast /\ direction = -1 /\ braking = None /\ place > 0 /\ stepsLeft >= place
        BY <2>1 DEF HomingOK, ApproachOK
      <4>2. stepsLeft' >= place' /\ place' > 0
        BY <1>1, <2>1, <2>3, <2>4, <4>1
      <4> QED
        BY <2>1, <2>4, <4>1, <4>2
    <3> QED
      BY <2>1, <2>2, <2>4, <3>1, <3>2, <3>3 DEF HomingOK
  <2>5. CASE /\ braking = None /\ LimitReached # None /\ BrakingSteps \ {0} # {}
             /\ stepsLeft' > 0 /\ braking' # None /\ ~hookArmed'
    <3>1. fast /\ homePhase # "APPROACH"
      BY <2>1, <2>5, BrakingStepsRange DEF HomingOK, ApproachOK
    <3>2. homePhase # "BACKOFF"
      <4> SUFFICES ASSUME homePhase = "BACKOFF"
                   PROVE  LimitReached = None
        BY <2>5
      <4>1. direction = 1 /\ releaseArmed /\ place <= 0
        BY <2>1 DEF HomingOK, BackoffOK
      <4>2. NextPlace \in Int /\ NextPlace <= 0
        BY <1>1, <2>1, <2>2, <4>1 DEF NoStopDue, Released, StartSwitchAt
      <4> QED
        BY <4>1, <4>2, LimitBlocksCases DEF LimitReached
    <3>3. SeekOK'
      BY <2>1, <2>5 DEF HomingOK, SeekOK, IsJog
    <3> QED
      BY <2>1, <2>2, <2>5, <3>1, <3>2, <3>3 DEF HomingOK, BackoffOK, ApproachOK
  <2> QED
    BY <1>4, <2>4, <2>5 DEF Continues
<1> QED
  BY <1>2, <1>3, <1>4, JogInterruptOutcome

\* A stream runs only while X does not home, and leaves nothing armed.
LEMMA StreamKeepsHomingOK ==
  ASSUME AxisOK, HomingOK, ~IsJog, IsActive, UNCHANGED <<homePhase, homed, motionStep>>,
         Ends \/ hookArmed' = hookArmed
  PROVE  HomingOK' /\ homePhase = "IDLE" /\ ~hookArmed
<1>1. homePhase = "IDLE"
  BY HomingMovesAreJogs
<1>2. ~hookArmed /\ motionStep # "delay"
  BY <1>1 DEF HomingOK
<1> QED
  BY <1>1, <1>2, NotHomingIsOK DEF Ends

LEMMA QuietStepKeepsHomingOK ==
  ASSUME HomingOK,
         UNCHANGED <<status, direction, stepsLeft, fast, stopReason, braking,
                     releaseArmed, hookArmed, place, zero>>,
         UNCHANGED <<homePhase, homed>>, motionStep' # "delay" \/ motionStep' = motionStep
  PROVE  HomingOK'
<1>1. IsActive' = IsActive /\ EndedBy("START_LIMIT")' = EndedBy("START_LIMIT") /\ IsJog' = IsJog
  BY DEF IsActive, EndedBy, IsJog
<1> QED
  BY <1>1 DEF HomingOK, SeekOK, BackoffOK, ApproachOK

LEMMA AxisUnchangedKeepsHomingOK ==
  ASSUME HomingOK, UNCHANGED axisVars, UNCHANGED <<homePhase, homed>>,
         motionStep' # "delay" \/ motionStep' = motionStep
  PROVE  HomingOK'
  BY QuietStepKeepsHomingOK DEF axisVars

USE HomeStepsAssumption DEF HomeStepsAssumption

\* home_start_move, from where each phase starts.
LEMMA HomeStartMoveKeepsInvariants ==
  ASSUME AxisOK, HomingOK, ~IsActive, NEW phase \in {"FAST_SEEK", "BACKOFF", "APPROACH"},
         phase = "BACKOFF" => place <= 0, phase = "APPROACH" => place > 0,
         HomeStartMove(phase, IF phase = "BACKOFF" THEN 1 ELSE -1, phase # "APPROACH"),
         motionStep' # "delay"
  PROVE  AxisOK' /\ HomingOK' /\ ~homed' /\ place' = place
<1> DEFINE d == IF phase = "BACKOFF" THEN 1 ELSE -1
           profiled == phase # "APPROACH"
           release == releaseArmed \/ phase = "BACKOFF"
           hook == hookArmed \/ phase = "APPROACH"
<1>1. /\ place \in Int /\ place >= -Margin /\ place <= EndSwitch + Margin /\ d \in {-1, 1} /\ profiled \in BOOLEAN
      /\ release \in BOOLEAN /\ hook \in BOOLEAN /\ HomeSteps \in Nat
  BY AxisTypes DEF AxisOK, AxisTypeOK, Place
<1>2. ~hookArmed
  BY DEF HomingOK
<1>3. CASE HomeAbort
  <2>1. Disarm /\ homePhase' = "IDLE" /\ homed' = FALSE
    BY <1>3 DEF HomeAbort
  <2> QED
    BY <2>1, DisarmKeepsAxisOK, NotHomingIsOK
<1>4. CASE StartArmed(d, HomeSteps, profiled, release, hook) /\ homePhase' = phase /\ homed' = FALSE
  <2>1. AxisOK' /\ place' = place /\ (Blocked(d, hook) \/ Starts(d, HomeSteps, profiled, release, hook))
    BY <1>1, <1>4, StartOutcome
  <2>2. CASE Blocked(d, hook)
    <3>1. status' = "STOPPED" /\ ~hookArmed' /\ ~IsActive' /\ stopReason' = LimitBlocks(place, d) /\ stopReason' # None
      BY <2>2, StatusCases DEF Blocked, IsActive
    <3>2. phase # "APPROACH"
      <4> SUFFICES ASSUME phase = "APPROACH" PROVE FALSE
        OBVIOUS
      <4>1. d = -1 /\ place > 0
        OBVIOUS
      <4> QED
        BY <1>1, <3>1, <4>1, LimitBlocksCases
    <3> QED
      BY <1>4, <2>1, <3>1, <3>2 DEF HomingOK, SeekOK, BackoffOK, ApproachOK
  <2>3. CASE Starts(d, HomeSteps, profiled, release, hook)
    <3>1. /\ status' = "STARTING" /\ stopReason' = None
          /\ direction' = d /\ stepsLeft' = HomeSteps /\ fast' = profiled /\ braking' = None
          /\ releaseArmed' = release /\ hookArmed' = hook
          /\ LimitBlocks(place, d) = None
      BY <2>3 DEF Starts
    <3>2. IsActive' /\ ~EndedBy("START_LIMIT")' /\ IsJog'
      BY <1>1, <3>1, StatusCases DEF IsActive, EndedBy, IsJog
    <3>3. /\ d = -1 => place > 0 /\ HomeSteps >= place
          /\ d = 1 => HomeSteps >= 1 - place
      BY <1>1, <3>1, LimitBlocksCases
    <3>4. SeekOK'
      BY <1>4, <2>1, <3>1, <3>2, <3>3 DEF SeekOK
    <3>5. BackoffOK'
      BY <1>4, <2>1, <3>1, <3>2, <3>3 DEF BackoffOK
    <3>6. ApproachOK'
      BY <1>4, <2>1, <3>1, <3>2, <3>3 DEF ApproachOK
    <3> QED
      BY <1>2, <1>4, <2>1, <3>1, <3>2, <3>4, <3>5, <3>6 DEF HomingOK
  <2> QED
    BY <1>4, <2>1, <2>2, <2>3
<1> QED
  BY <1>3, <1>4 DEF HomeStartMove

LEMMA HomingStepKeepsInvariants ==
  ASSUME AxisOK, HomingOK,
         HomeBegin \/ StartBackoff \/ BackoffSettles \/ StartApproach \/ HomeComplete \/ HomeFails
  PROVE  AxisOK' /\ HomingOK'
<1>1. place \in Int
  BY AxisTypes
<1>2. CASE HomeBegin
  <2>1. homePhase = "IDLE" /\ motionStep' = "poll"
    BY <1>2 DEF HomeBegin
  <2>2. CASE ~IsActive /\ HomeStartMove("FAST_SEEK", -1, TRUE)
    BY <2>1, <2>2, HomeStartMoveKeepsInvariants
  <2>3. CASE UNCHANGED <<axisVars, homePhase, homed>>
    BY <2>1, <2>3, AxisStutters, AxisUnchangedKeepsHomingOK
  <2> QED
    BY <1>2, <2>2, <2>3 DEF HomeBegin
<1>3. CASE StartBackoff
  <2>1. place <= 0
    BY <1>3 DEF StartBackoff, AxisOK, StartSwitchAt
  <2>2. ~IsActive /\ HomeStartMove("BACKOFF", 1, TRUE) /\ motionStep' = "receive"
    BY <1>3 DEF StartBackoff, Judged
  <2> QED
    BY <2>1, <2>2, HomeStartMoveKeepsInvariants
<1>4. CASE BackoffSettles
  <2>1. /\ homePhase = "BACKOFF" /\ ~IsActive /\ ~StartSwitchAt(place) /\ UNCHANGED <<homePhase, homed>>
    BY <1>4 DEF BackoffSettles, Judged
  <2>2. UNCHANGED axisVars
    BY <1>4 DEF BackoffSettles
  <2>3. place > 0
    BY <1>1, <2>1 DEF StartSwitchAt
  <2>4. UNCHANGED <<status, direction, stepsLeft, fast, stopReason, braking, releaseArmed, hookArmed, place, zero>>
    BY <2>2 DEF axisVars
  <2>5. HomingOK'
    BY <2>1, <2>3, <2>4 DEF HomingOK, SeekOK, BackoffOK, ApproachOK, IsActive
  <2> QED
    BY <2>2, <2>5, AxisStutters
<1>5. CASE StartApproach
  <2>1. motionStep = "delay" /\ HomeStartMove("APPROACH", -1, FALSE) /\ motionStep' = "receive"
    BY <1>5 DEF StartApproach
  <2>2. place > 0 /\ ~IsActive
    BY <2>1 DEF HomingOK
  <2> QED
    BY <2>1, <2>2, HomeStartMoveKeepsInvariants
<1>6. CASE HomeComplete
  <2>1. ReadyAfterHome /\ homePhase' = "IDLE" /\ motionStep' = "receive"
    BY <1>6 DEF HomeComplete
  <2> QED
    BY <2>1, RecoveryKeepsAxisOK, NotHomingIsOK
<1>7. CASE HomeFails
  <2>1. Disarm /\ homePhase' = "IDLE" /\ motionStep' = "receive"
    BY <1>7 DEF HomeFails, HomeAbort
  <2> QED
    BY <2>1, DisarmKeepsAxisOK, NotHomingIsOK
<1> QED
  BY <1>2, <1>3, <1>4, <1>5, <1>6, <1>7

LEMMA StopStepKeepsInvariants ==
  ASSUME AxisOK, HomingOK,
         StopRequestsAxis \/ StopStoresRequest \/ StopRequest \/ StopStore \/ StopAxisTask
  PROVE  AxisOK' /\ HomingOK'
<1>1. CASE StopRequestsAxis
  <2>1. UNCHANGED <<homePhase, homed, motionStep>>
    BY <1>1 DEF StopRequestsAxis, motionVars
  <2>2. CASE RequestStopCheck("command")
    BY <2>1, <2>2, RequestKeepsAxisOK, QuietStepKeepsHomingOK
  <2>3. CASE UNCHANGED axisVars
    BY <2>1, <2>3, AxisStutters, AxisUnchangedKeepsHomingOK
  <2> QED
    BY <1>1, <2>2, <2>3 DEF StopRequestsAxis
<1>2. CASE StopStoresRequest
  <2>1. UNCHANGED <<homePhase, homed, motionStep>> /\ RequestStopStore("command")
    BY <1>2 DEF StopStoresRequest, motionVars
  <2> QED
    BY <2>1, RequestKeepsAxisOK, QuietStepKeepsHomingOK
<1>3. CASE StopRequest
  <2>1. UNCHANGED <<homePhase, homed>> /\ motionStep' # "delay"
    BY <1>3 DEF StopRequest
  <2>2. CASE RequestStopCheck("motion")
    BY <2>1, <2>2, RequestKeepsAxisOK, QuietStepKeepsHomingOK
  <2>3. CASE UNCHANGED axisVars
    BY <2>1, <2>3, AxisStutters, AxisUnchangedKeepsHomingOK
  <2> QED
    BY <1>3, <2>2, <2>3 DEF StopRequest
<1>4. CASE StopStore
  <2>1. UNCHANGED <<homePhase, homed>> /\ motionStep' # "delay" /\ RequestStopStore("motion")
    BY <1>4 DEF StopStore
  <2> QED
    BY <2>1, RequestKeepsAxisOK, QuietStepKeepsHomingOK
<1>5. CASE StopAxisTask
  <2>1. homePhase' = "IDLE" /\ motionStep' # "delay"
    BY <1>5 DEF StopAxisTask
  <2>2. CASE ClearFault
    BY <2>1, <2>2, RecoveryKeepsAxisOK, NotHomingIsOK
  <2>3. CASE Disarm
    BY <2>1, <2>3, DisarmKeepsAxisOK, NotHomingIsOK
  <2>4. CASE homePhase = "IDLE" /\ UNCHANGED axisVars
    <3>1. ~hookArmed'
      BY <2>4 DEF HomingOK, axisVars
    <3> QED
      BY <2>1, <2>4, <3>1, AxisStutters, NotHomingIsOK
  <2> QED
    BY <1>5, <2>2, <2>3, <2>4 DEF StopAxisTask
<1> QED
  BY <1>1, <1>2, <1>3, <1>4, <1>5

\* A stream is started by StepGeneratorTask while X does not home.
LEMMA StartAxisOutcome ==
  ASSUME AxisOK, HomingOK, Startable, Head(buffer).step \in {-1, 1},
         StartEvent(Head(buffer).step, 0, FALSE), UNCHANGED <<homePhase, homed, motionStep>>
  PROVE  /\ AxisOK' /\ HomingOK' /\ homePhase = "IDLE" /\ place' = place /\ zero' = zero
         /\ stepsLeft' = 0 /\ ~IsActive
         /\ \/ status' = "STOPPED"
            \/ status' = "STARTING" /\ direction' = Head(buffer).step
<1>1. homePhase = "IDLE" /\ ~hookArmed /\ motionStep # "delay" /\ ~IsActive
  BY StatusCases DEF HomingOK, Startable, IsActive
<1>2. releaseArmed \in BOOLEAN /\ hookArmed \in BOOLEAN
  BY DEF AxisOK, AxisTypeOK
<1>3. /\ AxisOK' /\ place' = place
      /\ \/ Blocked(Head(buffer).step, hookArmed)
         \/ Starts(Head(buffer).step, 0, FALSE, releaseArmed, hookArmed)
  BY <1>2, StartOutcome DEF StartEvent
<1>4. ~hookArmed' /\ zero' = zero /\ stepsLeft' = 0
  BY <1>1, <1>3 DEF Blocked, Starts, HookRuns
<1>5. HomingOK'
  BY <1>1, <1>4, NotHomingIsOK
<1> QED
  BY <1>1, <1>3, <1>4, <1>5 DEF Blocked, Starts

LEMMA StreamInterruptKeepsInvariants ==
  ASSUME AxisOK, HomingOK, StreamRunsOut \/ (NextEvent /\ Head(buffer).step \in {-1, 1})
  PROVE  AxisOK' /\ HomingOK' /\ homePhase = "IDLE"
<1>1. UNCHANGED <<homePhase, homed, motionStep>>
  BY DEF StreamRunsOut, NextEvent, motionVars
<1>2. ASSUME NEW final \in {"COMPLETE"} \cup Faults, StreamEnds(final)
      PROVE  AxisOK' /\ HomingOK' /\ homePhase = "IDLE"
  BY <1>1, <1>2, StreamEndsOutcome, PulseMoves, StreamKeepsHomingOK
<1>3. CASE StreamRunsOut
  BY <1>2, <1>3 DEF StreamRunsOut, Faults
<1>4. CASE NextEvent /\ Head(buffer).step \in {-1, 1}
  <2>1. CASE StreamContinues(Head(buffer).step)
    BY <1>1, <1>4, <2>1, StreamContinuesOutcome, PulseMoves, StreamKeepsHomingOK
  <2>2. CASE StreamEnds("FAULT_TIMING")
    BY <1>2, <2>2 DEF Faults
  <2> QED
    BY <1>4, <2>1, <2>2 DEF NextEvent
<1> QED
  BY <1>3, <1>4

-----------------------------------------------------------------------------
(* Tasks, queues and buffers. *)

CommandOK ==
  /\ commandQueue \in Seq(Command) /\ Len(commandQueue) <= QueueCapacity
  /\ commandStep \in {"idle", "halted", "store", "discard", "send"}
  /\ commandStep = "send" => commandQueue = << >>

\* MotionTask has dropped the plan until it is done with a STOP.
StopPhases == {"stopRequest", "stopStore", "stopAxis", "settle"}

MotionOK ==
  /\ motionStep \in {"receive", "execute", "poll", "delay"} \cup StopPhases
  /\ motionCommand \in Command \cup {NoCommand}
  /\ motionStep = "execute" => motionCommand \in Command
  /\ homed \in BOOLEAN
  /\ position \in Nat
  /\ desynced \subseteq {"homed over events", "planner error"}

PlanOK ==
  /\ planBuffer \in Seq(Int) /\ Len(planBuffer) <= PlanCapacity
  /\ motionStep \in StopPhases => planBuffer = << >>

StreamOK ==
  /\ generatorStep \in {"wait", "fill", "start"}
  /\ active \in Int
  /\ flags \subseteq {BlockReady, BufferSpace, StopReset}
  /\ halted \in BOOLEAN
  /\ buffer \in Seq(Event) /\ Len(buffer) <= BufferCapacity
  /\ currentIsLast \in BOOLEAN

\* The generator is only told to reset when all it would reset is at rest.
ResetOK == StopReset \in flags => ~IsActive /\ generatorStep = "wait" /\ planBuffer = << >>

USE CapacityAssumption, TargetAssumption DEF CapacityAssumption, TargetAssumption

\* What the first entry and the rest of a queue are.
LEMMA FirstAndRest ==
  ASSUME NEW S, NEW s \in Seq(S), s # << >>
  PROVE  /\ Head(s) \in S /\ Tail(s) \in Seq(S) /\ Len(Tail(s)) = Len(s) - 1 /\ Len(s) >= 1
         /\ Head(s) = s[1]
  OBVIOUS

LEMMA Added ==
  ASSUME NEW S, NEW s \in Seq(S), NEW x \in S
  PROVE  Append(s, x) \in Seq(S) /\ Len(Append(s, x)) = Len(s) + 1
  OBVIOUS

LEMMA NothingQueued ==
  ASSUME NEW S
  PROVE  << >> \in Seq(S) /\ Len(<< >>) = 0
  OBVIOUS

\* Which actions touch the command queue.
LEMMA CommandFrame ==
  ASSUME Next
  PROVE  \/ \E command \in Request : AcceptCommand(command)
         \/ StopArrives \/ StopRequestsAxis \/ StopStoresRequest \/ StopDiscards \/ StopIsQueued
         \/ Receive
         \/ UNCHANGED commandVars
<1>1. CASE MotionTask
  BY <1>1
     DEF MotionTask, ReceiveTimesOut, DropCommand, ExecuteMove, ExecuteJog, QueueMove, HomeBegin,
         HomePoll, NothingToPoll, StartBackoff, BackoffSettles, StartApproach, HomeComplete, HomeFails,
         HomingUnchanged, MotionStop, ClearPlan, StopRequest, StopStore, StopAxisTask, FinishStop
<1>2. CASE StepGenerator
  BY <1>2 DEF StepGenerator, GeneratorWakes, GenerateEvent, TakeBlock, FillEnds, StartAxis
<1>3. CASE AxisInterrupt
  BY <1>3 DEF AxisInterrupt, TakesNoEvent, StreamRunsOut, NextEvent
<1> QED
  BY <1>1, <1>2, <1>3 DEF Next, CommandTask

LEMMA NextKeepsCommandOK ==
  ASSUME CommandOK, [Next]_vars
  PROVE  CommandOK'
<1>1. CASE \E command \in Request : AcceptCommand(command)
  <2>1. PICK command \in Request : AcceptCommand(command)
    BY <1>1
  <2>2. /\ commandQueue' = Append(commandQueue, command) /\ Len(commandQueue) < QueueCapacity
        /\ commandStep = "idle" /\ commandStep' = commandStep /\ command \in Command
    BY <2>1 DEF AcceptCommand, Command
  <2>3. commandQueue' \in Seq(Command) /\ Len(commandQueue') = Len(commandQueue) + 1 /\ Len(commandQueue) \in Nat
    BY <2>2, Added DEF CommandOK
  <2> QED
    BY <2>2, <2>3 DEF CommandOK
<1>2. CASE StopArrives \/ StopRequestsAxis \/ StopStoresRequest
  BY <1>2 DEF StopArrives, StopRequestsAxis, StopStoresRequest, CommandOK
<1>3. CASE StopDiscards
  BY <1>3, NothingQueued DEF StopDiscards, CommandOK
<1>4. CASE StopIsQueued
  <2>1. /\ commandQueue' = Append(<< >>, Stop) /\ commandStep' = "idle" /\ Stop \in Command
    BY <1>4 DEF StopIsQueued, CommandOK, Command
  <2>2. commandQueue' \in Seq(Command) /\ Len(commandQueue') = 1
    BY <2>1, Added, NothingQueued
  <2> QED
    BY <2>1, <2>2 DEF CommandOK
<1>5. CASE Receive
  <2>1. /\ commandQueue # << >> /\ commandQueue' = Tail(commandQueue) /\ commandStep' = commandStep
    BY <1>5 DEF Receive
  <2>2. commandQueue' \in Seq(Command) /\ Len(commandQueue') = Len(commandQueue) - 1 /\ Len(commandQueue) \in Nat
    BY <2>1, FirstAndRest DEF CommandOK
  <2> QED
    BY <2>1, <2>2 DEF CommandOK
<1>6. CASE UNCHANGED commandVars
  BY <1>6 DEF CommandOK, commandVars
<1>7. CASE UNCHANGED vars
  BY <1>7 DEF CommandOK, commandVars, vars
<1> QED
  BY <1>1, <1>2, <1>3, <1>4, <1>5, <1>6, <1>7, CommandFrame

LEMMA MotionFrame ==
  ASSUME Next
  PROVE  MotionTask \/ UNCHANGED <<motionStep, motionCommand, homePhase, homed, position, desynced>>
<1>1. ASSUME NEW command \in Request, AcceptCommand(command)
      PROVE  UNCHANGED <<motionStep, motionCommand, homePhase, homed, position, desynced>>
  BY <1>1 DEF AcceptCommand, motionVars
<1>2. CASE StopArrives \/ CommandTask
  BY <1>2 DEF StopArrives, CommandTask, StopRequestsAxis, StopStoresRequest, StopDiscards, StopIsQueued, motionVars
<1>3. CASE StepGenerator
  BY <1>3 DEF StepGenerator, GeneratorWakes, GenerateEvent, TakeBlock, FillEnds, StartAxis, motionVars
<1>4. CASE AxisInterrupt
  BY <1>4 DEF AxisInterrupt, TakesNoEvent, StreamRunsOut, NextEvent, motionVars
<1> QED
  BY <1>1, <1>2, <1>3, <1>4 DEF Next

\* A move that MotionTask queues, from either command.
Queues == \E target \in Int : TasksRun /\ motionStep = "execute" /\ homePhase = "IDLE" /\ QueueMove(target)

LEMMA MovesAreQueued ==
  ASSUME MotionOK, ExecuteMove \/ ExecuteJog
  PROVE  Queues
<1>1. motionCommand \in Command /\ motionStep = "execute" /\ TasksRun /\ homePhase = "IDLE"
  BY DEF ExecuteMove, ExecuteJog, Executes, MotionOK
<1>2. motionCommand.target \in Int
  BY <1>1 DEF Command, Request, Move, Jog, Home, Stop
<1>3. position \in Int
  <2>1. position \in Nat
    BY DEF MotionOK
  <2> QED
    BY <2>1
<1>4. position + motionCommand.target \in Int
  BY <1>2, <1>3
<1> QED
  BY <1>1, <1>2, <1>4 DEF ExecuteMove, ExecuteJog, Queues

LEMMA ScaleIsNat ==
  ASSUME AxisOK
  PROVE  Scale \in Nat
  BY AxisTypes DEF Scale

LEMMA NextKeepsMotionOK ==
  ASSUME AxisOK, MotionOK, CommandOK, [Next]_vars
  PROVE  MotionOK'
<1>1. CASE UNCHANGED <<motionStep, motionCommand, homePhase, homed, position, desynced>>
  BY <1>1 DEF MotionOK
<1>2. CASE Receive
  <2>1. /\ motionCommand' = Head(commandQueue) /\ commandQueue # << >> /\ motionStep' = "execute"
        /\ UNCHANGED <<homed, position, desynced>>
    BY <1>2 DEF Receive
  <2>2. motionCommand' \in Command
    BY <2>1, FirstAndRest DEF CommandOK
  <2> QED
    BY <2>1, <2>2 DEF MotionOK
<1>3. CASE ReceiveTimesOut \/ DropCommand \/ NothingToPoll
  BY <1>3 DEF ReceiveTimesOut, DropCommand, NothingToPoll, MotionOK, StopPhases
<1>4. CASE ExecuteMove \/ ExecuteJog
  <2>1. PICK target \in Int : QueueMove(target)
    BY <1>4, MovesAreQueued DEF Queues
  <2>2. position' \in Nat
    <3>1. position' = PositionAfterMove(target) /\ position \in Nat
      BY <2>1 DEF QueueMove, MotionOK
    <3>2. Plans(target) => target \in Nat
      BY DEF Plans, PlanStatus
    <3> QED
      BY <3>1, <3>2 DEF PositionAfterMove
  <2>3. desynced' \subseteq {"homed over events", "planner error"}
    BY <2>1 DEF QueueMove, MotionOK
  <2>4. motionStep' = "poll" /\ UNCHANGED <<motionCommand, homed>>
    BY <2>1 DEF QueueMove
  <2> QED
    BY <2>2, <2>3, <2>4 DEF MotionOK
<1>5. CASE HomeBegin
  <2>1. motionStep' = "poll" /\ UNCHANGED <<motionCommand, position>>
    BY <1>5 DEF HomeBegin
  <2>2. homed' \in BOOLEAN /\ desynced' \subseteq {"homed over events", "planner error"}
    BY <1>5 DEF HomeBegin, HomeStartMove, HomeAbort, MotionOK
  <2> QED
    BY <2>1, <2>2 DEF MotionOK
<1>6. CASE StartBackoff \/ StartApproach \/ HomeFails
  <2>1. motionStep' = "receive" /\ UNCHANGED <<motionCommand, position, desynced>>
    BY <1>6 DEF StartBackoff, StartApproach, HomeFails, HomingUnchanged
  <2>2. homed' \in BOOLEAN
    BY <1>6 DEF StartBackoff, StartApproach, HomeFails, HomeStartMove, HomeAbort
  <2> QED
    BY <2>1, <2>2 DEF MotionOK
<1>7. CASE BackoffSettles \/ StopRequest \/ StopStore
  BY <1>7 DEF BackoffSettles, StopRequest, StopStore, HomingUnchanged, MotionOK, StopPhases
<1>8. CASE HomeComplete
  BY <1>8 DEF HomeComplete, HomingUnchanged, MotionOK
<1>9. CASE ClearPlan
  BY <1>9 DEF ClearPlan, MotionOK, StopPhases
<1>10. CASE StopAxisTask
  BY <1>10 DEF StopAxisTask, HomingUnchanged, MotionOK, StopPhases
<1>11. CASE FinishStop
  <2>1. motionStep' = "receive" /\ UNCHANGED <<motionCommand, homed>>
    BY <1>11 DEF FinishStop
  <2>2. position' \in Nat
    BY <1>11, ScaleIsNat DEF FinishStop, MotionOK
  <2>3. desynced' \subseteq {"homed over events", "planner error"}
    BY <1>11 DEF FinishStop, MotionOK
  <2> QED
    BY <2>1, <2>2, <2>3 DEF MotionOK
<1>12. CASE MotionTask
  BY <1>2, <1>3, <1>4, <1>5, <1>6, <1>7, <1>8, <1>9, <1>10, <1>11, <1>12 DEF MotionTask, HomePoll, MotionStop
<1> QED
  BY <1>1, <1>12, MotionFrame DEF vars, motionVars

\* Which actions touch the plan.
LEMMA PlanFrame ==
  ASSUME Next
  PROVE  \/ ExecuteMove \/ ExecuteJog \/ HomeBegin \/ ClearPlan \/ TakeBlock
         \/ UNCHANGED planBuffer
<1>1. ASSUME NEW command \in Request, AcceptCommand(command)
      PROVE  UNCHANGED planBuffer
  BY <1>1 DEF AcceptCommand
<1>2. CASE StopArrives \/ CommandTask
  BY <1>2 DEF StopArrives, CommandTask, StopRequestsAxis, StopStoresRequest, StopDiscards, StopIsQueued
<1>3. CASE MotionTask
  BY <1>3
     DEF MotionTask, Receive, ReceiveTimesOut, DropCommand,
         HomePoll, NothingToPoll, StartBackoff, BackoffSettles, StartApproach, HomeComplete, HomeFails,
         HomingUnchanged, MotionStop, StopRequest, StopStore, StopAxisTask, FinishStop
<1>4. CASE StepGenerator
  BY <1>4 DEF StepGenerator, GeneratorWakes, GenerateEvent, FillEnds, StartAxis
<1>5. CASE AxisInterrupt
  BY <1>5 DEF AxisInterrupt, TakesNoEvent, StreamRunsOut, NextEvent
<1> QED
  BY <1>1, <1>2, <1>3, <1>4, <1>5 DEF Next

\* When MotionTask enters the phases of STOP.
LEMMA StopPhasesFrame ==
  ASSUME Next, motionStep' \in StopPhases
  PROVE  ClearPlan \/ motionStep \in StopPhases
<1>1. CASE UNCHANGED motionStep
  BY <1>1
<1>2. CASE MotionTask
  <2>1. CASE Receive \/ ReceiveTimesOut \/ DropCommand \/ HomeBegin
    BY <2>1 DEF Receive, ReceiveTimesOut, DropCommand, HomeBegin, StopPhases
  <2>2. CASE ExecuteMove \/ ExecuteJog
    BY <2>2 DEF ExecuteMove, ExecuteJog, QueueMove, StopPhases
  <2>3. CASE HomePoll
    BY <2>3 DEF HomePoll, NothingToPoll, StartBackoff, BackoffSettles, StartApproach, HomeComplete, HomeFails, StopPhases
  <2>4. CASE MotionStop
    BY <2>4 DEF MotionStop, StopRequest, StopStore, StopAxisTask, FinishStop, StopPhases
  <2> QED
    BY <1>2, <2>1, <2>2, <2>3, <2>4 DEF MotionTask
<1> QED
  BY <1>1, <1>2, MotionFrame

LEMMA NextKeepsPlanOK ==
  ASSUME PlanOK, MotionOK, [Next]_vars
  PROVE  PlanOK'
<1>1. CASE ExecuteMove \/ ExecuteJog
  <2>1. PICK target \in Int : QueueMove(target)
    BY <1>1, MovesAreQueued DEF Queues
  <2>2. motionStep' \notin StopPhases /\ target - position \in Int
    <3>1. motionStep' \notin StopPhases
      BY <2>1 DEF QueueMove, StopPhases
    <3>2. position \in Nat
      BY DEF MotionOK
    <3> QED
      BY <3>1, <3>2
  <2>3. CASE Len(planBuffer) < PlanCapacity /\ planBuffer' = Append(planBuffer, target - position)
    <3>1. planBuffer' \in Seq(Int) /\ Len(planBuffer') = Len(planBuffer) + 1 /\ Len(planBuffer) \in Nat
      BY <2>2, <2>3, Added DEF PlanOK
    <3> QED
      BY <2>2, <2>3, <3>1 DEF PlanOK
  <2>4. CASE planBuffer' = << >>
    BY <2>2, <2>4, NothingQueued DEF PlanOK
  <2>5. CASE UNCHANGED planBuffer
    BY <2>2, <2>5 DEF PlanOK
  <2> QED
    BY <2>1, <2>3, <2>4, <2>5 DEF QueueMove
<1>2. CASE HomeBegin
  <2>1. motionStep' \notin StopPhases /\ (planBuffer' = << >> \/ UNCHANGED planBuffer)
    BY <1>2 DEF HomeBegin, StopPhases
  <2>2. CASE planBuffer' = << >>
    BY <2>1, <2>2, NothingQueued DEF PlanOK
  <2>3. CASE UNCHANGED planBuffer
    BY <2>1, <2>3 DEF PlanOK
  <2> QED
    BY <2>1, <2>2, <2>3
<1>3. CASE ClearPlan
  BY <1>3, NothingQueued DEF ClearPlan, PlanOK
<1>4. CASE TakeBlock
  <2>1. planBuffer # << >> /\ planBuffer' = Tail(planBuffer) /\ motionStep' = motionStep
    BY <1>4 DEF TakeBlock, motionVars
  <2>2. planBuffer' \in Seq(Int) /\ Len(planBuffer') = Len(planBuffer) - 1 /\ Len(planBuffer) \in Nat
    BY <2>1, FirstAndRest DEF PlanOK
  <2> QED
    BY <2>1, <2>2 DEF PlanOK
<1>5. CASE Next /\ UNCHANGED planBuffer
  <2>1. motionStep' \in StopPhases => planBuffer' = << >>
    BY <1>3, <1>5, StopPhasesFrame DEF PlanOK
  <2> QED
    BY <1>5, <2>1 DEF PlanOK
<1>6. CASE UNCHANGED vars
  BY <1>6 DEF PlanOK, vars, motionVars
<1> QED
  BY <1>1, <1>2, <1>3, <1>4, <1>5, <1>6, PlanFrame

\* Which actions touch the stream and the generator, and which only set a flag.
LEMMA StreamFrame ==
  ASSUME Next
  PROVE  \/ StopArrives \/ StepGenerator \/ NextEvent
         \/ /\ UNCHANGED <<generatorStep, active, halted, buffer, currentIsLast>>
            /\ flags' \in {flags, flags \cup {BlockReady}, flags \cup {StopReset}}
            /\ FinishStop \/ flags' \in {flags, flags \cup {BlockReady}}
<1> DEFINE Same == UNCHANGED <<generatorStep, active, halted, buffer, currentIsLast>>
<1>1. ASSUME NEW command \in Request, AcceptCommand(command)
      PROVE  Same /\ flags' = flags
  BY <1>1 DEF AcceptCommand, generatorVars, streamVars
<1>2. CASE CommandTask
  BY <1>2 DEF CommandTask, StopRequestsAxis, StopStoresRequest, StopDiscards, StopIsQueued, generatorVars, streamVars
<1>3. CASE Receive \/ ReceiveTimesOut \/ DropCommand \/ HomeBegin \/ HomePoll
  BY <1>3
     DEF Receive, ReceiveTimesOut, DropCommand, HomeBegin,
         HomePoll, NothingToPoll, StartBackoff, BackoffSettles, StartApproach, HomeComplete, HomeFails,
         HomingUnchanged, generatorVars, streamVars
<1>4. CASE ExecuteMove \/ ExecuteJog
  BY <1>4 DEF ExecuteMove, ExecuteJog, QueueMove, generatorVars, streamVars
<1>5. CASE ClearPlan \/ StopRequest \/ StopStore \/ StopAxisTask
  BY <1>5 DEF ClearPlan, StopRequest, StopStore, StopAxisTask, HomingUnchanged, generatorVars, streamVars
<1>6. CASE FinishStop
  BY <1>6 DEF FinishStop, generatorVars, streamVars
<1>7. CASE TakesNoEvent \/ StreamRunsOut
  BY <1>7 DEF TakesNoEvent, StreamRunsOut, generatorVars, streamVars
<1> QED
  BY <1>1, <1>2, <1>3, <1>4, <1>5, <1>6, <1>7 DEF Next, MotionTask, MotionStop, AxisInterrupt

LEMMA PopKeepsStream ==
  ASSUME StreamOK, buffer # << >>, PopEvent
  PROVE  /\ buffer' \in Seq(Event) /\ Len(buffer') = Len(buffer) - 1 /\ Len(buffer') <= BufferCapacity
         /\ currentIsLast' \in BOOLEAN /\ flags' \subseteq {BlockReady, BufferSpace, StopReset}
         /\ Head(buffer) \in Event /\ Head(buffer).step \in {-1, 1}
         /\ StopReset \in flags' <=> StopReset \in flags
<1>1. Head(buffer) \in Event /\ buffer' \in Seq(Event) /\ Len(buffer') = Len(buffer) - 1
      /\ Len(buffer) \in Nat /\ Len(buffer) <= BufferCapacity
  BY FirstAndRest DEF PopEvent, StreamOK
<1>2. currentIsLast' \in BOOLEAN /\ Head(buffer).step \in {-1, 1}
  BY <1>1 DEF PopEvent, Event
<1>3. flags' \subseteq {BlockReady, BufferSpace, StopReset} /\ (StopReset \in flags' <=> StopReset \in flags)
  BY DEF PopEvent, StreamOK, StopReset, BufferSpace
<1>4. Len(buffer') <= BufferCapacity
  BY <1>1
<1> QED
  BY <1>1, <1>2, <1>3, <1>4

LEMMA NextKeepsStreamOK ==
  ASSUME StreamOK, PlanOK, [Next]_vars
  PROVE  StreamOK'
<1>1. CASE StopArrives
  BY <1>1 DEF StopArrives, StreamOK, streamVars
<1>2. CASE GeneratorWakes
  <2>1. /\ flags' = {} /\ generatorStep' \in {"wait", "fill", "start"} /\ currentIsLast' = currentIsLast
    BY <1>2 DEF GeneratorWakes
  <2>2. CASE active' = 0 /\ buffer' = << >> /\ halted' = Resumed
    <3>1. buffer' \in Seq(Event) /\ Len(buffer') = 0 /\ 0 <= BufferCapacity
      BY <2>2, NothingQueued
    <3>2. halted' \in BOOLEAN
      BY <2>2 DEF Resumed
    <3> QED
      BY <2>1, <2>2, <3>1, <3>2 DEF StreamOK
  <2>3. CASE UNCHANGED <<active, buffer, halted>>
    BY <2>1, <2>3 DEF StreamOK
  <2> QED
    BY <1>2, <2>2, <2>3 DEF GeneratorWakes
<1>3. CASE GenerateEvent
  <2> DEFINE event == [step |-> Sign(active), last |-> active \in {-1, 1}]
  <2>1. /\ buffer' = Append(buffer, event) /\ Len(buffer) < BufferCapacity
        /\ active' = active - Sign(active) /\ UNCHANGED <<generatorStep, flags, halted, currentIsLast>>
    BY <1>3 DEF GenerateEvent, HasRoom
  <2>2. Sign(active) \in {-1, 1}
    BY DEF Sign
  <2>3. event \in Event
    BY <2>2 DEF Event
  <2>4. active' \in Int
    BY <2>1, <2>2 DEF StreamOK
  <2>5. buffer' \in Seq(Event) /\ Len(buffer') = Len(buffer) + 1 /\ Len(buffer) \in Nat
    BY <2>1, <2>3, Added DEF StreamOK
  <2> QED
    BY <2>1, <2>4, <2>5 DEF StreamOK
<1>4. CASE TakeBlock
  <2>1. active' = Head(planBuffer) /\ planBuffer # << >>
        /\ UNCHANGED <<generatorStep, flags, halted, buffer, currentIsLast>>
    BY <1>4 DEF TakeBlock, streamVars
  <2>2. active' \in Int
    BY <2>1, FirstAndRest DEF PlanOK
  <2> QED
    BY <2>1, <2>2 DEF StreamOK
<1>5. CASE FillEnds
  BY <1>5 DEF FillEnds, StreamOK, streamVars
<1>6. CASE StartAxis
  <2>1. generatorStep' = "wait" /\ UNCHANGED <<active, halted>>
    BY <1>6 DEF StartAxis
  <2>2. CASE Startable /\ PopEvent
    BY <2>1, <2>2, PopKeepsStream DEF StreamOK, Startable
  <2>3. CASE UNCHANGED <<streamVars, flags>>
    BY <2>1, <2>3 DEF StreamOK, streamVars
  <2> QED
    BY <1>6, <2>2, <2>3 DEF StartAxis
<1>7. CASE NextEvent
  <2>1. buffer # << >> /\ PopEvent /\ UNCHANGED <<generatorStep, active, halted>>
    BY <1>7 DEF NextEvent, generatorVars
  <2> QED
    BY <2>1, PopKeepsStream DEF StreamOK
<1>8. CASE /\ UNCHANGED <<generatorStep, active, halted, buffer, currentIsLast>>
           /\ flags' \in {flags, flags \cup {BlockReady}, flags \cup {StopReset}}
  BY <1>8 DEF StreamOK
<1>9. CASE UNCHANGED vars
  BY <1>9 DEF vars, generatorVars, streamVars, StreamOK
<1> QED
  BY <1>1, <1>2, <1>3, <1>4, <1>5, <1>6, <1>7, <1>8, <1>9, StreamFrame DEF StepGenerator

-----------------------------------------------------------------------------
(* The axis and homing under every step of the pipeline. *)

LEMMA NextKeepsHomingOK ==
  ASSUME AxisOK, HomingOK, StreamOK, [Next]_vars
  PROVE  AxisOK' /\ HomingOK'
<1>1. ASSUME UNCHANGED axisVars, UNCHANGED <<homePhase, homed>>, motionStep' # "delay" \/ motionStep' = motionStep
      PROVE  AxisOK' /\ HomingOK'
  BY <1>1, AxisStutters, AxisUnchangedKeepsHomingOK
<1>2. ASSUME NEW command \in Request, AcceptCommand(command)
      PROVE  AxisOK' /\ HomingOK'
  BY <1>1, <1>2 DEF AcceptCommand, motionVars
<1>3. CASE StopArrives \/ StopDiscards \/ StopIsQueued
  BY <1>1, <1>3 DEF StopArrives, StopDiscards, StopIsQueued, motionVars
<1>4. CASE Receive \/ ReceiveTimesOut \/ DropCommand \/ NothingToPoll \/ ClearPlan \/ FinishStop
  BY <1>1, <1>4 DEF Receive, ReceiveTimesOut, DropCommand, NothingToPoll, ClearPlan, FinishStop
<1>5. CASE ExecuteMove \/ ExecuteJog
  BY <1>1, <1>5 DEF ExecuteMove, ExecuteJog, QueueMove
<1>6. CASE GeneratorWakes \/ GenerateEvent \/ TakeBlock \/ FillEnds
  BY <1>1, <1>6 DEF GeneratorWakes, GenerateEvent, TakeBlock, FillEnds, motionVars
<1>7. CASE StartAxis
  <2>1. UNCHANGED <<homePhase, homed, motionStep>>
    BY <1>7 DEF StartAxis, motionVars
  <2>2. CASE Startable /\ PopEvent /\ StartEvent(Head(buffer).step, 0, FALSE)
    <3>1. Head(buffer).step \in {-1, 1}
      BY <2>2, PopKeepsStream DEF Startable
    <3> QED
      BY <2>1, <2>2, <3>1, StartAxisOutcome
  <2>3. CASE UNCHANGED axisVars
    BY <1>1, <2>1, <2>3
  <2> QED
    BY <1>7, <2>2, <2>3 DEF StartAxis
<1>8. CASE TakesNoEvent
  BY <1>8, JogInterruptOutcome, JogInterruptKeepsHomingOK DEF TakesNoEvent, motionVars
<1>9. CASE StreamRunsOut \/ NextEvent
  <2>1. NextEvent => Head(buffer).step \in {-1, 1}
    BY PopKeepsStream DEF NextEvent
  <2> QED
    BY <1>9, <2>1, StreamInterruptKeepsInvariants
<1>10. CASE StopRequestsAxis \/ StopStoresRequest \/ StopRequest \/ StopStore \/ StopAxisTask
  BY <1>10, StopStepKeepsInvariants
<1>11. CASE HomeBegin \/ StartBackoff \/ BackoffSettles \/ StartApproach \/ HomeComplete \/ HomeFails
  BY <1>11, HomingStepKeepsInvariants
<1>12. CASE UNCHANGED vars
  BY <1>1, <1>12 DEF vars, motionVars
<1> QED
  BY <1>2, <1>3, <1>4, <1>5, <1>6, <1>7, <1>8, <1>9, <1>10, <1>11, <1>12
     DEF Next, CommandTask, MotionTask, HomePoll, MotionStop, StepGenerator, AxisInterrupt

\* Only a moving axis interrupts.
LEMMA InterruptsNeedMotion ==
  ASSUME AxisOK, AxisInterrupt
  PROVE  IsActive
<1>1. JogInterrupt => IsActive
  BY PulseMoves, StatusCases
     DEF JogInterrupt, StartupInterrupt, StoppedBySwitch, StoppedByRequest, JogEnds, JogContinues,
         JogMissesDeadline, IsActive
<1>2. Pulse => IsActive
  BY PulseMoves
<1> QED
  BY <1>1, <1>2 DEF AxisInterrupt, TakesNoEvent, StreamRunsOut, NextEvent, StreamEnds, StreamContinues

\* Only the end of STOP sets STOP_RESET, and then nothing runs but the generator,
\* which takes it.
LEMMA OnlyFinishStopResets ==
  ASSUME AxisOK, StreamOK, ResetOK, Next, StopReset \in flags'
  PROVE  FinishStop
<1>1. CASE StopReset \in flags
  <2>1. ~IsActive /\ generatorStep = "wait" /\ planBuffer = << >> /\ ~TasksRun /\ status # "RUNNING"
    BY <1>1, StatusCases DEF ResetOK, TasksRun, IsActive
  <2>2. ~(\E command \in Request : AcceptCommand(command)) /\ ~StopArrives /\ ~CommandTask
    BY <2>1
       DEF AcceptCommand, StopArrives, CommandTask, StopRequestsAxis, StopStoresRequest, StopDiscards, StopIsQueued
  <2>3. ~MotionTask
    BY <2>1
       DEF MotionTask, Receive, ReceiveTimesOut, DropCommand, ExecuteMove, ExecuteJog, Executes, HomeBegin,
           HomePoll, NothingToPoll, StartBackoff, BackoffSettles, StartApproach, HomeComplete, HomeFails, Judged,
           MotionStop, ClearPlan, StopRequest, StopStore, StopAxisTask, FinishStop
  <2>4. ~AxisInterrupt
    BY <2>1, InterruptsNeedMotion
  <2>5. ~StepGenerator
    <3>1. ~GeneratorWakes
      BY DEF GeneratorWakes
    <3> QED
      BY <2>1, <3>1 DEF StepGenerator, GenerateEvent, TakeBlock, FillEnds, StartAxis
  <2> QED
    BY <1>1, <2>2, <2>3, <2>4, <2>5 DEF Next
<1>2. CASE StopReset \notin flags /\ ~FinishStop
  <2>1. ~(StopArrives \/ NextEvent)
    BY <1>2, PopKeepsStream DEF StopArrives, NextEvent
  <2>2. ~StepGenerator
    <3>1. ~GeneratorWakes /\ ~GenerateEvent /\ ~TakeBlock /\ ~FillEnds
      BY <1>2 DEF GeneratorWakes, GenerateEvent, TakeBlock, FillEnds
    <3>2. ~StartAxis
      BY <1>2, PopKeepsStream DEF StartAxis, Startable
    <3> QED
      BY <3>1, <3>2 DEF StepGenerator
  <2>3. flags' \in {flags, flags \cup {BlockReady}}
    BY <1>2, <2>1, <2>2, StreamFrame
  <2> QED
    BY <1>2, <2>3 DEF StopReset, BlockReady
<1> QED
  BY <1>1, <1>2

LEMMA NextKeepsResetOK ==
  ASSUME AxisOK, StreamOK, PlanOK, ResetOK, [Next]_vars
  PROVE  ResetOK'
<1>1. CASE FinishStop
  <2>1. ~IsActive /\ generatorStep = "wait" /\ motionStep \in StopPhases
    BY <1>1 DEF FinishStop, AtRest, TasksRun, StopPhases
  <2>2. UNCHANGED <<status, generatorStep, planBuffer>>
    BY <1>1 DEF FinishStop, axisVars, generatorVars
  <2> QED
    BY <2>1, <2>2 DEF ResetOK, IsActive, PlanOK
<1>2. CASE Next /\ StopReset \notin flags'
  BY <1>2 DEF ResetOK
<1>3. CASE UNCHANGED vars
  <2>1. UNCHANGED <<status, generatorStep, planBuffer, flags>>
    BY <1>3 DEF vars, axisVars, generatorVars
  <2> QED
    BY <2>1 DEF ResetOK, IsActive
<1> QED
  BY <1>1, <1>2, <1>3, OnlyFinishStopResets

-----------------------------------------------------------------------------
(* Where the events and blocks under way lead. *)

\* The n steps of d lead from one position to another.
Walk(n, d, from, to) ==
  \E sum \in [0 .. n -> Int] :
    /\ sum[0] = from /\ sum[n] = to
    /\ \A i \in 1 .. n : sum[i] = sum[i - 1] + d[i]

LEMMA EmptyWalk ==
  ASSUME NEW d, NEW from \in Int, NEW to
  PROVE  Walk(0, d, from, to) <=> from = to
<1>1. ASSUME from = to
      PROVE  Walk(0, d, from, to)
  <2> DEFINE sum == [i \in 0 .. 0 |-> from]
  <2>1. sum \in [0 .. 0 -> Int] /\ sum[0] = from /\ sum[0] = to /\ 1 .. 0 = {}
    BY <1>1
  <2> QED
    BY <2>1 DEF Walk
<1>2. ASSUME Walk(0, d, from, to)
      PROVE  from = to
  BY <1>2 DEF Walk
<1> QED
  BY <1>1, <1>2

\* A step added at the end leads further by that step, ...
LEMMA WalkExtended ==
  ASSUME NEW n \in Nat, NEW d, NEW e, NEW from, NEW to, NEW step \in Int,
         Walk(n, d, from, to), \A i \in 1 .. n : e[i] = d[i], e[n + 1] = step
  PROVE  Walk(n + 1, e, from, to + step)
<1>1. PICK sum \in [0 .. n -> Int] : /\ sum[0] = from /\ sum[n] = to
                                     /\ \A i \in 1 .. n : sum[i] = sum[i - 1] + d[i]
  BY DEF Walk
<1> DEFINE longer == [i \in 0 .. n + 1 |-> IF i = n + 1 THEN to + step ELSE sum[i]]
<1>2. to \in Int
  BY <1>1
<1>3. longer \in [0 .. n + 1 -> Int]
  BY <1>1, <1>2
<1>4. longer[0] = from /\ longer[n + 1] = to + step
  BY <1>1
<1>5. ASSUME NEW i \in 1 .. n + 1
      PROVE  longer[i] = longer[i - 1] + e[i]
  <2>1. CASE i = n + 1
    BY <1>1, <2>1
  <2>2. CASE i \in 1 .. n
    BY <1>1, <2>2
  <2> QED
    BY <2>1, <2>2
<1> QED
  BY <1>3, <1>4, <1>5 DEF Walk

\* and one taken from the front leaves the walk from where it leads.
LEMMA WalkShortened ==
  ASSUME NEW n \in Nat, n > 0, NEW d, NEW e, NEW from, NEW to,
         Walk(n, d, from, to), \A i \in 1 .. n - 1 : e[i] = d[i + 1]
  PROVE  Walk(n - 1, e, from + d[1], to)
<1>1. PICK sum \in [0 .. n -> Int] : /\ sum[0] = from /\ sum[n] = to
                                     /\ \A i \in 1 .. n : sum[i] = sum[i - 1] + d[i]
  BY DEF Walk
<1> DEFINE shorter == [i \in 0 .. n - 1 |-> sum[i + 1]]
<1>2. shorter \in [0 .. n - 1 -> Int]
  BY <1>1
<1>3. shorter[0] = from + d[1]
  BY <1>1
<1>4. shorter[n - 1] = to
  BY <1>1
<1>5. ASSUME NEW i \in 1 .. n - 1
      PROVE  shorter[i] = shorter[i - 1] + e[i]
  BY <1>1
<1> QED
  BY <1>2, <1>3, <1>4, <1>5 DEF Walk

BufferSteps == [i \in 1 .. Len(buffer) |-> buffer[i].step]

\* X with the event it executes, then the buffer, the active block and the plan lead
\* to the position from which MotionTask plans the next move.
Ahead == place + (IF IsActive THEN direction ELSE 0)

Leads ==
  \E middle \in Int :
    /\ Walk(Len(buffer), BufferSteps, Ahead, middle)
    /\ Walk(Len(planBuffer), planBuffer, middle + active, position)

LEMMA AheadIsInt ==
  ASSUME AxisOK
  PROVE  Ahead \in Int
  BY AxisTypes DEF Ahead

LEMMA LeadsStutters ==
  ASSUME Leads, UNCHANGED <<buffer, planBuffer, active, position>>, Ahead' = Ahead
  PROVE  Leads'
<1>1. BufferSteps' = BufferSteps
  BY DEF BufferSteps
<1> QED
  BY <1>1 DEF Leads

LEMMA QueueMoveLeads ==
  ASSUME Leads, AxisOK, MotionOK, PlanOK, StreamOK, NEW target \in Int, QueueMove(target), desynced' = {}
  PROVE  Leads' /\ desynced = {}
<1>1. Ahead' = Ahead /\ BufferSteps' = BufferSteps /\ active' = active /\ buffer' = buffer
  BY DEF QueueMove, Ahead, BufferSteps, IsActive, axisVars, generatorVars, streamVars
<1>2. PICK middle \in Int : /\ Walk(Len(buffer), BufferSteps, Ahead, middle)
                            /\ Walk(Len(planBuffer), planBuffer, middle + active, position)
  BY DEF Leads
<1>3. position \in Nat /\ planBuffer \in Seq(Int) /\ Len(planBuffer) \in Nat
  <2>1. position \in Nat
    BY DEF MotionOK
  <2>2. planBuffer \in Seq(Int) /\ Len(planBuffer) \in Nat
    BY DEF PlanOK
  <2> QED
    BY <2>1, <2>2
<1>4. CASE Plans(target) /\ Len(planBuffer) < PlanCapacity
  <2>1. ~PlannerError(target) /\ position' = target
        /\ planBuffer' = Append(planBuffer, target - position) /\ UNCHANGED desynced
    BY <1>4 DEF QueueMove, PlannerError, Plans, PositionAfterMove
  <2>2. /\ Len(planBuffer') = Len(planBuffer) + 1 /\ target - position \in Int
        /\ \A i \in 1 .. Len(planBuffer) : planBuffer'[i] = planBuffer[i]
        /\ planBuffer'[Len(planBuffer) + 1] = target - position
    BY <1>3, <2>1
  <2>3. Walk(Len(planBuffer) + 1, planBuffer', middle + active, position + (target - position))
    BY <1>2, <1>3, <2>2, WalkExtended
  <2>4. position + (target - position) = target
    BY <1>3
  <2>5. Walk(Len(planBuffer'), planBuffer', middle + active, position')
    BY <2>1, <2>2, <2>3, <2>4
  <2> QED
    BY <1>1, <1>2, <2>1, <2>5 DEF Leads
<1>5. CASE PlannerError(target)
  <2>1. /\ ~Plans(target) /\ planBuffer' = << >> /\ position' = position
        /\ desynced' = desynced \cup (IF planBuffer = << >> THEN {} ELSE {"planner error"})
    BY <1>5 DEF QueueMove, PlannerError, Plans, PositionAfterMove
  <2>2. planBuffer = << >> /\ desynced = {}
    BY <2>1
  <2> QED
    BY <1>1, <2>1, <2>2, LeadsStutters
<1>6. CASE ~PlannerError(target) /\ ~(Plans(target) /\ Len(planBuffer) < PlanCapacity)
  <2>1. UNCHANGED <<planBuffer, desynced, position>>
    BY <1>6 DEF QueueMove, PositionAfterMove
  <2> QED
    BY <1>1, <2>1, LeadsStutters
<1> QED
  BY <1>4, <1>5, <1>6

LEMMA GenerateEventLeads ==
  ASSUME Leads, AxisOK, StreamOK, GenerateEvent
  PROVE  Leads'
<1> DEFINE event == [step |-> Sign(active), last |-> active \in {-1, 1}]
<1>1. /\ buffer' = Append(buffer, event) /\ active' = active - Sign(active)
      /\ UNCHANGED <<planBuffer, position>> /\ Ahead' = Ahead
  BY DEF GenerateEvent, Ahead, IsActive, axisVars, motionVars
<1>2. PICK middle \in Int : /\ Walk(Len(buffer), BufferSteps, Ahead, middle)
                            /\ Walk(Len(planBuffer), planBuffer, middle + active, position)
  BY DEF Leads
<1>3. /\ Sign(active) \in Int /\ active \in Int /\ buffer \in Seq(Event) /\ Len(buffer) \in Nat
  BY DEF Sign, StreamOK
<1>4. /\ Len(buffer') = Len(buffer) + 1
      /\ \A i \in 1 .. Len(buffer) : buffer'[i] = buffer[i]
      /\ buffer'[Len(buffer) + 1] = event
  BY <1>1, <1>3
<1>5. /\ \A i \in 1 .. Len(buffer) : BufferSteps'[i] = BufferSteps[i]
      /\ BufferSteps'[Len(buffer) + 1] = Sign(active)
  BY <1>3, <1>4 DEF BufferSteps
<1>6. Walk(Len(buffer'), BufferSteps', Ahead', middle + Sign(active))
  BY <1>1, <1>2, <1>3, <1>4, <1>5, WalkExtended
<1>7. (middle + Sign(active)) + active' = middle + active /\ middle + Sign(active) \in Int
  BY <1>1, <1>3
<1> QED
  BY <1>1, <1>2, <1>6, <1>7 DEF Leads

LEMMA TakeBlockLeads ==
  ASSUME Leads, AxisOK, PlanOK, TakeBlock
  PROVE  Leads'
<1>1. /\ active = 0 /\ planBuffer # << >> /\ active' = Head(planBuffer) /\ planBuffer' = Tail(planBuffer)
      /\ UNCHANGED <<buffer, position>> /\ Ahead' = Ahead /\ BufferSteps' = BufferSteps
  BY DEF TakeBlock, Ahead, BufferSteps, IsActive, axisVars, motionVars, streamVars
<1>2. PICK middle \in Int : /\ Walk(Len(buffer), BufferSteps, Ahead, middle)
                            /\ Walk(Len(planBuffer), planBuffer, middle + active, position)
  BY DEF Leads
<1>3. /\ Len(planBuffer) \in Nat /\ Len(planBuffer) > 0 /\ active' = planBuffer[1]
      /\ Len(planBuffer') = Len(planBuffer) - 1
      /\ \A i \in 1 .. Len(planBuffer) - 1 : planBuffer'[i] = planBuffer[i + 1]
  BY <1>1 DEF PlanOK
<1>4. Walk(Len(planBuffer'), planBuffer', (middle + active) + planBuffer[1], position)
  BY <1>2, <1>3, WalkShortened
<1>5. middle + active = middle
  BY <1>1
<1> QED
  BY <1>1, <1>2, <1>3, <1>4, <1>5 DEF Leads

\* An event taken from the buffer becomes the one X executes.
LEMMA PopEventLeads ==
  ASSUME Leads, AxisOK, StreamOK, buffer # << >>, PopEvent, Ahead' = Ahead + Head(buffer).step,
         UNCHANGED <<planBuffer, active, position>>
  PROVE  Leads'
<1>1. PICK middle \in Int : /\ Walk(Len(buffer), BufferSteps, Ahead, middle)
                            /\ Walk(Len(planBuffer), planBuffer, middle + active, position)
  BY DEF Leads
<1>2. /\ Len(buffer) \in Nat /\ Len(buffer) > 0 /\ Head(buffer) = buffer[1]
      /\ Len(buffer') = Len(buffer) - 1
      /\ \A i \in 1 .. Len(buffer) - 1 : buffer'[i] = buffer[i + 1]
  BY DEF StreamOK, PopEvent
<1>3. /\ \A i \in 1 .. Len(buffer) - 1 : BufferSteps'[i] = BufferSteps[i + 1]
      /\ BufferSteps[1] = Head(buffer).step
  BY <1>2 DEF BufferSteps
<1>4. Walk(Len(buffer'), BufferSteps', Ahead + BufferSteps[1], middle)
  BY <1>1, <1>2, <1>3, WalkShortened
<1> QED
  BY <1>1, <1>3, <1>4 DEF Leads

\* With nothing under way X stands at the position.
LEMMA LeadsNowhere ==
  ASSUME AxisOK, ~IsActive, buffer = << >>, active = 0, planBuffer = << >>
  PROVE  Leads <=> place = position
<1>1. Len(buffer) = 0 /\ Len(planBuffer) = 0 /\ Ahead = place /\ place \in Int
  BY AxisTypes DEF Ahead
<1>2. Walk(0, BufferSteps, place, place) /\ \A middle \in Int : Walk(0, BufferSteps, place, middle) => place = middle
  BY <1>1, EmptyWalk
<1>3. place + 0 = place
  BY <1>1
<1>4. \A middle \in Int : Walk(0, planBuffer, middle + 0, position) <=> middle = position
  <2> TAKE middle \in Int
  <2>1. middle + 0 \in Int /\ middle + 0 = middle
    OBVIOUS
  <2> QED
    BY <2>1, EmptyWalk
<1> QED
  BY <1>1, <1>2, <1>3, <1>4 DEF Leads

-----------------------------------------------------------------------------
(* A homed axis and its position. *)

\* The scale of a homed axis counts from the edge of the start switch.
HomedOK == homed => zero = 0 /\ place >= 0 /\ stepsLeft = 0

\* While no stop, fault or lost event came between, what is under way leads to the
\* position; after a STOP the position is where X stands.
LeadsOK ==
  /\ homed /\ desynced = {} /\ motionStep \notin StopPhases /\ StopReset \notin flags
       /\ status \in {"READY", "COMPLETE", "STARTING", "RUNNING"} => Leads
  /\ homed /\ StopReset \in flags => position = place

\* A homing that dropped nothing has nothing under way.
NothingUnderWay == planBuffer = << >> /\ buffer = << >> /\ active = 0
HomingIsAlone == homePhase # "IDLE" /\ desynced = {} => NothingUnderWay

PositionOK == HomedOK /\ LeadsOK /\ HomingIsAlone

\* A stream runs on a homed axis only.  An axis that is not, and does not home, has nothing
\* to start, but at the end of a STOP that ended its homing or acknowledged its fault:
\* then the generator sleeps until it is told to drop what is left.
RunsHomed ==
  /\ IsActive /\ ~IsJog => homed
  /\ ~homed /\ homePhase = "IDLE" /\ (IsActive \/ (status \in {"READY", "COMPLETE"} /\ ~NothingUnderWay))
       => (motionStep = "settle" /\ TasksRun) \/ StopReset \in flags

\* Homing comes to its end on the edge.
LEMMA HomeCompleteIsOnTheEdge ==
  ASSUME AxisOK, HomingOK, HomeComplete
  PROVE  /\ place = 0 /\ place' = 0 /\ zero' = 0 /\ stepsLeft' = 0 /\ status' = "READY" /\ ~IsActive'
         /\ position' = 0 /\ homePhase = "APPROACH" /\ homePhase' = "IDLE"
         /\ UNCHANGED <<planBuffer, buffer, active, desynced, flags>>
<1>1. /\ homePhase = "APPROACH" /\ EndedBy("START_LIMIT") /\ ReadyAfterHome
      /\ position' = 0 /\ homePhase' = "IDLE"
      /\ UNCHANGED <<planBuffer, buffer, active, desynced, flags>>
  BY DEF HomeComplete, ApproachDone, HomingUnchanged, generatorVars, streamVars
<1>2. place = 0 /\ zero = 0
  BY <1>1 DEF HomingOK, ApproachOK
<1> QED
  BY <1>1, <1>2, RecoveryKeepsAxisOK

\* What an interrupt can do to a homed axis.
LEMMA HomedInterrupt ==
  ASSUME AxisOK, HomingOK, HomedOK, homed,
         Ends \/ (IsActive /\ zero' = zero /\ stepsLeft' = stepsLeft /\ place' \in {place, place + direction})
  PROVE  zero' = 0 /\ place' >= 0 /\ stepsLeft' = 0
<1>1. place \in Int /\ direction \in {-1, 1} /\ zero = 0 /\ place >= 0 /\ stepsLeft = 0
  BY AxisTypes DEF HomedOK
<1>2. braking = None /\ ~hookArmed
  BY <1>1 DEF AxisOK, HomingOK, IsJog
<1>3. /\ IsActive /\ zero' = zero /\ stepsLeft' = 0 /\ place' \in {place, place + direction}
  BY <1>1, <1>2 DEF Ends
<1>4. LimitBlocks(place, direction) = None
  BY <1>2, <1>3 DEF AxisOK
<1>5. direction = -1 => place > 0
  BY <1>1, <1>4, LimitBlocksCases
<1> QED
  BY <1>1, <1>3, <1>5

LEMMA NextKeepsHomedOK ==
  ASSUME AxisOK, HomingOK, StreamOK, HomedOK, [Next]_vars
  PROVE  HomedOK'
<1>1. ASSUME UNCHANGED <<place, zero, stepsLeft>>, homed' = homed \/ ~homed'
      PROVE  HomedOK'
  BY <1>1 DEF HomedOK
<1>2. ASSUME UNCHANGED axisVars, homed' = homed \/ ~homed'
      PROVE  HomedOK'
  BY <1>1, <1>2 DEF axisVars
<1>3. ASSUME NEW command \in Request, AcceptCommand(command)
      PROVE  HomedOK'
  BY <1>2, <1>3 DEF AcceptCommand, motionVars
<1>4. CASE StopArrives \/ StopDiscards \/ StopIsQueued
  BY <1>2, <1>4 DEF StopArrives, StopDiscards, StopIsQueued, motionVars
<1>5. CASE Receive \/ ReceiveTimesOut \/ DropCommand \/ NothingToPoll \/ ClearPlan \/ FinishStop \/ BackoffSettles
  BY <1>2, <1>5 DEF Receive, ReceiveTimesOut, DropCommand, NothingToPoll, ClearPlan, FinishStop, BackoffSettles
<1>6. CASE ExecuteMove \/ ExecuteJog
  BY <1>2, <1>6 DEF ExecuteMove, ExecuteJog, QueueMove
<1>7. CASE GeneratorWakes \/ GenerateEvent \/ TakeBlock \/ FillEnds
  BY <1>2, <1>7 DEF GeneratorWakes, GenerateEvent, TakeBlock, FillEnds, motionVars
<1>8. CASE StopRequestsAxis \/ StopStoresRequest \/ StopRequest \/ StopStore
  <2>1. homed' = homed
    BY <1>8 DEF StopRequestsAxis, StopStoresRequest, StopRequest, StopStore, motionVars
  <2>2. CASE UNCHANGED axisVars
    BY <1>2, <2>1, <2>2
  <2>3. CASE \E task \in {"command", "motion"} : RequestStopCheck(task) \/ RequestStopStore(task)
    BY <1>1, <2>1, <2>3, RequestKeepsAxisOK
  <2> QED
    BY <1>8, <2>2, <2>3 DEF StopRequestsAxis, StopStoresRequest, StopRequest, StopStore
<1>9. CASE StopAxisTask
  <2>1. CASE homed' = FALSE
    BY <2>1 DEF HomedOK
  <2>2. CASE UNCHANGED <<axisVars, homed>>
    BY <1>2, <2>2
  <2> QED
    BY <1>9, <2>1, <2>2 DEF StopAxisTask
<1>10. CASE HomeBegin \/ StartBackoff \/ StartApproach \/ HomeFails
  <2>1. homed' = FALSE \/ UNCHANGED <<axisVars, homed>>
    BY <1>10 DEF HomeBegin, StartBackoff, StartApproach, HomeFails, HomeStartMove, HomeAbort
  <2> QED
    BY <1>2, <2>1 DEF HomedOK
<1>11. CASE HomeComplete
  BY <1>11, HomeCompleteIsOnTheEdge DEF HomedOK
<1>12. CASE StartAxis
  <2>1. UNCHANGED <<homePhase, homed, motionStep>>
    BY <1>12 DEF StartAxis, motionVars
  <2>2. CASE Startable /\ PopEvent /\ StartEvent(Head(buffer).step, 0, FALSE)
    <3>1. Head(buffer).step \in {-1, 1}
      BY <2>2, PopKeepsStream DEF Startable
    <3>2. place' = place /\ zero' = zero /\ stepsLeft' = 0
      BY <2>1, <2>2, <3>1, StartAxisOutcome
    <3> QED
      BY <2>1, <3>2 DEF HomedOK
  <2>3. CASE UNCHANGED axisVars
    BY <1>2, <2>1, <2>3
  <2> QED
    BY <1>12, <2>2, <2>3 DEF StartAxis
<1>13. CASE AxisInterrupt
  <2> SUFFICES ASSUME homed'
               PROVE  zero' = 0 /\ place' >= 0 /\ stepsLeft' = 0
    BY DEF HomedOK
  <2>1. homed
    BY <1>13 DEF AxisInterrupt, TakesNoEvent, StreamRunsOut, NextEvent, motionVars
  <2>2. CASE JogInterrupt
    <3>1. stepsLeft = 0
      BY <2>1 DEF HomedOK
    <3>2. CASE Runs
      BY <2>1, <3>2, HomedInterrupt, StatusCases DEF Runs, IsActive
    <3>3. CASE Ends
      BY <2>1, <3>3, HomedInterrupt
    <3> QED
      BY <2>2, <3>1, <3>2, <3>3, JogInterruptOutcome DEF Continues
  <2>3. CASE StreamRunsOut
    <3>1. Ends
      BY <2>3, StreamEndsOutcome DEF StreamRunsOut, Faults
    <3> QED
      BY <2>1, <3>1, HomedInterrupt
  <2>4. CASE NextEvent
    <3>1. Head(buffer).step \in {-1, 1}
      BY <2>4, PopKeepsStream DEF NextEvent
    <3>2. CASE StreamContinues(Head(buffer).step)
      BY <2>1, <3>1, <3>2, StreamContinuesOutcome, PulseMoves, HomedInterrupt
    <3>3. CASE StreamEnds("FAULT_TIMING")
      BY <2>1, <3>3, StreamEndsOutcome, HomedInterrupt DEF Faults
    <3> QED
      BY <2>4, <3>2, <3>3 DEF NextEvent
  <2> QED
    BY <1>13, <2>2, <2>3, <2>4 DEF AxisInterrupt, TakesNoEvent
<1>14. CASE UNCHANGED vars
  BY <1>2, <1>14 DEF vars, motionVars
<1> QED
  BY <1>3, <1>4, <1>5, <1>6, <1>7, <1>8, <1>9, <1>10, <1>11, <1>12, <1>13, <1>14
     DEF Next, CommandTask, MotionTask, HomePoll, MotionStop, StepGenerator

LEMMA NextKeepsHomingIsAlone ==
  ASSUME AxisOK, HomingOK, StreamOK, HomingIsAlone, [Next]_vars
  PROVE  HomingIsAlone'
<1>1. ASSUME UNCHANGED <<planBuffer, buffer, active, desynced>>, homePhase' = homePhase \/ homePhase # "IDLE"
      PROVE  HomingIsAlone'
  BY <1>1 DEF HomingIsAlone, NothingUnderWay
<1>2. ASSUME NEW command \in Request, AcceptCommand(command)
      PROVE  HomingIsAlone'
  BY <1>1, <1>2 DEF AcceptCommand, motionVars, generatorVars, streamVars
<1>3. CASE StopArrives \/ CommandTask
  BY <1>1, <1>3
     DEF StopArrives, CommandTask, StopRequestsAxis, StopStoresRequest, StopDiscards, StopIsQueued,
         motionVars, generatorVars, streamVars
<1>4. CASE Receive \/ ReceiveTimesOut \/ DropCommand \/ NothingToPoll \/ BackoffSettles \/ StopRequest \/ StopStore
  BY <1>1, <1>4
     DEF Receive, ReceiveTimesOut, DropCommand, NothingToPoll, BackoffSettles, StopRequest, StopStore,
         HomingUnchanged, generatorVars, streamVars
<1>5. CASE ExecuteMove \/ ExecuteJog
  BY <1>5 DEF ExecuteMove, ExecuteJog, QueueMove, HomingIsAlone
<1>6. CASE HomeBegin
  BY <1>1, <1>6 DEF HomeBegin, HomingIsAlone, NothingUnderWay, generatorVars, streamVars
<1>7. CASE StartBackoff \/ StartApproach
  <2>1. homePhase # "IDLE"
    BY <1>7 DEF StartBackoff, StartApproach, Judged, HomingOK
  <2> QED
    BY <1>1, <1>7, <2>1 DEF StartBackoff, StartApproach, HomingUnchanged, generatorVars, streamVars
<1>8. CASE HomeComplete \/ HomeFails \/ StopAxisTask
  BY <1>8 DEF HomeComplete, HomeFails, HomeAbort, StopAxisTask, HomingIsAlone
<1>9. CASE ClearPlan
  BY <1>9 DEF ClearPlan, HomingIsAlone, NothingUnderWay, generatorVars, streamVars
<1>10. CASE FinishStop
  <2>1. UNCHANGED <<homePhase, planBuffer, buffer, active>> /\ desynced' = IF homed THEN {} ELSE desynced
    BY <1>10 DEF FinishStop, generatorVars, streamVars
  <2> QED
    BY <2>1 DEF HomingIsAlone, NothingUnderWay, HomingOK
<1>11. CASE StepGenerator \/ AxisInterrupt
  <2>1. UNCHANGED <<homePhase, desynced>>
    BY <1>11
       DEF StepGenerator, GeneratorWakes, GenerateEvent, TakeBlock, FillEnds, StartAxis,
           AxisInterrupt, TakesNoEvent, StreamRunsOut, NextEvent, motionVars
  <2> SUFFICES ASSUME homePhase # "IDLE", desynced = {}
               PROVE  NothingUnderWay'
    BY <2>1 DEF HomingIsAlone
  <2>2. NothingUnderWay
    BY DEF HomingIsAlone
  <2> QED
    BY <1>11, <2>2
       DEF NothingUnderWay, StepGenerator, GeneratorWakes, GenerateEvent, TakeBlock, FillEnds, StartAxis, Startable,
           AxisInterrupt, TakesNoEvent, StreamRunsOut, NextEvent, generatorVars, streamVars
<1>12. CASE UNCHANGED vars
  BY <1>1, <1>12 DEF vars, motionVars, generatorVars, streamVars
<1> QED
  BY <1>2, <1>3, <1>4, <1>5, <1>6, <1>7, <1>8, <1>9, <1>10, <1>11, <1>12
     DEF Next, MotionTask, HomePoll, MotionStop

\* What LeadsOK asks of a step that sets no STOP_RESET.
LeadingStep ==
  homed' /\ desynced' = {} /\ motionStep' \notin StopPhases
    /\ status' \in {"READY", "COMPLETE", "STARTING", "RUNNING"} => Leads'

LEMMA InterruptLeads ==
  ASSUME AxisOK, HomingOK, StreamOK, HomedOK, LeadsOK, StopReset \notin flags, AxisInterrupt
  PROVE  LeadingStep
<1>1. UNCHANGED <<homed, desynced, motionStep, position, planBuffer, active>>
  BY DEF AxisInterrupt, TakesNoEvent, StreamRunsOut, NextEvent, motionVars, generatorVars
<1> SUFFICES ASSUME homed, desynced = {}, motionStep \notin StopPhases,
                    status' \in {"READY", "COMPLETE", "STARTING", "RUNNING"}
             PROVE  Leads'
  BY <1>1 DEF LeadingStep
<1>2. place \in Int /\ direction \in {-1, 1} /\ stepsLeft = 0
  BY AxisTypes DEF HomedOK
<1>3. IsActive => Leads /\ Ahead = place + direction
  BY DEF LeadsOK, IsActive, ActiveStatuses, Ahead
<1>4. CASE TakesNoEvent
  <2>1. UNCHANGED buffer
    BY <1>4 DEF TakesNoEvent, streamVars
  <2>2. CASE Runs
    <3>1. IsActive /\ IsActive' /\ UNCHANGED <<direction, place>>
      BY <2>2, StatusCases DEF Runs, IsActive
    <3> QED
      BY <1>1, <1>3, <2>1, <3>1, LeadsStutters DEF Ahead
  <2>3. CASE Ends /\ (status' = "COMPLETE" => JogCompletes)
    BY <1>2, <2>3 DEF Ends, JogCompletes
  <2>4. ~Continues
    BY <1>2 DEF Continues
  <2> QED
    BY <1>4, <2>2, <2>3, <2>4, JogInterruptOutcome DEF TakesNoEvent
<1>5. CASE StreamRunsOut
  <2>1. UNCHANGED buffer
    BY <1>5 DEF StreamRunsOut, streamVars
  <2>2. Ends /\ place' = place + direction
    BY <1>5, StreamEndsOutcome DEF StreamRunsOut, Faults
  <2>3. IsActive /\ Ahead' = place'
    BY <2>2 DEF Ends, Ahead
  <2> QED
    BY <1>1, <1>3, <2>1, <2>2, <2>3, LeadsStutters
<1>6. CASE NextEvent
  <2>1. Head(buffer).step \in {-1, 1} /\ buffer # << >> /\ PopEvent
    BY <1>6, PopKeepsStream DEF NextEvent
  <2>2. CASE StreamContinues(Head(buffer).step)
    <3>1. IsActive /\ place' = place + direction
      BY <2>1, <2>2, StreamContinuesOutcome, PulseMoves
    <3>2. direction' = Head(buffer).step /\ status' = status
      BY <2>1, <2>2, StreamContinuesOutcome
    <3>3. Ahead' = Ahead + Head(buffer).step
      BY <1>3, <3>1, <3>2 DEF Ahead, IsActive
    <3> QED
      BY <1>1, <1>3, <2>1, <3>1, <3>3, PopEventLeads
  <2>3. CASE StreamEnds("FAULT_TIMING")
    BY <2>3, StreamEndsOutcome DEF Faults
  <2> QED
    BY <1>6, <2>2, <2>3 DEF NextEvent
<1> QED
  BY <1>4, <1>5, <1>6 DEF AxisInterrupt

\* A step that leaves nothing under way and X at the position.
LEMMA AtRestLeads ==
  ASSUME place' \in Int, ~IsActive', buffer' = << >>, active' = 0, planBuffer' = << >>, position' = place'
  PROVE  Leads'
<1>1. Len(<< >>) = 0 /\ Len(buffer') = 0 /\ Len(planBuffer') = 0
  OBVIOUS
<1>2. place' + 0 = place' /\ place' + active' = place'
  <2>1. \A n \in Int : n + 0 = n
    OBVIOUS
  <2> QED
    BY <2>1
<1>3. Ahead' = place'
  BY <1>2 DEF Ahead, IsActive
<1>4. Walk(0, BufferSteps', place', place')
  BY EmptyWalk
<1>5. Walk(0, planBuffer', place', place')
  BY EmptyWalk
<1> QED
  BY <1>1, <1>2, <1>3, <1>4, <1>5 DEF Leads

LEMMA GeneratorLeads ==
  ASSUME AxisOK, HomingOK, StreamOK, PlanOK, ResetOK, HomedOK, LeadsOK, StepGenerator
  PROVE  LeadingStep
<1>1. UNCHANGED <<homed, desynced, motionStep, position, homePhase>>
  BY DEF StepGenerator, GeneratorWakes, GenerateEvent, TakeBlock, FillEnds, StartAxis, motionVars
<1> SUFFICES ASSUME homed, desynced = {}, motionStep \notin StopPhases,
                    status' \in {"READY", "COMPLETE", "STARTING", "RUNNING"}
             PROVE  Leads'
  BY <1>1 DEF LeadingStep
<1>2. ASSUME UNCHANGED axisVars, StopReset \notin flags
      PROVE  Leads /\ Ahead' = Ahead
  BY <1>2 DEF LeadsOK, axisVars, Ahead, IsActive
<1>3. CASE GeneratorWakes /\ StopReset \in flags
  <2>1. ~IsActive /\ planBuffer = << >> /\ position = place
    BY <1>3 DEF ResetOK, LeadsOK
  <2>2. UNCHANGED axisVars /\ planBuffer' = planBuffer /\ active' = 0 /\ buffer' = << >>
    BY <1>3 DEF GeneratorWakes
  <2>3. ~IsActive' /\ place' = place /\ place' \in Int
    BY <2>1, <2>2, AxisTypes DEF axisVars, IsActive
  <2> QED
    BY <1>1, <2>1, <2>2, <2>3, AtRestLeads
<1>4. CASE GeneratorWakes /\ StopReset \notin flags
  <2>1. UNCHANGED <<planBuffer, active, buffer>> /\ UNCHANGED axisVars
    BY <1>4 DEF GeneratorWakes
  <2> QED
    BY <1>1, <1>2, <1>4, <2>1, LeadsStutters
<1>5. ASSUME generatorStep # "wait"
      PROVE  StopReset \notin flags
  BY <1>5 DEF ResetOK
<1>6. CASE GenerateEvent
  BY <1>2, <1>5, <1>6, GenerateEventLeads DEF GenerateEvent
<1>7. CASE TakeBlock
  BY <1>2, <1>5, <1>7, TakeBlockLeads DEF TakeBlock
<1>8. CASE FillEnds
  <2>1. UNCHANGED <<planBuffer, active, buffer>> /\ UNCHANGED axisVars /\ generatorStep = "fill"
    BY <1>8 DEF FillEnds, streamVars
  <2> QED
    BY <1>1, <1>2, <1>5, <2>1, LeadsStutters
<1>9. CASE StartAxis
  <2>1. UNCHANGED <<planBuffer, active>> /\ generatorStep = "start"
    BY <1>9 DEF StartAxis
  <2>2. CASE UNCHANGED axisVars /\ UNCHANGED <<streamVars, flags>>
    BY <1>1, <1>2, <1>5, <2>1, <2>2, LeadsStutters DEF streamVars
  <2>3. CASE Startable /\ PopEvent /\ StartEvent(Head(buffer).step, 0, FALSE)
    <3>1. Head(buffer).step \in {-1, 1} /\ buffer # << >>
      BY <2>3, PopKeepsStream DEF Startable
    <3>2. /\ place' = place /\ ~IsActive
          /\ status' = "STOPPED" \/ (status' = "STARTING" /\ direction' = Head(buffer).step)
      BY <1>1, <2>3, <3>1, StartAxisOutcome
    <3>3. Leads /\ Ahead = place /\ place \in Int
      BY <1>5, <2>1, <2>3, <3>2, AxisTypes DEF LeadsOK, Startable, Ahead
    <3>4. Ahead' = Ahead + Head(buffer).step
      BY <3>2, <3>3, StatusCases DEF Ahead, IsActive
    <3> QED
      BY <1>1, <2>1, <2>3, <3>1, <3>3, <3>4, PopEventLeads
  <2> QED
    BY <1>9, <2>2, <2>3 DEF StartAxis
<1> QED
  BY <1>3, <1>4, <1>6, <1>7, <1>8, <1>9 DEF StepGenerator

\* A step that moves nothing under way.
LEMMA StayingLeads ==
  ASSUME LeadsOK, StopReset \notin flags,
         UNCHANGED <<status, direction, place>>,
         UNCHANGED <<homed, desynced, position, planBuffer, active, buffer>>,
         motionStep' \in StopPhases \/ motionStep \notin StopPhases
  PROVE  LeadingStep
<1> SUFFICES ASSUME homed, desynced = {}, motionStep \notin StopPhases,
                    status \in {"READY", "COMPLETE", "STARTING", "RUNNING"}
             PROVE  Leads'
  BY DEF LeadingStep
<1>1. Leads /\ Ahead' = Ahead
  BY DEF LeadsOK, Ahead, IsActive
<1> QED
  BY <1>1, LeadsStutters

LEMMA TaskLeads ==
  ASSUME AxisOK, HomingOK, MotionOK, PlanOK, StreamOK, HomedOK, LeadsOK, HomingIsAlone,
         (\E command \in Request : AcceptCommand(command)) \/ StopArrives \/ CommandTask \/ MotionTask,
         ~FinishStop
  PROVE  LeadingStep
<1>1. flags = {}
  BY DEF AcceptCommand, StopArrives, CommandTask, StopRequestsAxis, StopStoresRequest, StopDiscards, StopIsQueued,
         MotionTask, Receive, ReceiveTimesOut, DropCommand, ExecuteMove, ExecuteJog, Executes, HomeBegin,
         HomePoll, NothingToPoll, StartBackoff, BackoffSettles, StartApproach, HomeComplete, HomeFails, Judged,
         MotionStop, ClearPlan, StopRequest, StopStore, StopAxisTask, TasksRun
<1>2. ASSUME UNCHANGED <<status, direction, place>>,
             UNCHANGED <<homed, desynced, position, planBuffer, active, buffer>>,
             motionStep' \in StopPhases \/ motionStep \notin StopPhases
      PROVE  LeadingStep
  BY <1>1, <1>2, StayingLeads
<1>3. ASSUME ~homed' \/ motionStep' \in StopPhases
      PROVE  LeadingStep
  BY <1>3 DEF LeadingStep
<1>4. ASSUME NEW task \in {"command", "motion"}, RequestStopCheck(task) \/ RequestStopStore(task)
      PROVE  UNCHANGED <<status, direction, place>>
  BY <1>4, RequestKeepsAxisOK
<1>5. ASSUME NEW command \in Request, AcceptCommand(command)
      PROVE  LeadingStep
  BY <1>2, <1>5 DEF AcceptCommand, axisVars, motionVars, generatorVars, streamVars
<1>6. CASE StopArrives \/ StopDiscards \/ StopIsQueued
  BY <1>2, <1>6 DEF StopArrives, StopDiscards, StopIsQueued, axisVars, motionVars, generatorVars, streamVars
<1>7. CASE StopRequestsAxis \/ StopStoresRequest
  <2>1. UNCHANGED <<homed, desynced, position, planBuffer, active, buffer, motionStep>>
    BY <1>7 DEF StopRequestsAxis, StopStoresRequest, motionVars, generatorVars, streamVars
  <2>2. UNCHANGED <<status, direction, place>>
    BY <1>4, <1>7 DEF StopRequestsAxis, StopStoresRequest, axisVars
  <2> QED
    BY <1>2, <2>1, <2>2
<1>8. CASE Receive \/ ReceiveTimesOut \/ DropCommand \/ NothingToPoll \/ BackoffSettles
  <2>1. UNCHANGED <<homed, desynced, position, planBuffer, active, buffer>> /\ motionStep \notin StopPhases
    BY <1>8 DEF Receive, ReceiveTimesOut, DropCommand, NothingToPoll, BackoffSettles, Judged, HomingUnchanged,
                generatorVars, streamVars, StopPhases
  <2>2. UNCHANGED <<status, direction, place>>
    BY <1>8 DEF Receive, ReceiveTimesOut, DropCommand, NothingToPoll, BackoffSettles, axisVars
  <2> QED
    BY <1>2, <2>1, <2>2
<1>9. CASE ExecuteMove \/ ExecuteJog
  <2>1. PICK target \in Int : QueueMove(target)
    BY <1>9, MovesAreQueued DEF Queues
  <2>2. motionStep \notin StopPhases
    BY <1>9 DEF ExecuteMove, ExecuteJog, Executes, StopPhases
  <2>3. UNCHANGED <<homed, status>>
    BY <2>1 DEF QueueMove, axisVars
  <2>4. desynced' = {} => desynced = {}
    BY <2>1 DEF QueueMove
  <2> SUFFICES ASSUME homed, desynced' = {}, status \in {"READY", "COMPLETE", "STARTING", "RUNNING"}
               PROVE  Leads'
    BY <2>3 DEF LeadingStep
  <2>5. Leads
    BY <1>1, <2>2, <2>4 DEF LeadsOK
  <2> QED
    BY <2>1, <2>5, QueueMoveLeads
<1>10. CASE HomeBegin
  <2>1. CASE homed' = FALSE
    BY <1>3, <2>1
  <2>2. CASE UNCHANGED <<axisVars, homed, planBuffer, desynced>>
    <3>1. UNCHANGED <<position, active, buffer>> /\ motionStep \notin StopPhases
      BY <1>10 DEF HomeBegin, Executes, generatorVars, streamVars, StopPhases
    <3> QED
      BY <1>2, <2>2, <3>1 DEF axisVars
  <2> QED
    BY <1>10, <2>1, <2>2 DEF HomeBegin, HomeStartMove, HomeAbort
<1>11. CASE StartBackoff \/ StartApproach \/ HomeFails
  BY <1>3, <1>11 DEF StartBackoff, StartApproach, HomeFails, HomeStartMove, HomeAbort
<1>12. CASE HomeComplete
  <2> SUFFICES ASSUME desynced' = {}
               PROVE  Leads'
    BY DEF LeadingStep
  <2>1. /\ place' = 0 /\ ~IsActive' /\ position' = 0 /\ homePhase = "APPROACH" /\ desynced = {}
        /\ UNCHANGED <<planBuffer, buffer, active>>
    BY <1>12, HomeCompleteIsOnTheEdge
  <2>2. NothingUnderWay
    BY <2>1 DEF HomingIsAlone
  <2> QED
    BY <2>1, <2>2, AtRestLeads DEF NothingUnderWay
<1>13. CASE ClearPlan \/ StopRequest \/ StopStore \/ StopAxisTask
  BY <1>3, <1>13 DEF ClearPlan, StopRequest, StopStore, StopAxisTask, StopPhases
<1> QED
  BY <1>5, <1>6, <1>7, <1>8, <1>9, <1>10, <1>11, <1>12, <1>13
     DEF CommandTask, MotionTask, HomePoll, MotionStop

LEMMA NextKeepsLeadsOK ==
  ASSUME AxisOK, HomingOK, MotionOK, PlanOK, StreamOK, ResetOK, PositionOK, [Next]_vars
  PROVE  LeadsOK'
<1>1. HomedOK /\ LeadsOK /\ HomingIsAlone
  BY DEF PositionOK
<1>2. CASE FinishStop
  <2>1. /\ StopReset \in flags' /\ UNCHANGED <<homed, place>>
        /\ position' = IF homed THEN Scale ELSE position
    BY <1>2 DEF FinishStop, axisVars
  <2>2. homed => Scale = place
    BY <1>1, AxisTypes DEF HomedOK, Scale
  <2> QED
    BY <2>1, <2>2 DEF LeadsOK
<1>3. CASE Next /\ ~FinishStop
  <2>1. StopReset \notin flags'
    BY <1>3, OnlyFinishStopResets
  <2>2. LeadingStep
    <3>1. CASE StepGenerator
      BY <1>1, <3>1, GeneratorLeads
    <3>2. CASE AxisInterrupt
      <4>1. IsActive
        BY <3>2, InterruptsNeedMotion
      <4> QED
        BY <1>1, <3>2, <4>1, InterruptLeads DEF ResetOK
    <3> QED
      BY <1>1, <1>3, <3>1, <3>2, TaskLeads DEF Next
  <2> QED
    BY <2>1, <2>2 DEF LeadsOK, LeadingStep
<1>4. CASE UNCHANGED vars
  <2>1. /\ UNCHANGED <<homed, desynced, position, planBuffer, active, buffer>>
        /\ UNCHANGED <<status, direction, place, motionStep, flags>>
    BY <1>4 DEF vars, axisVars, motionVars, generatorVars, streamVars
  <2>2. Ahead' = Ahead
    BY <2>1 DEF Ahead, IsActive
  <2> QED
    BY <1>1, <2>1, <2>2, LeadsStutters DEF LeadsOK
<1> QED
  BY <1>2, <1>3, <1>4

\* Steps that start nothing and come while the tasks run, before the end of a STOP.
LEMMA CallKeepsRunsHomed ==
  ASSUME RunsHomed, TasksRun, motionStep # "settle",
         UNCHANGED <<status, stepsLeft, homePhase, homed>>, NothingUnderWay => NothingUnderWay'
  PROVE  RunsHomed'
<1>1. flags = {}
  BY DEF TasksRun
<1>2. ~(~homed /\ homePhase = "IDLE" /\ (IsActive \/ (status \in {"READY", "COMPLETE"} /\ ~NothingUnderWay)))
  BY <1>1 DEF RunsHomed
<1>3. IsActive' = IsActive /\ IsJog' = IsJog
  BY DEF IsActive, IsJog
<1> QED
  BY <1>2, <1>3 DEF RunsHomed

LEMMA HomingKeepsRunsHomed ==
  ASSUME AxisOK, HomingOK, RunsHomed, HomeBegin \/ StartBackoff \/ StartApproach \/ HomeComplete \/ HomeFails
  PROVE  RunsHomed'
<1>1. CASE HomeBegin /\ IsActive
  <2>1. UNCHANGED <<axisVars, homePhase, homed, planBuffer, active, buffer>> /\ TasksRun /\ motionStep = "execute"
    BY <1>1 DEF HomeBegin, Executes, generatorVars, streamVars
  <2> QED
    BY <2>1, CallKeepsRunsHomed DEF axisVars, NothingUnderWay
<1>2. CASE (HomeBegin /\ ~IsActive) \/ StartBackoff \/ StartApproach
  <2>1. /\ ~IsActive
        /\ \E phase \in {"FAST_SEEK", "BACKOFF", "APPROACH"}, d \in {-1, 1}, profiled \in BOOLEAN :
             HomeStartMove(phase, d, profiled)
    BY <1>2 DEF HomeBegin, StartBackoff, StartApproach, Judged, HomingOK
  <2>2. PICK phase \in {"FAST_SEEK", "BACKOFF", "APPROACH"}, d \in {-1, 1}, profiled \in BOOLEAN :
          HomeStartMove(phase, d, profiled)
    BY <2>1
  <2>3. CASE ~CanStart /\ HomeAbort
    <3>1. status \in Status /\ status' = status
      BY <2>3 DEF AxisOK, AxisTypeOK, HomeAbort, Disarm
    <3>2. ~IsActive' /\ status' \notin {"READY", "COMPLETE"}
      BY <2>1, <2>3, <3>1, StatusCases DEF CanStart, IsActive
    <3> QED
      BY <3>2 DEF RunsHomed
  <2>4. CASE homePhase' = phase /\ \E release, hook : StartArmed(d, HomeSteps, profiled, release, hook)
    <3>1. homePhase' # "IDLE" /\ (status' = "STARTING" => stepsLeft' = HomeSteps) /\ status' \in {"STOPPED", "STARTING"}
      BY <2>4 DEF StartArmed
    <3>2. HomeSteps # 0
      BY HomeStepsAssumption
    <3>3. IsActive' => IsJog'
      BY <3>1, <3>2, StatusCases DEF IsActive, IsJog
    <3> QED
      BY <3>1, <3>3 DEF RunsHomed
  <2> QED
    BY <2>2, <2>3, <2>4 DEF HomeStartMove
<1>3. CASE HomeComplete
  <2>1. homed' /\ status' = "READY"
    BY <1>3, HomeCompleteIsOnTheEdge DEF HomeComplete
  <2> QED
    BY <2>1 DEF RunsHomed
<1>4. CASE HomeFails
  <2>1. ~IsActive /\ status' = status /\ homePhase # "IDLE"
    BY <1>4 DEF HomeFails, Judged, HomeAbort, Disarm
  <2>2. ~IsActive' /\ status' \notin {"READY", "COMPLETE"}
    BY <2>1 DEF HomingOK, IsActive
  <2> QED
    BY <2>2 DEF RunsHomed
<1> QED
  BY <1>1, <1>2, <1>3, <1>4

LEMMA StopKeepsRunsHomed ==
  ASSUME AxisOK, HomingOK, RunsHomed, StopAxisTask \/ FinishStop
  PROVE  RunsHomed'
<1>1. CASE StopAxisTask
  <2>1. motionStep' = "settle" /\ TasksRun'
    BY <1>1 DEF StopAxisTask, TasksRun, HomingUnchanged, generatorVars
  <2>2. IsActive' /\ ~IsJog' => homed'
    <3>1. CASE ClearFault
      BY <3>1, RecoveryKeepsAxisOK
    <3>2. CASE homePhase # "IDLE" /\ Disarm
      <4>1. status' = status /\ stepsLeft' = stepsLeft /\ ~homed
        BY <3>2 DEF Disarm, HomingOK
      <4> QED
        BY <4>1 DEF RunsHomed, IsActive, IsJog
    <3>3. CASE UNCHANGED <<axisVars, homed>>
      BY <3>3 DEF RunsHomed, IsActive, IsJog, axisVars
    <3> QED
      BY <1>1, <3>1, <3>2, <3>3 DEF StopAxisTask
  <2> QED
    BY <2>1, <2>2 DEF RunsHomed
<1>2. CASE FinishStop
  <2>1. StopReset \in flags' /\ ~IsActive /\ UNCHANGED axisVars
    BY <1>2 DEF FinishStop, AtRest
  <2> QED
    BY <2>1 DEF RunsHomed, IsActive, axisVars
<1> QED
  BY <1>1, <1>2

LEMMA GeneratorKeepsRunsHomed ==
  ASSUME AxisOK, HomingOK, StreamOK, ResetOK, RunsHomed, StepGenerator
  PROVE  RunsHomed'
<1>1. UNCHANGED <<homePhase, homed>>
  BY DEF StepGenerator, GeneratorWakes, GenerateEvent, TakeBlock, FillEnds, StartAxis, motionVars
<1>2. ~TasksRun
  BY DEF StepGenerator, GeneratorWakes, GenerateEvent, TakeBlock, FillEnds, StartAxis, TasksRun
<1>3. ASSUME StopReset \notin flags, ~homed, homePhase = "IDLE"
      PROVE  ~IsActive /\ (status \in {"READY", "COMPLETE"} => NothingUnderWay)
  BY <1>2, <1>3 DEF RunsHomed
<1>4. CASE GeneratorWakes /\ StopReset \in flags
  <2>1. ~IsActive /\ planBuffer = << >>
    BY <1>4 DEF ResetOK
  <2>2. UNCHANGED <<axisVars, planBuffer>> /\ active' = 0 /\ buffer' = << >>
    BY <1>4 DEF GeneratorWakes
  <2>3. ~IsActive' /\ NothingUnderWay'
    BY <2>1, <2>2 DEF IsActive, NothingUnderWay, axisVars
  <2> QED
    BY <2>3 DEF RunsHomed
<1>5. CASE (GeneratorWakes /\ StopReset \notin flags) \/ GenerateEvent \/ TakeBlock \/ FillEnds
  <2>1. StopReset \notin flags
    BY <1>5 DEF ResetOK, GenerateEvent, TakeBlock, FillEnds
  <2>2. UNCHANGED axisVars /\ (NothingUnderWay => NothingUnderWay')
    BY <1>5 DEF GeneratorWakes, GenerateEvent, TakeBlock, FillEnds, NothingUnderWay, streamVars
  <2>3. IsActive' = IsActive /\ IsJog' = IsJog /\ status' = status
    BY <2>2 DEF IsActive, IsJog, axisVars
  <2> QED
    BY <1>1, <1>3, <2>1, <2>2, <2>3 DEF RunsHomed
<1>6. CASE StartAxis
  <2>1. StopReset \notin flags
    BY <1>6 DEF StartAxis, ResetOK
  <2>2. CASE Startable /\ PopEvent
    <3>1. homePhase = "IDLE" /\ ~NothingUnderWay /\ status \in {"READY", "COMPLETE"}
      BY <2>2 DEF Startable, HomingOK, NothingUnderWay
    <3>2. homed
      BY <1>3, <2>1, <3>1
    <3> QED
      BY <1>1, <3>2 DEF RunsHomed
  <2>3. CASE UNCHANGED <<axisVars, streamVars, flags>>
    <3>1. IsActive' = IsActive /\ IsJog' = IsJog /\ status' = status
      BY <2>3 DEF IsActive, IsJog, axisVars
    <3>2. NothingUnderWay' = NothingUnderWay
      BY <1>6, <2>3 DEF StartAxis, NothingUnderWay, streamVars
    <3> QED
      BY <1>1, <1>3, <2>1, <3>1, <3>2 DEF RunsHomed
  <2> QED
    BY <1>6, <2>2, <2>3 DEF StartAxis
<1> QED
  BY <1>4, <1>5, <1>6 DEF StepGenerator

LEMMA InterruptKeepsRunsHomed ==
  ASSUME AxisOK, HomingOK, StreamOK, ResetOK, RunsHomed, AxisInterrupt
  PROVE  RunsHomed'
<1>1. IsActive /\ UNCHANGED <<homePhase, homed, motionStep, generatorStep>>
  BY InterruptsNeedMotion DEF AxisInterrupt, TakesNoEvent, StreamRunsOut, NextEvent, motionVars, generatorVars
<1>2. StopReset \notin flags
  BY <1>1 DEF ResetOK
<1>3. CASE homed
  BY <1>1, <1>3 DEF RunsHomed
<1>4. CASE ~homed
  <2>1. IsJog
    BY <1>1, <1>4 DEF RunsHomed
  <2>2. TakesNoEvent
    BY <2>1 DEF AxisInterrupt, StreamRunsOut, NextEvent, StreamEnds, StreamContinues
  <2>3. IsActive' => IsJog'
    <3>1. JogInterrupt
      BY <2>2 DEF TakesNoEvent
    <3>2. stepsLeft \in Nat
      BY AxisTypes
    <3>3. CASE Runs
      BY <2>1, <3>3 DEF Runs, IsJog
    <3>4. CASE Ends
      BY <3>4 DEF Ends
    <3>5. CASE Continues
      BY <3>2, <3>5 DEF Continues, IsJog
    <3> QED
      BY <3>1, <3>3, <3>4, <3>5, JogInterruptOutcome
  <2>4. homePhase = "IDLE" => motionStep' = "settle" /\ TasksRun'
    <3>1. flags' = flags
      BY <2>2 DEF TakesNoEvent
    <3>2. homePhase = "IDLE" => motionStep = "settle" /\ TasksRun
      BY <1>1, <1>2, <1>4 DEF RunsHomed
    <3> QED
      BY <1>1, <3>1, <3>2 DEF TasksRun
  <2> QED
    BY <1>1, <2>3, <2>4 DEF RunsHomed
<1> QED
  BY <1>3, <1>4

LEMMA NextKeepsRunsHomed ==
  ASSUME AxisOK, HomingOK, MotionOK, StreamOK, ResetOK, RunsHomed, [Next]_vars
  PROVE  RunsHomed'
<1>1. ASSUME UNCHANGED <<status, stepsLeft, homePhase, homed, planBuffer, active, buffer, motionStep, generatorStep, flags>>
      PROVE  RunsHomed'
  BY <1>1 DEF RunsHomed, IsActive, IsJog, NothingUnderWay, TasksRun
<1>2. ASSUME NEW command \in Request, AcceptCommand(command)
      PROVE  RunsHomed'
  BY <1>1, <1>2 DEF AcceptCommand, axisVars, motionVars, generatorVars, streamVars
<1>3. CASE StopArrives \/ StopDiscards \/ StopIsQueued
  BY <1>1, <1>3 DEF StopArrives, StopDiscards, StopIsQueued, axisVars, motionVars, generatorVars, streamVars
<1>4. CASE StopRequestsAxis \/ StopStoresRequest
  <2>1. UNCHANGED <<status, stepsLeft>>
    BY <1>4 DEF StopRequestsAxis, StopStoresRequest, RequestStopCheck, RequestStopStore, axisVars
  <2> QED
    BY <1>1, <1>4, <2>1 DEF StopRequestsAxis, StopStoresRequest, motionVars, generatorVars, streamVars
<1>5. CASE Receive \/ ReceiveTimesOut \/ DropCommand \/ NothingToPoll \/ BackoffSettles \/ ClearPlan
  <2>1. TasksRun /\ motionStep # "settle" /\ UNCHANGED <<axisVars, homePhase, homed, active, buffer>>
        /\ (planBuffer' = planBuffer \/ planBuffer' = << >>)
    BY <1>5
       DEF Receive, ReceiveTimesOut, DropCommand, NothingToPoll, BackoffSettles, Judged, ClearPlan, Executes,
           HomingUnchanged, generatorVars, streamVars
  <2> QED
    BY <2>1, CallKeepsRunsHomed DEF axisVars, NothingUnderWay
<1>6. CASE StopRequest \/ StopStore
  <2>1. UNCHANGED <<status, stepsLeft>> /\ TasksRun /\ motionStep # "settle"
    BY <1>6 DEF StopRequest, StopStore, RequestStopCheck, RequestStopStore, axisVars
  <2>2. UNCHANGED <<homePhase, homed, planBuffer, active, buffer>>
    BY <1>6 DEF StopRequest, StopStore, HomingUnchanged, generatorVars, streamVars
  <2> QED
    BY <2>1, <2>2, CallKeepsRunsHomed DEF NothingUnderWay
<1>7. CASE ExecuteMove \/ ExecuteJog
  <2>1. PICK target \in Int : QueueMove(target)
    BY <1>7, MovesAreQueued DEF Queues
  <2>2. TasksRun /\ motionStep = "execute" /\ UNCHANGED <<axisVars, homePhase, homed, active, buffer>>
    BY <1>7, <2>1 DEF ExecuteMove, ExecuteJog, Executes, QueueMove, generatorVars, streamVars
  <2>3. CASE homed
    BY <2>2, <2>3 DEF RunsHomed
  <2>4. CASE ~homed
    <3>1. ~Plans(target)
      BY <2>4 DEF Plans, PlanStatus
    <3>2. planBuffer' = planBuffer \/ planBuffer' = << >>
      BY <2>1, <3>1 DEF QueueMove
    <3> QED
      BY <2>2, <3>2, CallKeepsRunsHomed DEF axisVars, NothingUnderWay
  <2> QED
    BY <2>3, <2>4
<1>8. CASE UNCHANGED vars
  BY <1>1, <1>8 DEF vars, axisVars, motionVars, generatorVars, streamVars
<1> QED
  BY <1>2, <1>3, <1>4, <1>5, <1>6, <1>7, <1>8, HomingKeepsRunsHomed, StopKeepsRunsHomed,
     GeneratorKeepsRunsHomed, InterruptKeepsRunsHomed
     DEF Next, CommandTask, MotionTask, HomePoll, MotionStop

-----------------------------------------------------------------------------
(* The theorems. *)

PipelineInvariant ==
  AxisOK /\ HomingOK /\ CommandOK /\ MotionOK /\ PlanOK /\ StreamOK /\ ResetOK /\ PositionOK /\ RunsHomed

LEMMA InitEstablishesInvariant == Init => PipelineInvariant
<1> SUFFICES ASSUME Init
             PROVE  PipelineInvariant
  OBVIOUS
<1>1. /\ status = "READY" /\ direction = 1 /\ stepsLeft = 0 /\ fast = FALSE
      /\ pendingStop = None /\ stopReason = None /\ braking = None
      /\ releaseArmed = FALSE /\ hookArmed = FALSE /\ place \in 0 .. EndSwitch /\ zero = place /\ requesting = {}
      /\ ~IsActive
  BY StatusCases DEF Init, AxisInit, IsActive
<1>2. AxisOK
  <2>1. place \in Place /\ zero \in Place
    BY <1>1 DEF Place
  <2>2. /\ status \in Status /\ direction \in {-1, 1} /\ stepsLeft \in Nat
        /\ pendingStop \in StopReasons \cup {None} /\ stopReason \in StopReasons \cup {None}
        /\ braking \in LimitReasons \cup {None}
    BY <1>1, StatusCases
  <2>3. fast \in BOOLEAN /\ releaseArmed \in BOOLEAN /\ hookArmed \in BOOLEAN
    BY <1>1
  <2>4. AxisTypeOK
    BY <2>1, <2>2, <2>3 DEF AxisTypeOK
  <2> QED
    BY <1>1, <2>4 DEF AxisOK, EndedBy, None
<1>3. HomingOK
  BY <1>1 DEF Init, HomingOK, SeekOK, BackoffOK, ApproachOK
<1>4. CommandOK
  BY NothingQueued DEF Init, CommandOK
<1>5. MotionOK
  BY DEF Init, MotionOK
<1>6. PlanOK
  BY NothingQueued DEF Init, PlanOK
<1>7. StreamOK
  <2>1. buffer \in Seq(Event) /\ Len(buffer) <= BufferCapacity
    BY NothingQueued DEF Init
  <2>2. halted \in BOOLEAN /\ currentIsLast \in BOOLEAN
    BY DEF Init
  <2> QED
    BY <2>1, <2>2 DEF Init, StreamOK
<1>8. ResetOK /\ PositionOK
  BY DEF Init, ResetOK, PositionOK, HomedOK, LeadsOK, HomingIsAlone
<1>9. RunsHomed
  BY <1>1 DEF Init, RunsHomed, NothingUnderWay
<1> QED
  BY <1>2, <1>3, <1>4, <1>5, <1>6, <1>7, <1>8, <1>9 DEF PipelineInvariant

LEMMA NextKeepsInvariant == PipelineInvariant /\ [Next]_vars => PipelineInvariant'
<1> SUFFICES ASSUME PipelineInvariant, [Next]_vars
             PROVE  PipelineInvariant'
  OBVIOUS
<1>1. AxisOK /\ HomingOK /\ CommandOK /\ MotionOK /\ PlanOK /\ StreamOK /\ ResetOK /\ PositionOK /\ RunsHomed
  BY DEF PipelineInvariant
<1>2. AxisOK' /\ HomingOK'
  BY <1>1, NextKeepsHomingOK
<1>3. CommandOK'
  BY <1>1, NextKeepsCommandOK
<1>4. MotionOK'
  BY <1>1, NextKeepsMotionOK
<1>5. PlanOK'
  BY <1>1, NextKeepsPlanOK
<1>6. StreamOK'
  BY <1>1, NextKeepsStreamOK
<1>7. ResetOK'
  BY <1>1, NextKeepsResetOK
<1>8. HomedOK' /\ HomingIsAlone'
  BY <1>1, NextKeepsHomedOK, NextKeepsHomingIsAlone DEF PositionOK
<1>9. LeadsOK'
  BY <1>1, NextKeepsLeadsOK
<1>10. RunsHomed'
  BY <1>1, NextKeepsRunsHomed
<1> QED
  BY <1>2, <1>3, <1>4, <1>5, <1>6, <1>7, <1>8, <1>9, <1>10 DEF PipelineInvariant, PositionOK

\* The inductive invariant of the pipeline.
THEOREM PipelineInvariance == Spec => []PipelineInvariant
  BY InitEstablishesInvariant, NextKeepsInvariant, PTL DEF Spec

\* The command queue never holds more than COMMAND_QUEUE_CAPACITY commands, STOP
\* included, the plan no more than PLAN_BUFFER_CAPACITY blocks and the execution
\* buffer no more than EXECUTION_BUFFER_CAPACITY events, and every variable keeps its type.
THEOREM TypeCorrect == Spec => []TypeOK
<1>1. PipelineInvariant => TypeOK
  <2> SUFFICES ASSUME PipelineInvariant
               PROVE  TypeOK
    OBVIOUS
  <2>1. AxisTypeOK /\ requesting \subseteq {"command", "motion"}
    BY DEF PipelineInvariant, AxisOK
  <2>2. homePhase \in {"IDLE", "FAST_SEEK", "BACKOFF", "APPROACH"}
    BY DEF PipelineInvariant, HomingOK
  <2>3. /\ commandQueue \in Seq(Command) /\ Len(commandQueue) <= QueueCapacity
        /\ commandStep \in {"idle", "halted", "store", "discard", "send"}
    BY DEF PipelineInvariant, CommandOK
  <2>4. /\ motionStep \in {"receive", "execute", "poll", "delay", "stopRequest", "stopStore", "stopAxis", "settle"}
        /\ motionCommand \in Command \cup {NoCommand} /\ homed \in BOOLEAN /\ position \in Nat
        /\ desynced \subseteq {"homed over events", "planner error"}
    BY DEF PipelineInvariant, MotionOK, StopPhases
  <2>5. planBuffer \in Seq(Int) /\ Len(planBuffer) <= PlanCapacity
    BY DEF PipelineInvariant, PlanOK
  <2>6. /\ generatorStep \in {"wait", "fill", "start"} /\ active \in Int
        /\ flags \subseteq {BlockReady, BufferSpace, StopReset} /\ halted \in BOOLEAN
        /\ buffer \in Seq(Event) /\ Len(buffer) <= BufferCapacity /\ currentIsLast \in BOOLEAN
    BY DEF PipelineInvariant, StreamOK
  <2> QED
    BY <2>1, <2>2, <2>3, <2>4, <2>5, <2>6 DEF TypeOK
<1> QED
  BY <1>1, PipelineInvariance, PTL

\* When StepGeneratorTask finds STOP_RESET and drops the active block and the
\* execution buffer, X is at rest, the task is not filling and the plan is empty.
THEOREM StopResetsAtRest == Spec => []ResetsAtRest
<1>1. PipelineInvariant => ResetsAtRest
  BY DEF PipelineInvariant, ResetOK, ResetsAtRest
<1> QED
  BY <1>1, PipelineInvariance, PTL

\* Only a homed X runs planned moves.  Its scale counts from the edge of the start
\* switch, and once it has run all its moves machine_state.position_um is where X stands,
\* whatever moves, homings and STOPs came before, unless events were dropped behind the
\* planner's back.
THEOREM PositionIsTrusted == Spec => []PositionTrusted
<1>1. PipelineInvariant => PositionTrusted
  <2> SUFFICES ASSUME PipelineInvariant, homed
               PROVE  zero = 0 /\ (Quiet /\ desynced = {} => position = Scale)
    BY DEF PositionTrusted, PipelineInvariant, RunsHomed
  <2>1. AxisOK /\ zero = 0 /\ place >= 0
    BY DEF PipelineInvariant, PositionOK, HomedOK
  <2>2. ASSUME Quiet, desynced = {}
        PROVE  position = Scale
    <3>1. /\ planBuffer = << >> /\ active = 0 /\ buffer = << >> /\ ~IsActive
          /\ motionStep \notin StopPhases /\ StopReset \notin flags /\ status \in {"READY", "COMPLETE"}
      BY <2>2, StatusCases DEF Quiet, StopPhases, IsActive
    <3>2. Leads
      BY <2>2, <3>1 DEF PipelineInvariant, PositionOK, LeadsOK
    <3>3. position = place
      BY <2>1, <3>1, <3>2, LeadsNowhere
    <3> QED
      BY <2>1, <3>3, AxisTypes DEF Scale
  <2> QED
    BY <2>1, <2>2
<1> QED
  BY <1>1, PipelineInvariance, PTL
=============================================================================
