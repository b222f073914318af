--------------------------- MODULE CalibrationProofs ---------------------------
(***************************************************************************)
(* What holds of the interrupts of an axis (AxisInterrupts) and of homing   *)
(* and calibration over them (Calibration) for every travel, braking        *)
(* distance, bounce, slack and length of a move.                            *)
(***************************************************************************)
EXTENDS Calibration, TLAPS

USE EndSwitchAssumption, StepAssumption, WordAssumption
    DEF EndSwitchAssumption, StepAssumption, WordAssumption

-----------------------------------------------------------------------------
(* The inductive invariant of the axis *)

\* From a pulse to the end of its interrupt, until its step is counted, and where the
\* timer interrupt is about to stop the move.
Stepping == due = "compare" \/ timerPc \notin {"idle", "update", "stop"}
Uncounted == due = "compare" \/ timerPc \in {"pulse stop", "step", "jog", "decrement"}
Stops == timerPc \in {"stop", "pulse stop"}

\* The phase of the interrupt fits the status, unless the other interrupt stopped the
\* move meanwhile.
PhaseOK ==
  /\ timerPc # "idle" => due = "none"
  /\ IsActive /\ (due = "update" \/ timerPc \in {"update", "stop"}) => StillStarting
  /\ IsActive /\ Stepping => StillRunning
  /\ Stops => (IsActive <=> request # None)
  /\ IsActive \/ timerPc \in {"step", "jog"} => remaining <= MaxSteps

\* A jog and a stream take different ways through the interrupt.
MoveOK ==
  /\ ~IsActive => ~jogMode
  /\ IsActive => stopReason = None /\ (jogMode <=> asked # 0) /\ (usesStream <=> ~jogMode)
  /\ IsActive /\ jogMode => timerPc \notin {"stream", "pop"} \cup Faults
  /\ IsActive /\ ~jogMode => timerPc \notin {"jog", "decrement"}

\* A jog knows how many pulses it gave; only braking for a switch makes it shorter.
JogOK ==
  IsActive /\ jogMode =>
    /\ remaining <= total /\ total <= asked /\ (limitReason = None => total = asked)
    /\ timerPc = "ended" => remaining = 0
    /\ timerPc # "ended" => 1 <= remaining
    /\ timerPc = "decrement" => seen = remaining /\ 1 < remaining
    /\ timerPc = "load" => next = direction
    /\ Uncounted => total - remaining + 1 = pulses
    /\ ~Uncounted => total - remaining = pulses

Within(n) == place - trigger <= n /\ trigger - place <= n

\* A switch that fired is being braked for, and the move is as far past it as it may be.
LatchOK ==
  /\ IsActive => (latched <=> limitRequested # None \/ limitReason # None)
  /\ IsActive /\ latched => jogMode /\ fast
  /\ latched /\ ~IsActive => Within(MaxBrake + 1)
  /\ latched /\ IsActive /\ limitReason = None => Within(1) /\ (~Stepping => Within(0))
  /\ latched /\ IsActive /\ limitReason # None =>
       /\ Uncounted => Within(MaxBrake + 2 - remaining)
       /\ ~Uncounted => Within(MaxBrake + 1 - remaining)

LevelsOK == startOn \in Levels("start", place) /\ endOn \in Levels("end", place)

\* At most one step further than a switch may be off.
Near(d) == IF d = -1 THEN -(BounceSteps + 1) <= place ELSE place <= EndSwitch + BounceSteps + 1
Line(d) == IF d = -1 THEN "start" ELSE "end"

\* A running move whose switch did not fire yet does not go on beyond it.
EdgeOK ==
  IsActive /\ ~latched =>
    /\ Near(direction)
    /\ status # "STARTING" /\ ~Stepping => LimitBlocks(direction) = None \/ Line(direction) \in lines

\* What is left of the last jog once it is over.
CountOK ==
  ~IsActive /\ asked # 0 =>
    /\ status = "COMPLETE" => completed = asked /\ pulses = asked
    /\ stopReason \in {"REQUEST", "START_LIMIT_RELEASE"} => completed = pulses
    /\ pulses = completed \/ pulses = completed + 1

\* The type invariant in groups, which the steps of the axis leave alone one by one.
MoveTypes ==
  /\ status \in Active \cup Faults \cup {"READY", "COMPLETE", "STOPPED"}
  /\ stopReason \in Reasons /\ direction \in {-1, 1}
JogTypes ==
  /\ jogMode \in BOOLEAN /\ fast \in BOOLEAN /\ usesStream \in BOOLEAN
  /\ remaining \in 0 .. Word - 1 /\ total \in 0 .. MaxSteps /\ completed \in 0 .. MaxSteps
  /\ executor \in {"IDLE", "RUNNING", "COMPLETE", "UNDERRUN"}
ReactionTypes ==
  /\ request \in Reasons \ LimitReasons
  /\ releaseArmed \in BOOLEAN /\ hookArmed \in BOOLEAN /\ latched \in BOOLEAN
  /\ limitRequested \in LimitReasons \cup {None} /\ limitReason \in LimitReasons \cup {None}
TimerTypes ==
  /\ timerPc \in {"idle", "stop", "pulse stop", "update", "step", "jog", "decrement", "stream", "pop",
                  "ended", "load", "FAULT_EVENT", "FAULT_UNDERRUN"}
  /\ seen \in 0 .. MaxSteps /\ next \in {-1, 1}
  /\ due \in {"none", "update", "compare"}
WorldTypes ==
  /\ lines \subseteq {"start", "end"} /\ startOn \in BOOLEAN /\ endOn \in BOOLEAN
  /\ place \in Place /\ trigger \in Place /\ zero \in Place /\ lead \in 0 .. Slack
HistoryTypes == storing \in BOOLEAN /\ asked \in 0 .. MaxSteps /\ pulses \in Nat
Types == MoveTypes /\ JogTypes /\ ReactionTypes /\ TimerTypes /\ WorldTypes /\ HistoryTypes

LEMMA TypesAreTypeOK == (TypeOK => Types) /\ (Types => TypeOK) /\ (Types' => TypeOK')
<1>1. TypeOK => Types
  BY DEF TypeOK, Types, MoveTypes, JogTypes, ReactionTypes, TimerTypes, WorldTypes, HistoryTypes
<1>2. Types => TypeOK
  BY DEF TypeOK, Types, MoveTypes, JogTypes, ReactionTypes, TimerTypes, WorldTypes, HistoryTypes
<1>3. Types' => TypeOK'
  BY DEF TypeOK, Types, MoveTypes, JogTypes, ReactionTypes, TimerTypes, WorldTypes, HistoryTypes
<1> QED
  BY <1>1, <1>2, <1>3

\* What each part of the invariant is about.
LEMMA TypesFrame ==
  /\ MoveTypes /\ UNCHANGED move => MoveTypes'
  /\ JogTypes /\ UNCHANGED <<jog, stream>> => JogTypes'
  /\ ReactionTypes /\ UNCHANGED <<request, armed, latched, braking>> => ReactionTypes'
  /\ TimerTypes /\ UNCHANGED timer => TimerTypes'
  /\ WorldTypes /\ UNCHANGED <<world, trigger, zero>> => WorldTypes'
  /\ HistoryTypes /\ UNCHANGED <<storing, history>> => HistoryTypes'
<1>1. MoveTypes /\ UNCHANGED move => MoveTypes'
  BY DEF MoveTypes, move
<1>2. JogTypes /\ UNCHANGED <<jog, stream>> => JogTypes'
  BY DEF JogTypes, jog, stream
<1>3. ReactionTypes /\ UNCHANGED <<request, armed, latched, braking>> => ReactionTypes'
  BY DEF ReactionTypes, armed, braking
<1>4. TimerTypes /\ UNCHANGED timer => TimerTypes'
  BY DEF TimerTypes, timer
<1>5. WorldTypes /\ UNCHANGED <<world, trigger, zero>> => WorldTypes'
  BY DEF WorldTypes, world
<1>6. HistoryTypes /\ UNCHANGED <<storing, history>> => HistoryTypes'
  BY DEF HistoryTypes, history
<1> QED
  BY <1>1, <1>2, <1>3, <1>4, <1>5, <1>6

LEMMA PartsFrame ==
  /\ PhaseOK /\ UNCHANGED <<status, request, due, timerPc, remaining>> => PhaseOK'
  /\ MoveOK /\ UNCHANGED <<status, stopReason, jogMode, asked, usesStream, timerPc>> => MoveOK'
  /\ JogOK /\ UNCHANGED <<status, jogMode, remaining, total, asked, limitReason, timerPc, seen, next,
                          direction, due, pulses>> => JogOK'
  /\ LatchOK /\ UNCHANGED <<status, latched, limitRequested, limitReason, jogMode, fast, place, trigger,
                            due, timerPc, remaining>> => LatchOK'
  /\ LevelsOK /\ UNCHANGED <<startOn, endOn, place>> => LevelsOK'
  /\ EdgeOK /\ UNCHANGED <<status, latched, direction, place, due, timerPc, startOn, endOn>>
       /\ lines \subseteq lines' => EdgeOK'
  /\ CountOK /\ UNCHANGED <<status, asked, completed, pulses, stopReason>> => CountOK'
<1>1. PhaseOK /\ UNCHANGED <<status, request, due, timerPc, remaining>> => PhaseOK'
  BY DEF PhaseOK, IsActive, Stops, Stepping, StillStarting, StillRunning
<1>2. MoveOK /\ UNCHANGED <<status, stopReason, jogMode, asked, usesStream, timerPc>> => MoveOK'
  BY DEF MoveOK, IsActive
<1>3. JogOK /\ UNCHANGED <<status, jogMode, remaining, total, asked, limitReason, timerPc, seen, next,
                          direction, due, pulses>> => JogOK'
  BY DEF JogOK, IsActive, Uncounted
<1>4. LatchOK /\ UNCHANGED <<status, latched, limitRequested, limitReason, jogMode, fast, place, trigger,
                            due, timerPc, remaining>> => LatchOK'
  <2> SUFFICES ASSUME LatchOK, UNCHANGED <<status, latched, limitRequested, limitReason, jogMode, fast, place,
                                           trigger, due, timerPc, remaining>>
               PROVE  LatchOK'
    OBVIOUS
  <2>1. (IsActive' <=> IsActive) /\ (Stepping' <=> Stepping) /\ (Uncounted' <=> Uncounted)
    BY DEF IsActive, Stepping, Uncounted
  <2>2. /\ Within(MaxBrake + 1)' <=> Within(MaxBrake + 1)
        /\ Within(1)' <=> Within(1)
        /\ Within(0)' <=> Within(0)
        /\ Within(MaxBrake + 2 - remaining)' <=> Within(MaxBrake + 2 - remaining)
        /\ Within(MaxBrake + 1 - remaining)' <=> Within(MaxBrake + 1 - remaining)
    BY DEF Within
  <2> QED
    BY <2>1, <2>2 DEF LatchOK
<1>5. LevelsOK /\ UNCHANGED <<startOn, endOn, place>> => LevelsOK'
  BY DEF LevelsOK, Levels, MayBeOn, MayBeOff
<1>6. EdgeOK /\ UNCHANGED <<status, latched, direction, place, due, timerPc, startOn, endOn>>
       /\ lines \subseteq lines' => EdgeOK'
  BY DEF EdgeOK, IsActive, Stepping, Near, Line, LimitBlocks
<1>7. CountOK /\ UNCHANGED <<status, asked, completed, pulses, stopReason>> => CountOK'
  BY DEF CountOK, IsActive
<1> QED
  BY <1>1, <1>2, <1>3, <1>4, <1>5, <1>6, <1>7

Kept == PhaseOK /\ MoveOK /\ JogOK /\ LatchOK /\ LevelsOK /\ EdgeOK /\ CountOK
AxisInv == Types /\ Kept

LEMMA InvTypes == AxisInv => TypeOK
BY TypesAreTypeOK DEF AxisInv

\* The numbers of the axis are numbers.
LEMMA PlaceIsInt == Place \subseteq Int /\ Overrun \in Nat /\ \A p \in 0 .. EndSwitch : p \in Place
<1>1. Overrun \in Nat
  BY DEF Overrun
<1> QED
  BY <1>1 DEF Place

LEMMA Numbers ==
  ASSUME TypeOK
  PROVE  /\ place \in Int /\ trigger \in Int /\ zero \in Int /\ lead \in 0 .. Slack
         /\ remaining \in Nat /\ total \in Nat /\ completed \in Nat /\ asked \in Nat /\ pulses \in Nat
         /\ seen \in Nat /\ direction \in {-1, 1} /\ next \in {-1, 1}
         /\ startOn \in BOOLEAN /\ endOn \in BOOLEAN /\ jogMode \in BOOLEAN
<1>1. place \in Int /\ trigger \in Int /\ zero \in Int
  BY PlaceIsInt DEF TypeOK
<1>2. remaining \in Nat /\ total \in Nat /\ completed \in Nat /\ asked \in Nat /\ pulses \in Nat /\ seen \in Nat
  <2>1. /\ remaining \in 0 .. Word - 1 /\ total \in 0 .. MaxSteps /\ completed \in 0 .. MaxSteps
        /\ seen \in 0 .. MaxSteps /\ asked \in 0 .. MaxSteps /\ pulses \in Nat
    BY DEF TypeOK
  <2> QED
    BY <2>1
<1> QED
  BY <1>1, <1>2 DEF TypeOK

LEMMA Unfold ==
  ASSUME AxisInv
  PROVE  /\ TypeOK /\ PhaseOK /\ MoveOK /\ JogOK /\ LatchOK /\ LevelsOK /\ EdgeOK /\ CountOK
         /\ MoveTypes /\ JogTypes /\ ReactionTypes /\ TimerTypes /\ WorldTypes /\ HistoryTypes
BY InvTypes DEF AxisInv, Kept, Types

LEMMA Fold ==
  ASSUME MoveTypes', JogTypes', ReactionTypes', TimerTypes', WorldTypes', HistoryTypes',
         PhaseOK', MoveOK', JogOK', LatchOK', LevelsOK', EdgeOK', CountOK'
  PROVE  AxisInv'
BY DEF AxisInv, Kept, Types

\* A move is never further past the place where its switch fired than it brakes.
LEMMA BrakesWithin ==
  ASSUME AxisInv, latched
  PROVE  Within(MaxBrake + 1)
<1>1. place \in Int /\ trigger \in Int /\ remaining \in Nat /\ MaxBrake \in Nat
  BY Unfold, Numbers
<1>2. CASE ~IsActive
  BY <1>2, Unfold DEF LatchOK
<1>3. CASE IsActive /\ limitReason = None
  BY <1>1, <1>3, Unfold DEF LatchOK, Within
<1>4. CASE IsActive /\ limitReason # None
  <2>1. jogMode
    BY <1>4, Unfold DEF LatchOK
  <2>2. Uncounted => timerPc # "ended"
    BY Unfold DEF Uncounted, PhaseOK
  <2>3. Uncounted => 1 <= remaining
    BY <1>4, <2>1, <2>2, Unfold DEF JogOK
  <2>4. CASE Uncounted
    <3>1. Within(MaxBrake + 2 - remaining) /\ 1 <= remaining
      BY <1>4, <2>3, <2>4, Unfold DEF LatchOK
    <3> QED
      BY <1>1, <3>1 DEF Within
  <2>5. CASE ~Uncounted
    <3>1. Within(MaxBrake + 1 - remaining)
      BY <1>4, <2>5, Unfold DEF LatchOK
    <3> QED
      BY <1>1, <3>1 DEF Within
  <2> QED
    BY <2>4, <2>5
<1> QED
  BY <1>2, <1>3, <1>4

LEMMA AxisInit == Init => AxisInv
<1> SUFFICES ASSUME Init PROVE AxisInv
    OBVIOUS
<1>1. /\ status = "READY" /\ jogMode = FALSE /\ timerPc = "idle" /\ due = "none" /\ latched = FALSE
      /\ asked = 0 /\ place \in 0 .. EndSwitch /\ startOn = (place = 0) /\ endOn = (place = EndSwitch)
    BY DEF Init
<1>2. ~IsActive
    BY <1>1 DEF IsActive, Active
<1>3. place \in Place /\ 0 \in Place
    BY <1>1, PlaceIsInt
<1>4. TypeOK
    <2>1. None \in Reasons \ LimitReasons /\ None \in LimitReasons \cup {None}
        BY DEF Reasons, LimitReasons, None
    <2>2. startOn \in BOOLEAN /\ endOn \in BOOLEAN
        BY <1>1
    <2>3. remaining \in 0 .. Word - 1 /\ total \in 0 .. MaxSteps /\ completed \in 0 .. MaxSteps
          /\ seen \in 0 .. MaxSteps /\ asked \in 0 .. MaxSteps /\ pulses \in Nat /\ lead \in 0 .. Slack
        BY DEF Init
    <2> QED
        BY <1>1, <1>3, <2>1, <2>2, <2>3 DEF Init, TypeOK
<1>5. LevelsOK
    <2>1. startOn <=> place = 0
        BY <1>1
    <2>2. endOn <=> place = EndSwitch
        BY <1>1
    <2>3. startOn \in BOOLEAN /\ endOn \in BOOLEAN
        BY <1>1
    <2>4. IF startOn THEN place <= 0 ELSE -BounceSteps <= place
        BY <1>1, <2>1
    <2>5. IF endOn THEN EndSwitch <= place ELSE place <= EndSwitch + BounceSteps
        BY <1>1, <2>2
    <2> QED
        BY <2>3, <2>4, <2>5 DEF LevelsOK, Levels, MayBeOn, MayBeOff
<1> QED
    BY <1>1, <1>2, <1>4, <1>5, TypesAreTypeOK
       DEF AxisInv, Kept, PhaseOK, MoveOK, JogOK, LatchOK, EdgeOK, CountOK, Stops

-----------------------------------------------------------------------------
(* The switches and the stop *)

\* Where the carriage is when a switch blocks a direction, and when it does not.
LEMMA BlockedPlace ==
  ASSUME TypeOK, LevelsOK, NEW d \in {-1, 1}
  PROVE  /\ LimitBlocks(d) \in LimitReasons \cup {None}
         /\ LimitBlocks(d) = "START_LIMIT" => d = -1 /\ startOn /\ place <= 0
         /\ LimitBlocks(d) = "END_LIMIT" => d = 1 /\ endOn /\ EndSwitch <= place
         /\ LimitBlocks(d) = None /\ d = -1 => ~startOn /\ -BounceSteps <= place
         /\ LimitBlocks(d) = None /\ d = 1 => ~endOn /\ place <= EndSwitch + BounceSteps
<1>1. place \in Int /\ startOn \in BOOLEAN /\ endOn \in BOOLEAN
  BY Numbers
<1>2. /\ startOn => place <= 0
      /\ ~startOn => -BounceSteps <= place
      /\ endOn => EndSwitch <= place
      /\ ~endOn => place <= EndSwitch + BounceSteps
  BY <1>1 DEF LevelsOK, Levels, MayBeOn, MayBeOff
<1> QED
  BY <1>1, <1>2 DEF LimitBlocks, LimitReasons, None

\* The place that is latched is a place, and near if the move was.
LEMMA LatchedPlace ==
  ASSUME AxisInv, NEW reason, Latch(reason)
  PROVE  /\ latched' = TRUE /\ trigger' \in Place /\ zero' \in Place
         /\ latched => trigger' = trigger
         /\ ~latched => trigger' = place
BY DEF AxisInv, Types, WorldTypes, Latch, Position

\* What every stop leaves, in types and in status.
LEMMA StopAxisTypes ==
  ASSUME TypeOK, NEW left \in Nat, NEW final \in {"STOPPED", "COMPLETE"} \cup Faults, StopAxis(final, left)
  PROVE  /\ ~IsActive' /\ status' \in Faults \cup {"COMPLETE", "STOPPED"}
         /\ status' = final \/ (IsFault /\ status' = status)
         /\ jogMode' = FALSE /\ remaining' = 0 /\ total' = 0 /\ completed' \in 0 .. MaxSteps
         /\ jogMode /\ left <= total => completed' = total - left
         /\ ~jogMode => completed' = completed
         /\ request' = None /\ releaseArmed' = FALSE /\ hookArmed' = FALSE
         /\ limitRequested' = None /\ limitReason' = None /\ due' = "none"
         /\ UNCHANGED <<direction, fast, usesStream, storing, asked, pulses>>
<1>1. completed' \in 0 .. MaxSteps
      /\ (jogMode /\ left <= total => completed' = total - left)
      /\ (~jogMode => completed' = completed)
  <2>1. total \in 0 .. MaxSteps /\ completed \in 0 .. MaxSteps /\ jogMode \in BOOLEAN
    BY DEF TypeOK
  <2>2. completed' = IF jogMode /\ total >= left THEN total - left ELSE completed
    BY DEF StopAxis
  <2>3. CASE jogMode /\ total >= left
    BY <2>1, <2>2, <2>3
  <2>4. CASE ~(jogMode /\ total >= left)
    BY <2>1, <2>2, <2>4
  <2> QED
    BY <2>3, <2>4
<1>2. ~IsActive' /\ status' \in Faults \cup {"COMPLETE", "STOPPED"}
      /\ (status' = final \/ (IsFault /\ status' = status))
  BY DEF StopAxis, IsActive, IsFault, Active, Faults
<1> QED
  BY <1>1, <1>2 DEF StopAxis, history

\* A stop keeps the invariant if it counts the steps of a jog rightly.
LEMMA StopKeeps ==
  ASSUME AxisInv, NEW left \in Nat, NEW final \in {"STOPPED", "COMPLETE"} \cup Faults, StopAxis(final, left),
         UNCHANGED <<startOn, endOn, place, lead>>, lines' \subseteq lines,
         stopReason' \in Reasons, executor' \in {"IDLE", "RUNNING", "COMPLETE", "UNDERRUN"},
         UNCHANGED <<latched, trigger, zero>> \/ \E reason : Latch(reason),
         UNCHANGED <<timerPc, seen, next>> \/ Return,
         IsActive /\ jogMode =>
           /\ left <= total /\ (total - left = pulses \/ total - left + 1 = pulses)
           /\ final = "COMPLETE" => left = 0 /\ total - left = pulses /\ limitReason = None
           /\ stopReason' \in {"REQUEST", "START_LIMIT_RELEASE"} => total - left = pulses,
         ~IsActive => final # "COMPLETE" /\ stopReason' \in {stopReason, None} \cup LimitReasons
  PROVE  AxisInv'
<1>1. TypeOK /\ PhaseOK /\ MoveOK /\ JogOK /\ LatchOK /\ LevelsOK /\ EdgeOK /\ CountOK
  BY InvTypes DEF AxisInv, Kept
<1>2. /\ ~IsActive' /\ status' \in Faults \cup {"COMPLETE", "STOPPED"}
      /\ status' = final \/ (IsFault /\ status' = status)
      /\ jogMode' = FALSE /\ remaining' = 0 /\ total' = 0 /\ completed' \in 0 .. MaxSteps
      /\ jogMode /\ left <= total => completed' = total - left
      /\ ~jogMode => completed' = completed
      /\ request' = None /\ releaseArmed' = FALSE /\ hookArmed' = FALSE
      /\ limitRequested' = None /\ limitReason' = None /\ due' = "none"
      /\ UNCHANGED <<direction, fast, usesStream, storing, asked, pulses>>
  BY <1>1, StopAxisTypes
<1>3. /\ latched' \in BOOLEAN /\ trigger' \in Place /\ zero' \in Place
      /\ latched' => (latched /\ trigger' = trigger) \/ trigger' = place
  <2>1. latched \in BOOLEAN /\ trigger \in Place /\ zero \in Place
    BY <1>1 DEF TypeOK
  <2>2. CASE UNCHANGED <<latched, trigger, zero>>
    BY <2>1, <2>2
  <2>3. CASE \E reason : Latch(reason)
    BY <2>3, LatchedPlace
  <2> QED
    BY <2>2, <2>3
<1>4. timerPc' \in {timerPc, "idle"} /\ seen' \in 0 .. MaxSteps /\ next' \in {-1, 1}
  <2>1. seen \in 0 .. MaxSteps /\ next \in {-1, 1}
    BY <1>1 DEF TypeOK
  <2> QED
    BY <2>1 DEF Return
<1>5. Types'
  <2>1. MoveTypes /\ WorldTypes /\ HistoryTypes /\ TimerTypes /\ JogTypes
    BY DEF AxisInv, Types
  <2>2. MoveTypes'
    BY <1>2, <2>1 DEF MoveTypes
  <2>3. JogTypes'
    <3>1. remaining' \in 0 .. Word - 1 /\ total' \in 0 .. MaxSteps
      BY <1>2
    <3> QED
      BY <1>2, <2>1, <3>1 DEF JogTypes
  <2>4. ReactionTypes'
    BY <1>2, <1>3 DEF ReactionTypes, Reasons, LimitReasons, None
  <2>5. TimerTypes'
    BY <1>2, <1>4, <2>1 DEF TimerTypes
  <2>6. WorldTypes'
    BY <1>3, <2>1 DEF WorldTypes
  <2>7. HistoryTypes'
    BY <1>2, <2>1 DEF HistoryTypes
  <2> QED
    BY <2>2, <2>3, <2>4, <2>5, <2>6, <2>7 DEF Types
<1>6. PhaseOK' /\ MoveOK' /\ JogOK' /\ EdgeOK'
  BY <1>2 DEF PhaseOK, MoveOK, JogOK, EdgeOK
<1>7. LevelsOK'
  BY <1>1 DEF LevelsOK, Levels, MayBeOn, MayBeOff
<1>8. LatchOK'
  <2>1. place \in Int /\ trigger \in Int /\ remaining \in Nat /\ MaxBrake \in Nat
    BY <1>1, Numbers
  <2>2. latched => Within(MaxBrake + 1)
    BY BrakesWithin
  <2>3. latched' => Within(MaxBrake + 1)'
    BY <1>3, <2>1, <2>2 DEF Within
  <2> QED
    BY <1>2, <2>3 DEF LatchOK
<1>9. CountOK'
  <2> SUFFICES ASSUME asked # 0
               PROVE  /\ status' = "COMPLETE" => completed' = asked /\ pulses = asked
                      /\ stopReason' \in {"REQUEST", "START_LIMIT_RELEASE"} => completed' = pulses
                      /\ pulses = completed' \/ pulses = completed' + 1
    BY <1>2 DEF CountOK
  <2>1. CASE IsActive
    <3>1. jogMode /\ ~IsFault
      BY <1>1, <2>1 DEF MoveOK, IsActive, IsFault, Active, Faults
    <3>2. completed' = total - left /\ status' = final
      BY <1>2, <2>1, <3>1
    <3>3. /\ remaining <= total /\ total <= asked /\ (limitReason = None => total = asked)
          /\ total \in Nat /\ asked \in Nat /\ pulses \in Nat
      BY <1>1, <2>1, <3>1, Numbers DEF JogOK
    <3> QED
      BY <2>1, <3>1, <3>2, <3>3
  <2>2. CASE ~IsActive
    <3>1. completed' = completed /\ ~jogMode
      BY <1>1, <1>2, <2>2 DEF MoveOK
    <3>2. /\ status = "COMPLETE" => completed = asked /\ pulses = asked
          /\ stopReason \in {"REQUEST", "START_LIMIT_RELEASE"} => completed = pulses
          /\ pulses = completed \/ pulses = completed + 1
      BY <1>1, <2>2 DEF CountOK
    <3>3. status' = "COMPLETE" => FALSE
      BY <1>2, <2>2 DEF IsFault, Faults
    <3>4. stopReason' \in {"REQUEST", "START_LIMIT_RELEASE"} => stopReason' = stopReason
      BY <2>2 DEF LimitReasons, None
    <3> QED
      BY <3>1, <3>2, <3>3, <3>4
  <2> QED
    BY <2>1, <2>2
<1> QED
  BY <1>5, <1>6, <1>7, <1>8, <1>9 DEF AxisInv, Kept


-----------------------------------------------------------------------------
(* The switch interrupt *)

LEMMA LimitIgnoredKeeps == \A line \in lines : AxisInv /\ LimitIgnored(line) => AxisInv'
<1> SUFFICES ASSUME NEW line \in lines, AxisInv, LimitIgnored(line) PROVE AxisInv'
    OBVIOUS
<1>1. lines' = lines \ {line} /\ (~IsActive \/ (Reached(line) = None /\ ~ReleaseSeen(line)))
    BY DEF LimitIgnored, Served
<1>2. UNCHANGED <<move, jog, stream, request, armed, switch, braking, timer, startOn, endOn, place, lead,
                  storing, history>>
    BY DEF LimitIgnored, Served
<1>3. WorldTypes'
    BY <1>1, <1>2, Unfold DEF WorldTypes, switch
<1>4. EdgeOK'
    <2> SUFFICES ASSUME IsActive, ~latched
                 PROVE  /\ Near(direction)
                        /\ status # "STARTING" /\ ~Stepping
                             => LimitBlocks(direction) = None \/ Line(direction) \in lines'
        BY <1>2 DEF EdgeOK, IsActive, Stepping, Near, Line, LimitBlocks, move, switch, timer
    <2>1. Reached(line) = None
        BY <1>1
    <2>2. line \in {"start", "end"} /\ direction \in {-1, 1}
        BY Unfold DEF WorldTypes, MoveTypes
    <2>3. line = Line(direction) => LimitBlocks(direction) = None
        BY <2>1, <2>2 DEF Reached, Line, LimitBlocks, None
    <2> QED
        BY <1>1, <2>3, Unfold DEF EdgeOK
<1> QED
    BY <1>2, <1>3, <1>4, Unfold, Fold, TypesFrame, PartsFrame
       DEF move, jog, stream, switch, braking, timer, history

LEMMA ReleaseKeeps == \A line \in lines : AxisInv /\ ReleaseRequestsStop(line) => AxisInv'
<1> SUFFICES ASSUME NEW line \in lines, AxisInv, ReleaseRequestsStop(line) PROVE AxisInv'
    OBVIOUS
<1>1. /\ lines' = lines \ {"start"} /\ IsActive /\ direction = 1 /\ request = None
      /\ request' = "START_LIMIT_RELEASE"
    BY DEF ReleaseRequestsStop, ReleaseSeen, Served
<1>2. UNCHANGED <<move, jog, stream, armed, switch, braking, timer, startOn, endOn, place, lead, storing, history>>
    BY DEF ReleaseRequestsStop, Served
<1>3. WorldTypes'
    BY <1>1, <1>2, Unfold DEF WorldTypes, switch
<1>4. ReactionTypes'
    BY <1>1, <1>2, Unfold DEF ReactionTypes, armed, switch, braking, Reasons, LimitReasons
<1>5. PhaseOK'
    BY <1>1, <1>2, Unfold DEF PhaseOK, IsActive, Stops, Stepping, StillStarting, StillRunning, None, move, jog, timer
<1>6. EdgeOK'
    BY <1>1, <1>2, Unfold DEF EdgeOK, IsActive, Stepping, Near, Line, LimitBlocks, move, switch, timer
<1> QED
    BY <1>2, <1>3, <1>4, <1>5, <1>6, Unfold, Fold, TypesFrame, PartsFrame
       DEF move, jog, stream, switch, braking, timer, history

LEMMA AsksToBrakeKeeps == \A line \in lines : AxisInv /\ LimitAsksToBrake(line) => AxisInv'
<1> SUFFICES ASSUME NEW line \in lines, AxisInv, LimitAsksToBrake(line) PROVE AxisInv'
    OBVIOUS
<1>1. /\ lines' = lines \ {line} /\ status = "RUNNING" /\ BrakingSteps # {0} /\ Latch(Reached(line))
      /\ Reached(line) # None /\ hookArmed' = FALSE /\ limitRequested' = Reached(line)
    BY DEF LimitAsksToBrake, Served
<1>2. UNCHANGED <<move, jog, stream, request, releaseArmed, limitReason, timer, startOn, endOn, place, lead,
                  storing, history>>
    BY DEF LimitAsksToBrake, Served
<1>3. /\ latched' = TRUE /\ trigger' \in Place /\ zero' \in Place
      /\ latched => trigger' = trigger
      /\ ~latched => trigger' = place
    BY <1>1, LatchedPlace
<1>4. Reached(line) \in LimitReasons
    BY <1>1 DEF Reached, LimitReasons, None
<1>5. WorldTypes'
    BY <1>1, <1>2, <1>3, Unfold DEF WorldTypes
<1>6. ReactionTypes'
    BY <1>1, <1>2, <1>3, <1>4, Unfold DEF ReactionTypes
<1>7. LatchOK'
    <2>1. jogMode /\ fast /\ IsActive
        BY <1>1 DEF BrakingSteps, IsActive, Active
    <2>2. ~latched => limitReason = None
        BY <2>1, Unfold DEF LatchOK
    <2>3. place - place <= 1 /\ place - place <= 0
        BY Unfold, Numbers
    <2>4. IsActive' /\ latched' /\ limitRequested' # None /\ jogMode' /\ fast'
        BY <1>1, <1>2, <1>3, <2>1 DEF IsActive, move, jog
    <2>5. CASE latched
        <3>1. trigger' = trigger
            BY <1>3, <2>5
        <3>2. /\ limitReason = None => Within(1) /\ (~Stepping => Within(0))
              /\ limitReason # None => /\ Uncounted => Within(MaxBrake + 2 - remaining)
                                       /\ ~Uncounted => Within(MaxBrake + 1 - remaining)
            BY <2>1, <2>5, Unfold DEF LatchOK
        <3> QED
            BY <1>2, <2>4, <3>1, <3>2 DEF LatchOK, Stepping, Uncounted, Within, jog, timer
    <2>6. CASE ~latched
        <3>1. trigger' = place /\ limitReason' = None /\ place' = place
            BY <1>2, <1>3, <2>2, <2>6
        <3> QED
            BY <2>3, <2>4, <3>1 DEF LatchOK, Within
    <2> QED
        BY <2>5, <2>6
<1>8. EdgeOK'
    BY <1>3 DEF EdgeOK
<1> QED
    BY <1>2, <1>5, <1>6, <1>7, <1>8, Unfold, Fold, TypesFrame, PartsFrame
       DEF move, jog, stream, timer, history

LEMMA LimitStopsKeeps == \A line \in lines : AxisInv /\ LimitStops(line) => AxisInv'
<1> SUFFICES ASSUME NEW line \in lines, AxisInv, LimitStops(line) PROVE AxisInv'
    OBVIOUS
<1>1. Reached(line) \in LimitReasons /\ IsActive
    BY DEF LimitStops, Reached, LimitReasons, None
<1>2. /\ lines' \subseteq lines /\ UNCHANGED <<startOn, endOn, place, lead, timerPc, seen, next>>
      /\ Latch(Reached(line)) /\ stopReason' = Reached(line) /\ StopAxis("STOPPED", remaining) /\ ResetStream
    BY <1>1 DEF LimitStops, Served, StopWithReason, timerLocals
<1>3. stopReason' \in Reasons /\ stopReason' \notin {"REQUEST", "START_LIMIT_RELEASE"}
    BY <1>1, <1>2 DEF Reasons, LimitReasons
<1>4. executor' \in {"IDLE", "RUNNING", "COMPLETE", "UNDERRUN"}
    BY <1>2, Unfold DEF ResetStream, JogTypes
<1>5. remaining \in Nat
    BY Unfold, Numbers
<1>6. jogMode => remaining <= total /\ (total - remaining = pulses \/ total - remaining + 1 = pulses)
    BY <1>1, Unfold DEF JogOK
<1> QED
    BY <1>1, <1>2, <1>3, <1>4, <1>5, <1>6, StopKeeps

LEMMA LimitInterruptKeeps == AxisInv /\ LimitInterrupt => AxisInv'
BY LimitIgnoredKeeps, ReleaseKeeps, AsksToBrakeKeeps, LimitStopsKeeps DEF LimitInterrupt


-----------------------------------------------------------------------------
(* The timer interrupt *)

\* The steps that only go on from phase to phase.
LEMMA DispatchKeeps == AxisInv /\ Dispatch => AxisInv'
<1> SUFFICES ASSUME AxisInv, Dispatch PROVE AxisInv'
    OBVIOUS
<1>1. /\ timerPc = "idle" /\ due \in {"update", "compare"} /\ due' = "none" /\ seen' = seen /\ next' = next
      /\ \/ /\ request # None /\ IsActive
            /\ timerPc' = IF status = "RUNNING" /\ due = "compare" THEN "pulse stop" ELSE "stop"
         \/ /\ request = None \/ ~IsActive
            /\ timerPc' = IF due = "update" /\ status \in {"STARTING", "WAITING"} THEN "update"
                          ELSE IF due = "compare" /\ status = "RUNNING" THEN "step" ELSE "idle"
    BY Unfold DEF Dispatch, At, Goto, timerLocals, TimerTypes
<1>2. UNCHANGED <<move, jog, stream, request, armed, switch, braking, world, storing, history>>
    BY DEF Dispatch, Local
<1>3. IsActive' <=> IsActive
    BY <1>2 DEF IsActive, move
<1>4. /\ IsActive /\ due = "update" => StillStarting /\ ~StillRunning
      /\ IsActive /\ due = "compare" => StillRunning
    BY Unfold DEF PhaseOK, Stepping, StillStarting, StillRunning
<1>5. /\ IsActive /\ due = "update" => timerPc' \in {"stop", "update"} /\ ~Stepping' /\ ~Uncounted'
      /\ IsActive /\ due = "compare" => timerPc' \in {"pulse stop", "step"} /\ Stepping' /\ Uncounted'
    BY <1>1, <1>4 DEF StillStarting, StillRunning, Stepping, Uncounted
<1>6. /\ due = "update" => ~Stepping /\ ~Uncounted
      /\ due = "compare" => Stepping /\ Uncounted
    BY <1>1 DEF Stepping, Uncounted
<1>7. TimerTypes'
    BY <1>1, Unfold DEF TimerTypes
<1>8. PhaseOK'
    <2>1. IsActive' /\ timerPc' \in {"update", "stop"} => StillStarting'
        BY <1>1, <1>2, <1>3, <1>4, <1>5 DEF StillStarting, move
    <2>2. IsActive' /\ Stepping' => StillRunning'
        BY <1>1, <1>2, <1>3, <1>4, <1>5 DEF StillRunning, move
    <2>3. Stops' => (IsActive' <=> request' # None)
        BY <1>1, <1>2, <1>3 DEF Stops
    <2>4. timerPc' = "step" => IsActive
        BY <1>1 DEF IsActive, Active
    <2>5. IsActive' \/ timerPc' \in {"step", "jog"} => remaining' <= MaxSteps
        BY <1>1, <1>2, <1>3, <2>4, Unfold DEF PhaseOK, jog
    <2> QED
        BY <1>1, <2>1, <2>2, <2>3, <2>5 DEF PhaseOK
<1>9. MoveOK'
    BY <1>1, <1>2, <1>3, Unfold DEF MoveOK, move, jog, stream, history, Faults
<1>10. JogOK'
    BY <1>1, <1>2, <1>3, <1>5, <1>6, Unfold DEF JogOK, jog, braking, history
<1>11. LatchOK'
    BY <1>1, <1>2, <1>3, <1>5, <1>6, Unfold DEF LatchOK, Within, jog, braking, switch, world
<1>12. EdgeOK'
    BY <1>1, <1>2, <1>3, <1>5, <1>6, Unfold DEF EdgeOK, Near, Line, LimitBlocks, move, switch, world
<1> QED
    BY <1>2, <1>7, <1>8, <1>9, <1>10, <1>11, <1>12, Unfold, Fold, TypesFrame, PartsFrame
       DEF move, jog, stream, switch, braking, world, history

\* A move that is over needs nothing of the interrupt.
LEMMA AbandonKeeps == AxisInv /\ Abandon => AxisInv'
<1> SUFFICES ASSUME AxisInv, Abandon PROVE AxisInv'
    OBVIOUS
<1>1. timerPc' = "idle" /\ seen' = 0 /\ next' = 1 /\ due' = due /\ timerPc \in {"update", "ended", "load"}
    BY DEF Abandon, Return, Masked
<1>2. UNCHANGED <<move, jog, stream, request, armed, switch, braking, world, storing, history>>
    BY DEF Abandon, Local
<1>3. ~IsActive
    <2>1. timerPc = "update" => ~IsActive
        <3>1. timerPc = "update" => ~StillStarting
            BY DEF Abandon, Masked
        <3> QED
            BY <3>1, Unfold DEF PhaseOK
    <2>2. timerPc \in {"ended", "load"} => ~IsActive
        <3>1. timerPc \in {"ended", "load"} => ~StillRunning /\ Stepping
            BY DEF Abandon, Masked, Stepping
        <3> QED
            BY <3>1, Unfold DEF PhaseOK
    <2> QED
        BY <1>1, <2>1, <2>2
<1>4. ~IsActive'
    BY <1>2, <1>3 DEF IsActive, move
<1>5. TimerTypes'
    <2>1. seen' \in 0 .. MaxSteps /\ next' \in {-1, 1}
        BY <1>1
    <2> QED
        BY <1>1, <2>1, Unfold DEF TimerTypes
<1>6. PhaseOK' /\ JogOK' /\ EdgeOK'
    BY <1>1, <1>4 DEF PhaseOK, JogOK, EdgeOK, Stops
<1>7. MoveOK'
    BY <1>2, <1>3, <1>4, Unfold DEF MoveOK, jog
<1>8. LatchOK'
    BY <1>2, <1>3, <1>4, Unfold DEF LatchOK, Within, switch, world
<1> QED
    BY <1>2, <1>5, <1>6, <1>7, <1>8, Unfold, Fold, TypesFrame, PartsFrame
       DEF move, jog, stream, switch, braking, world, history

\* A jog and a stream part.
LEMMA StepKeeps == AxisInv /\ (Step \/ StreamStep) => AxisInv'
<1> SUFFICES ASSUME AxisInv, Step \/ StreamStep PROVE AxisInv'
    OBVIOUS
<1>1. /\ UNCHANGED <<seen, next, due, move, jog, stream, request, armed, switch, braking, world, storing, history>>
      /\ \/ timerPc = "step" /\ timerPc' = IF jogMode THEN "jog" ELSE "stream"
         \/ timerPc = "stream" /\ timerPc' \in {"pop", "ended", "FAULT_EVENT"}
    BY DEF Step, StreamStep, At, Goto, Local, timerLocals
<1>2. due = "none" /\ due' = "none"
    BY <1>1, Unfold DEF PhaseOK
<1>3. IsActive' <=> IsActive
    BY <1>1 DEF IsActive, move
<1>4. IsActive /\ jogMode => timerPc = "step" /\ timerPc' = "jog"
    BY <1>1, Unfold DEF MoveOK
<1>5. IsActive /\ jogMode => Uncounted /\ Uncounted'
    BY <1>4 DEF Uncounted
<1>6. Stepping /\ Stepping'
    BY <1>1 DEF Stepping
<1>7. TimerTypes'
    BY <1>1, Unfold DEF TimerTypes
<1>8. PhaseOK'
    <2>1. timerPc' \in {"jog", "stream", "pop", "ended", "FAULT_EVENT"}
        BY <1>1
    <2>2. IsActive' => StillRunning'
        BY <1>1, <1>3, <1>6, Unfold DEF PhaseOK, StillRunning, move
    <2>3. timerPc' = "jog" => timerPc = "step"
        BY <1>1
    <2>4. IsActive' \/ timerPc' \in {"step", "jog"} => remaining' <= MaxSteps
        BY <1>1, <1>3, <2>1, <2>3, Unfold DEF PhaseOK, jog
    <2> QED
        BY <1>2, <2>1, <2>2, <2>4 DEF PhaseOK, Stops
<1>9. MoveOK'
    BY <1>1, <1>3, <1>4, Unfold DEF MoveOK, move, jog, stream, history, Faults
<1>10. JogOK'
    BY <1>1, <1>3, <1>4, <1>5, Unfold DEF JogOK, jog, braking, history
<1>11. LatchOK'
    <2>1. IsActive /\ latched => Uncounted /\ Uncounted'
        BY <1>5, Unfold DEF LatchOK
    <2> QED
        BY <1>1, <1>3, <1>6, <2>1, Unfold DEF LatchOK, Within, jog, braking, switch, world
<1>12. EdgeOK'
    BY <1>1, <1>3, <1>6, Unfold DEF EdgeOK, Near, move, switch, world
<1> QED
    BY <1>1, <1>7, <1>8, <1>9, <1>10, <1>11, <1>12, Unfold, Fold, TypesFrame, PartsFrame
       DEF move, jog, stream, switch, braking, world, history

LEMMA StreamPopKeeps == AxisInv /\ StreamPop => AxisInv'
<1> SUFFICES ASSUME AxisInv, StreamPop PROVE AxisInv'
    OBVIOUS
<1>1. /\ UNCHANGED <<seen, due, move, jog, usesStream, request, armed, switch, braking, world, storing, history>>
      /\ timerPc = "pop" /\ timerPc' \in {"load", "ended", "FAULT_UNDERRUN"}
      /\ next' \in {-1, 1} /\ executor' \in {executor, "COMPLETE", "UNDERRUN"}
    BY Unfold DEF StreamPop, At, Goto, TimerTypes
<1>2. due = "none" /\ due' = "none"
    BY <1>1, Unfold DEF PhaseOK
<1>3. IsActive' <=> IsActive
    BY <1>1 DEF IsActive, move
<1>4. IsActive => ~jogMode
    BY <1>1, Unfold DEF MoveOK
<1>5. Stepping /\ Stepping'
    BY <1>1 DEF Stepping
<1>6. TimerTypes' /\ JogTypes'
    BY <1>1, Unfold DEF TimerTypes, JogTypes, jog
<1>7. PhaseOK'
    <2>1. IsActive' => StillRunning'
        BY <1>1, <1>3, <1>5, Unfold DEF PhaseOK, StillRunning, move
    <2>2. IsActive' \/ timerPc' \in {"step", "jog"} => remaining' <= MaxSteps
        BY <1>1, <1>3, Unfold DEF PhaseOK, jog
    <2> QED
        BY <1>1, <1>2, <2>1, <2>2 DEF PhaseOK, Stops
<1>8. MoveOK'
    BY <1>1, <1>3, <1>4, Unfold DEF MoveOK, move, jog, history
<1>9. JogOK'
    BY <1>1, <1>3, <1>4 DEF JogOK, jog
<1>10. LatchOK'
    BY <1>1, <1>3, <1>4, Unfold DEF LatchOK, Within, jog, braking, switch, world
<1>11. EdgeOK'
    BY <1>1, <1>3, <1>5, Unfold DEF EdgeOK, Near, move, switch, world
<1> QED
    BY <1>1, <1>6, <1>7, <1>8, <1>9, <1>10, <1>11, Unfold, Fold, TypesFrame, PartsFrame
       DEF move, jog, stream, switch, braking, world, history

\* The last step of a jog is counted.
LEMMA JogStepKeeps == AxisInv /\ JogStep => AxisInv'
<1> SUFFICES ASSUME AxisInv, JogStep PROVE AxisInv'
    OBVIOUS
<1>1. /\ UNCHANGED <<move, jogMode, total, completed, fast, stream, request, armed, switch, braking, next, due,
                     world, storing, history>>
      /\ timerPc = "jog"
      /\ \/ remaining <= 1 /\ remaining' = 0 /\ timerPc' = "ended" /\ seen' = seen
         \/ remaining > 1 /\ remaining' = remaining /\ timerPc' = "decrement" /\ seen' = remaining
    BY DEF JogStep, At, Goto
<1>2. due = "none" /\ due' = "none"
    BY <1>1, Unfold DEF PhaseOK
<1>3. IsActive' <=> IsActive
    BY <1>1 DEF IsActive, move
<1>4. IsActive => jogMode
    BY <1>1, Unfold DEF MoveOK
<1>5. /\ Stepping /\ Stepping' /\ Uncounted
      /\ timerPc' = "decrement" => Uncounted'
      /\ timerPc' = "ended" => ~Uncounted'
    BY <1>1, <1>2 DEF Stepping, Uncounted
<1>6. remaining \in Nat /\ remaining <= MaxSteps /\ remaining \in 0 .. MaxSteps
    BY <1>1, Unfold, Numbers DEF PhaseOK
<1>7. TimerTypes' /\ JogTypes'
    <2>1. remaining' \in 0 .. Word - 1 /\ remaining' <= MaxSteps
        BY <1>1, <1>6
    <2>2. seen' \in 0 .. MaxSteps
        BY <1>1, <1>6, Unfold DEF TimerTypes
    <2>3. TimerTypes'
        BY <1>1, <2>2, Unfold DEF TimerTypes
    <2>4. JogTypes'
        BY <1>1, <2>1, Unfold DEF JogTypes, stream
    <2> QED
        BY <2>3, <2>4
<1>8. PhaseOK'
    <2>1. IsActive' => StillRunning'
        BY <1>1, <1>3, <1>5, Unfold DEF PhaseOK, StillRunning, move
    <2>2. remaining' <= MaxSteps
        BY <1>1, <1>6
    <2>3. timerPc' \in {"ended", "decrement"}
        BY <1>1
    <2> QED
        BY <1>2, <2>1, <2>2, <2>3 DEF PhaseOK, Stops
<1>9. MoveOK'
    BY <1>1, <1>3, Unfold DEF MoveOK, move, stream, history, Faults
<1>10. IsActive => /\ remaining <= total /\ total <= asked /\ (limitReason = None => total = asked)
                   /\ 1 <= remaining /\ total - remaining + 1 = pulses
    BY <1>1, <1>4, <1>5, Unfold DEF JogOK
<1>11. CASE remaining <= 1 /\ remaining' = 0 /\ timerPc' = "ended"
    <2>1. IsActive => remaining = 1
        BY <1>6, <1>10, <1>11
    <2>2. IsActive => remaining' <= total /\ total - remaining' = pulses
        BY <1>10, <1>11, <2>1, Unfold, Numbers
    <2>3. JogOK'
        BY <1>1, <1>3, <1>5, <1>10, <1>11, <2>2 DEF JogOK, braking, history
    <2>4. LatchOK'
        <3>1. latched /\ IsActive /\ limitReason # None => Within(MaxBrake + 2 - remaining)
            BY <1>5, Unfold DEF LatchOK
        <3>2. latched /\ IsActive /\ limitReason # None => Within(MaxBrake + 1 - 0)
            <4>1. MaxBrake + 2 - 1 = MaxBrake + 1 - 0
                OBVIOUS
            <4> QED
                BY <2>1, <3>1, <4>1
        <3> QED
            BY <1>1, <1>3, <1>5, <1>11, <3>2, Unfold DEF LatchOK, Within, braking, switch, world
    <2>5. EdgeOK'
        BY <1>1, <1>3, <1>5, Unfold DEF EdgeOK, Near, move, switch, world
    <2> QED
        BY <1>1, <1>7, <1>8, <1>9, <2>3, <2>4, <2>5, Unfold, Fold, TypesFrame, PartsFrame
           DEF move, stream, switch, braking, world, history
<1>12. CASE remaining > 1 /\ remaining' = remaining /\ timerPc' = "decrement" /\ seen' = remaining
    <2>1. JogOK'
        BY <1>1, <1>3, <1>5, <1>6, <1>10, <1>12 DEF JogOK, braking, history
    <2>2. LatchOK'
        BY <1>1, <1>3, <1>5, <1>12, Unfold DEF LatchOK, Within, braking, switch, world
    <2>3. EdgeOK'
        BY <1>1, <1>3, <1>5, Unfold DEF EdgeOK, Near, move, switch, world
    <2> QED
        BY <1>1, <1>7, <1>8, <1>9, <2>1, <2>2, <2>3, Unfold, Fold, TypesFrame, PartsFrame
           DEF move, stream, switch, braking, world, history
<1> QED
    BY <1>1, <1>11, <1>12

LEMMA Modulo == \A n \in 0 .. Word - 1 : n % Word = n
OBVIOUS

\* So is any other: the counter of a move that is still running is the one that was read.
LEMMA DecrementKeeps == AxisInv /\ Decrement => AxisInv'
<1> SUFFICES ASSUME AxisInv, Decrement PROVE AxisInv'
    OBVIOUS
<1>1. /\ UNCHANGED <<move, jogMode, total, completed, fast, stream, request, armed, switch, braking, seen, due,
                     world, storing, history>>
      /\ timerPc = "decrement" /\ timerPc' = "load" /\ next' = direction
      /\ remaining' \in {Decremented(seen), Decremented(remaining)}
    BY DEF Decrement, At, Goto
<1>2. due = "none" /\ due' = "none"
    BY <1>1, Unfold DEF PhaseOK
<1>3. IsActive' <=> IsActive
    BY <1>1 DEF IsActive, move
<1>4. IsActive => jogMode
    BY <1>1, Unfold DEF MoveOK
<1>5. Stepping /\ Stepping' /\ Uncounted /\ ~Uncounted'
    BY <1>1, <1>2 DEF Stepping, Uncounted
<1>6. seen \in Nat /\ remaining \in Nat /\ total \in Nat /\ pulses \in Nat
    BY Unfold, Numbers
<1>7. remaining' \in 0 .. Word - 1
    <2>1. \A n \in Int : n % Word \in 0 .. Word - 1
        OBVIOUS
    <2> QED
        BY <1>1, <1>6, <2>1 DEF Decremented
<1>8. IsActive => /\ remaining <= total /\ total <= asked /\ (limitReason = None => total = asked)
                  /\ seen = remaining /\ 1 < remaining /\ total - remaining + 1 = pulses
                  /\ remaining <= MaxSteps
    BY <1>1, <1>4, <1>5, Unfold DEF JogOK, PhaseOK
<1>9. IsActive => remaining' = remaining - 1
    <2> SUFFICES ASSUME IsActive PROVE remaining' = remaining - 1
        OBVIOUS
    <2>1. remaining - 1 \in 0 .. Word - 1
        BY <1>6, <1>8
    <2>2. remaining' = Decremented(remaining)
        BY <1>1, <1>8
    <2> QED
        BY <2>1, <2>2, Modulo DEF Decremented
<1>10. TimerTypes' /\ JogTypes'
    <2>1. next' \in {-1, 1}
        BY <1>1, Unfold DEF MoveTypes
    <2> QED
        BY <1>1, <1>7, <2>1, Unfold DEF TimerTypes, JogTypes, stream
<1>11. PhaseOK'
    <2>1. IsActive' => StillRunning'
        BY <1>1, <1>3, <1>5, Unfold DEF PhaseOK, StillRunning, move
    <2>2. IsActive => remaining' <= MaxSteps
        BY <1>6, <1>8, <1>9
    <2> QED
        BY <1>1, <1>2, <1>3, <2>1, <2>2 DEF PhaseOK, Stops
<1>12. MoveOK'
    BY <1>1, <1>3, <1>4, Unfold DEF MoveOK, move, stream, history, Faults
<1>13. JogOK'
    <2>1. IsActive => remaining' <= total /\ 1 <= remaining' /\ total - remaining' = pulses
        BY <1>6, <1>8, <1>9
    <2> QED
        BY <1>1, <1>3, <1>5, <1>8, <2>1 DEF JogOK, braking, history, move
<1>14. LatchOK'
    <2>1. latched /\ IsActive /\ limitReason # None => Within(MaxBrake + 2 - remaining)
        BY <1>5, Unfold DEF LatchOK
    <2>2. latched /\ IsActive /\ limitReason # None => Within(MaxBrake + 1 - remaining')
        <3>1. MaxBrake + 2 - remaining = MaxBrake + 1 - (remaining - 1)
            BY <1>6
        <3> QED
            BY <1>9, <2>1, <3>1
    <2> QED
        BY <1>1, <1>3, <1>5, <2>2, Unfold DEF LatchOK, Within, braking, switch, world
<1>15. EdgeOK'
    BY <1>1, <1>3, <1>5, Unfold DEF EdgeOK, Near, move, switch, world
<1> QED
    BY <1>1, <1>10, <1>11, <1>12, <1>13, <1>14, <1>15, Unfold, Fold, TypesFrame, PartsFrame
       DEF move, stream, switch, braking, world, history

\* The stops of the timer interrupt.
LEMMA StopWithReasonKeeps ==
  ASSUME AxisInv, NEW left \in Nat, NEW reason \in Reasons, StopWithReason(reason, left),
         UNCHANGED <<startOn, endOn, place, lead>>, lines' \subseteq lines,
         UNCHANGED <<timerPc, seen, next>> \/ Return,
         IsActive /\ jogMode =>
           /\ left <= total /\ (total - left = pulses \/ total - left + 1 = pulses)
           /\ reason \in {"REQUEST", "START_LIMIT_RELEASE"} => total - left = pulses,
         ~IsActive => reason \in {None} \cup LimitReasons
  PROVE  AxisInv'
<1>1. StopAxis("STOPPED", left) /\ stopReason' = reason
    BY DEF StopWithReason
<1>2. executor' \in {"IDLE", "RUNNING", "COMPLETE", "UNDERRUN"}
    BY Unfold DEF StopWithReason, ResetStream, JogTypes
<1>3. UNCHANGED <<latched, trigger, zero>> \/ \E r : Latch(r)
    BY DEF StopWithReason, switch
<1> QED
    BY <1>1, <1>2, <1>3, StopKeeps

\* How the steps of a jog stand when the pulse that ended is counted.
LEMMA Counted ==
  ASSUME AxisInv, IsActive, jogMode
  PROVE  /\ remaining <= total
         /\ ~Uncounted => total - remaining = pulses
         /\ Uncounted => 1 <= remaining /\ total - (remaining - 1) = pulses
<1>1. remaining \in Nat /\ total \in Nat /\ pulses \in Nat
    BY Unfold, Numbers
<1>2. Uncounted => timerPc # "ended"
    BY Unfold DEF Uncounted, PhaseOK
<1>3. /\ remaining <= total
      /\ ~Uncounted => total - remaining = pulses
      /\ Uncounted => 1 <= remaining /\ total - remaining + 1 = pulses
    BY <1>2, Unfold DEF JogOK
<1> QED
    BY <1>1, <1>3

LEMMA StopAsRequestedKeeps == AxisInv /\ StopAsRequested => AxisInv'
<1> SUFFICES ASSUME AxisInv, StopAsRequested PROVE AxisInv'
    OBVIOUS
<1>1. Return /\ UNCHANGED <<startOn, endOn, place, lead>> /\ lines' \subseteq lines
    BY DEF StopAsRequested, world
<1>2. request \in Reasons /\ remaining \in Nat /\ jogMode \in BOOLEAN
    BY Unfold, Numbers DEF ReactionTypes
<1>3. CASE timerPc = "stop" /\ StopWithReason(request, remaining)
    <2>1. ~Uncounted /\ (~IsActive => request = None)
        BY <1>3, Unfold DEF Uncounted, PhaseOK, Stops
    <2> QED
        BY <1>1, <1>2, <1>3, <2>1, Counted, StopWithReasonKeeps
<1>4. CASE timerPc = "pulse stop" /\ StopWithReason(request, PulseCounted(remaining))
    <2>1. Uncounted /\ (~IsActive => request = None)
        BY <1>4, Unfold DEF Uncounted, PhaseOK, Stops
    <2>2. PulseCounted(remaining) \in Nat
        BY <1>2 DEF PulseCounted
    <2>3. IsActive /\ jogMode => /\ PulseCounted(remaining) <= total
                                 /\ total - PulseCounted(remaining) = pulses
        <3> SUFFICES ASSUME IsActive, jogMode
                     PROVE  PulseCounted(remaining) <= total /\ total - PulseCounted(remaining) = pulses
            OBVIOUS
        <3>1. 1 <= remaining /\ remaining <= total /\ total - (remaining - 1) = pulses
            BY <2>1, Counted
        <3>2. PulseCounted(remaining) = remaining - 1
            BY <1>2, <3>1 DEF PulseCounted
        <3> QED
            BY <1>2, <3>1, <3>2, Unfold, Numbers
    <2> QED
        BY <1>1, <1>2, <1>4, <2>1, <2>2, <2>3, StopWithReasonKeeps
<1> QED
    BY <1>3, <1>4 DEF StopAsRequested, At

LEMMA StopFaultedKeeps == AxisInv /\ StopFaulted => AxisInv'
<1> SUFFICES ASSUME AxisInv, StopFaulted PROVE AxisInv'
    OBVIOUS
<1>1. /\ timerPc \in Faults /\ StopAxis(timerPc, remaining) /\ Return
      /\ UNCHANGED <<stopReason, executor, latched, trigger, zero, startOn, endOn, place, lead, lines>>
    BY DEF StopFaulted, switch, world
<1>2. IsActive => ~jogMode
    BY <1>1, Unfold DEF MoveOK
<1>3. remaining \in Nat /\ stopReason' \in Reasons /\ executor' \in {"IDLE", "RUNNING", "COMPLETE", "UNDERRUN"}
    BY <1>1, Unfold, Numbers DEF MoveTypes, JogTypes
<1>4. timerPc # "COMPLETE"
    BY <1>1 DEF Faults
<1> QED
    BY <1>1, <1>2, <1>3, <1>4, StopKeeps

\* Which switch stops or shortens a move.
LEMMA LimitIs ==
  ASSUME AxisInv, NEW d \in {-1, 1}
  PROVE  LimitBlocks(d) \in LimitReasons \cup {None} /\ CountsRequest(LimitBlocks(d)) \in LimitReasons \cup {None}
BY Unfold, BlockedPlace DEF CountsRequest, ReactionTypes

LEMMA LimitReason == LimitReasons \subseteq Reasons /\ None \notin LimitReasons /\ None \in Reasons
                     /\ LimitReasons \cap {"REQUEST", "START_LIMIT_RELEASE"} = {}
BY DEF LimitReasons, Reasons, None

LEMMA EndKeeps == AxisInv /\ End => AxisInv'
<1> SUFFICES ASSUME AxisInv, End PROVE AxisInv'
    OBVIOUS
<1> DEFINE limit == IF limitReason # None THEN limitReason ELSE LimitBlocks(direction)
<1>1. /\ timerPc = "ended" /\ status = "RUNNING" /\ Return
      /\ UNCHANGED <<startOn, endOn, place, lead, lines>>
      /\ \/ limit # None /\ StopWithReason(limit, remaining)
         \/ limit = None /\ StopAxis("COMPLETE", remaining) /\ UNCHANGED <<stopReason, executor, latched, trigger, zero>>
    BY DEF End, Masked, StillRunning, world, switch
<1>2. IsActive /\ ~Uncounted
    BY <1>1, Unfold DEF IsActive, Active, Uncounted, PhaseOK
<1>3. remaining \in Nat /\ stopReason \in Reasons /\ executor \in {"IDLE", "RUNNING", "COMPLETE", "UNDERRUN"}
      /\ direction \in {-1, 1} /\ stopReason = None
    BY <1>2, Unfold, Numbers DEF MoveTypes, JogTypes, MoveOK
<1>4. jogMode => remaining <= total /\ total - remaining = pulses /\ remaining = 0
    BY <1>1, <1>2, Counted, Unfold DEF JogOK
<1>5. CASE limit # None /\ StopWithReason(limit, remaining)
    <2>1. limit \in LimitReasons
        BY <1>3, <1>5, LimitIs, Unfold DEF ReactionTypes
    <2> QED
        BY <1>1, <1>2, <1>3, <1>4, <1>5, <2>1, LimitReason, StopWithReasonKeeps
<1>6. CASE limit = None /\ StopAxis("COMPLETE", remaining) /\ UNCHANGED <<stopReason, executor, latched, trigger, zero>>
    <2>1. limitReason = None
        BY <1>6
    <2>2. stopReason' = None
        BY <1>3, <1>6
    <2> QED
        BY <1>1, <1>2, <1>3, <1>4, <1>6, <2>1, <2>2, LimitReason, StopKeeps DEF None
<1> QED
    BY <1>1, <1>5, <1>6

LEMMA UpdateKeeps == AxisInv /\ Update => AxisInv'
<1> SUFFICES ASSUME AxisInv, Update PROVE AxisInv'
    OBVIOUS
<1>1. timerPc = "update" /\ status \in {"STARTING", "WAITING"} /\ Return /\ UNCHANGED world
    BY DEF Update, Masked, StillStarting
<1>2. IsActive /\ ~Uncounted /\ due = "none"
    BY <1>1, Unfold DEF IsActive, Active, Uncounted, PhaseOK
<1>3. remaining \in Nat /\ direction \in {-1, 1}
    BY Unfold, Numbers
<1>4. CASE LimitBlocks(direction) # None /\ StopWithReason(LimitBlocks(direction), remaining)
    <2>1. LimitBlocks(direction) \in LimitReasons
        BY <1>3, <1>4, LimitIs
    <2> QED
        BY <1>1, <1>2, <1>3, <1>4, <2>1, Counted, LimitReason, StopWithReasonKeeps DEF world
<1>5. CASE /\ LimitBlocks(direction) = None
           /\ status' = "RUNNING"
           /\ UNCHANGED <<stopReason, direction, jog, stream, request, armed, switch, braking, due, storing, history>>
    <2>1. timerPc' = "idle" /\ seen' = 0 /\ next' = 1 /\ due' = "none"
        BY <1>1, <1>2, <1>5 DEF Return
    <2>2. IsActive' /\ ~Stepping /\ ~Stepping' /\ ~Uncounted'
        BY <1>1, <1>2, <1>5, <2>1 DEF IsActive, Active, Stepping, Uncounted
    <2>3. MoveTypes'
        BY <1>5, Unfold DEF MoveTypes, Active
    <2>4. TimerTypes'
        <3>1. seen' \in 0 .. MaxSteps /\ next' \in {-1, 1}
            BY <2>1
        <3> QED
            BY <2>1, <3>1 DEF TimerTypes
    <2>5. PhaseOK'
        BY <1>2, <1>5, <2>1, <2>2, Unfold DEF PhaseOK, Stops, jog
    <2>6. MoveOK'
        BY <1>2, <1>5, <2>1, <2>2, Unfold DEF MoveOK, jog, stream, history, Faults
    <2>7. JogOK'
        BY <1>1, <1>2, <1>5, <2>1, <2>2, Unfold DEF JogOK, jog, braking, history
    <2>8. LatchOK'
        BY <1>1, <1>2, <1>5, <2>1, <2>2, Unfold DEF LatchOK, Within, jog, braking, switch, world
    <2>9. EdgeOK'
        BY <1>1, <1>2, <1>5, <2>2, Unfold DEF EdgeOK, Near, LimitBlocks, switch, world
    <2>10. CountOK'
        BY <2>2 DEF CountOK
    <2> QED
        BY <1>1, <1>5, <2>3, <2>4, <2>5, <2>6, <2>7, <2>8, <2>9, <2>10, Unfold, Fold, TypesFrame, PartsFrame
           DEF jog, stream, switch, braking, world, history
<1> QED
    BY <1>4, <1>5 DEF Update

LEMMA LoadStopsKeeps == AxisInv /\ LoadStops => AxisInv'
<1> SUFFICES ASSUME AxisInv, LoadStops PROVE AxisInv'
    OBVIOUS
<1> DEFINE limit == CountsRequest(LimitBlocks(next))
<1>1. /\ timerPc = "load" /\ status = "RUNNING" /\ Return /\ UNCHANGED <<startOn, endOn, place, lead, lines>>
      /\ limit # None /\ StopWithReason(limit, remaining)
    BY DEF LoadStops, Load, Masked, StillRunning, world
<1>2. IsActive /\ ~Uncounted
    BY <1>1, Unfold DEF IsActive, Active, Uncounted, PhaseOK
<1>3. remaining \in Nat /\ next \in {-1, 1}
    BY Unfold, Numbers
<1>4. limit \in LimitReasons
    BY <1>1, <1>3, LimitIs
<1> QED
    BY <1>1, <1>2, <1>3, <1>4, Counted, LimitReason, StopWithReasonKeeps

LEMMA LoadMissesDeadlineKeeps == AxisInv /\ LoadMissesDeadline => AxisInv'
<1> SUFFICES ASSUME AxisInv, LoadMissesDeadline PROVE AxisInv'
    OBVIOUS
<1>1. /\ timerPc = "load" /\ status = "RUNNING" /\ Return /\ UNCHANGED <<startOn, endOn, place, lead, lines>>
      /\ UNCHANGED <<latched, trigger, zero>> \/ \E reason : Latch(reason)
      /\ StopAxis("FAULT_TIMING", remaining) /\ UNCHANGED <<stopReason, executor>>
    BY DEF LoadMissesDeadline, Load, Masked, StillRunning, world, switch
<1>2. IsActive /\ ~Uncounted
    BY <1>1, Unfold DEF IsActive, Active, Uncounted, PhaseOK
<1>3. remaining \in Nat /\ stopReason' = None /\ executor \in {"IDLE", "RUNNING", "COMPLETE", "UNDERRUN"}
    BY <1>1, <1>2, Unfold, Numbers DEF JogTypes, MoveOK
<1>4. "FAULT_TIMING" \in Faults
    BY DEF Faults
<1> QED
    BY <1>1, <1>2, <1>3, <1>4, Counted, LimitReason, StopKeeps DEF None

\* How a shortened jog counts its steps.
LEMMA Shortens ==
  ASSUME AxisInv, IsActive, jogMode, ~Uncounted, timerPc # "ended", NEW limit, NEW steps \in 1 .. MaxBrake,
         BrakesFor(limit, steps)
  PROVE  /\ remaining' \in Nat /\ 1 <= remaining' /\ remaining' <= MaxSteps /\ remaining' <= MaxBrake
         /\ total' \in 0 .. MaxSteps /\ remaining' <= total' /\ total' <= asked /\ total' - remaining' = pulses
<1>1. remaining \in Nat /\ total \in Nat /\ pulses \in Nat /\ asked \in 0 .. MaxSteps /\ steps \in Nat
    BY Unfold, Numbers DEF HistoryTypes
<1>2. 1 <= remaining /\ remaining <= total /\ total <= asked /\ total - remaining = pulses
    BY Unfold DEF JogOK
<1>3. CASE steps < remaining
    <2>1. remaining' = steps /\ total' = total - (remaining - steps)
        BY <1>3 DEF BrakesFor
    <2> QED
        BY <1>1, <1>2, <1>3, <2>1
<1>4. CASE ~(steps < remaining)
    <2>1. remaining' = remaining /\ total' = total
        BY <1>4 DEF BrakesFor
    <2>2. remaining <= MaxBrake /\ total \in 0 .. MaxSteps /\ remaining <= MaxSteps
        BY <1>1, <1>2, <1>4
    <2> QED
        BY <1>1, <1>2, <2>1, <2>2
<1> QED
    BY <1>3, <1>4

LEMMA LoadContinuesKeeps == AxisInv /\ LoadContinues => AxisInv'
<1> SUFFICES ASSUME AxisInv, LoadContinues PROVE AxisInv'
    OBVIOUS
<1> DEFINE limit == CountsRequest(LimitBlocks(next))
<1>1. /\ timerPc = "load" /\ status = "RUNNING" /\ Return /\ UNCHANGED world
      /\ direction' = next /\ status' \in {"RUNNING", "WAITING"}
      /\ UNCHANGED <<due, stopReason, jogMode, completed, fast, stream, request, releaseArmed, limitRequested,
                     storing, history>>
    BY DEF LoadContinues, Load, Masked, StillRunning
<1>2. \/ /\ limit = None \/ limitReason # None
         /\ UNCHANGED <<switch, hookArmed, remaining, total, limitReason>>
      \/ \E steps \in 1 .. MaxBrake : BrakesFor(limit, steps)
    BY DEF LoadContinues
<1>3. IsActive /\ IsActive' /\ due = "none" /\ due' = "none" /\ timerPc' = "idle" /\ seen' = 0 /\ next' = 1
    BY <1>1, Unfold DEF IsActive, Active, PhaseOK, Return
<1>4. Stepping /\ ~Stepping' /\ ~Uncounted /\ ~Uncounted'
    BY <1>1, <1>3 DEF Stepping, Uncounted
<1>5. remaining \in Nat /\ total \in Nat /\ pulses \in Nat /\ place \in Int /\ next \in {-1, 1}
    BY Unfold, Numbers
<1>6. MoveTypes'
    BY <1>1, <1>5, Unfold DEF MoveTypes, Active
<1>7. TimerTypes'
    <2>1. seen' \in 0 .. MaxSteps /\ next' \in {-1, 1}
        BY <1>3
    <2> QED
        BY <1>3, <2>1 DEF TimerTypes
<1>8. MoveOK' /\ CountOK'
    BY <1>1, <1>3, Unfold DEF MoveOK, CountOK, stream, history, Faults
<1>9. CASE /\ limit = None \/ limitReason # None
           /\ UNCHANGED <<switch, hookArmed, remaining, total, limitReason>>
    <2>1. JogTypes' /\ ReactionTypes'
        BY <1>1, <1>9, Unfold DEF JogTypes, ReactionTypes, stream, switch
    <2>2. PhaseOK'
        BY <1>3, <1>4, <1>9, Unfold DEF PhaseOK, Stops
    <2>3. JogOK'
        BY <1>1, <1>3, <1>4, <1>9, Unfold DEF JogOK, history
    <2>4. LatchOK'
        <3>1. latched => limitReason # None
            BY <1>3, <1>9, Unfold DEF LatchOK, CountsRequest
        <3> QED
            BY <1>1, <1>3, <1>4, <1>9, <3>1, Unfold DEF LatchOK, Within, switch, world
    <2>5. EdgeOK'
        <3>1. ~latched => LimitBlocks(next) = None
            BY <1>3, <1>9, Unfold DEF LatchOK, CountsRequest
        <3>2. LimitBlocks(next) = None => Near(next)
            BY <1>5, Unfold, BlockedPlace DEF Near
        <3>3. (Near(direction))' <=> Near(next)
            BY <1>1 DEF Near, world
        <3>4. (LimitBlocks(direction))' = LimitBlocks(next)
            BY <1>1 DEF LimitBlocks, world
        <3> QED
            BY <1>9, <3>1, <3>2, <3>3, <3>4 DEF EdgeOK, switch
    <2> QED
        BY <1>1, <1>6, <1>7, <1>8, <1>9, <2>1, <2>2, <2>3, <2>4, <2>5, Unfold, Fold, TypesFrame, PartsFrame
           DEF switch, world, history
<1>10. ASSUME NEW steps \in 1 .. MaxBrake, BrakesFor(limit, steps)
       PROVE  AxisInv'
    <2>1. /\ limit # None /\ limitReason = None /\ jogMode /\ fast
          /\ limitReason' = limit /\ Latch(limit) /\ hookArmed' = FALSE
        BY <1>10 DEF BrakesFor, BrakingSteps
    <2>2. limit \in LimitReasons
        BY <1>5, <2>1, LimitIs
    <2>3. /\ latched' = TRUE /\ trigger' \in Place /\ zero' \in Place
          /\ latched => trigger' = trigger
          /\ ~latched => trigger' = place
        BY <2>1, LatchedPlace
    <2>4. /\ remaining' \in Nat /\ 1 <= remaining' /\ remaining' <= MaxSteps /\ remaining' <= MaxBrake
          /\ total' \in 0 .. MaxSteps /\ remaining' <= total' /\ total' <= asked /\ total' - remaining' = pulses
        BY <1>1, <1>3, <1>4, <1>10, <2>1, Shortens
    <2>5. JogTypes'
        <3>1. remaining' \in 0 .. Word - 1
            BY <2>4
        <3> QED
            BY <1>1, <2>4, <3>1, Unfold DEF JogTypes, stream
    <2>6. ReactionTypes'
        BY <1>1, <2>1, <2>2, <2>3, Unfold DEF ReactionTypes
    <2>7. WorldTypes'
        BY <1>1, <2>3, Unfold DEF WorldTypes, world
    <2>8. PhaseOK'
        BY <1>3, <1>4, <2>4 DEF PhaseOK, Stops
    <2>9. JogOK'
        BY <1>1, <1>3, <1>4, <2>1, <2>2, <2>4, LimitReason DEF JogOK, history
    <2>10. LatchOK'
        <3>1. Within(1)'
            <4>1. latched => Within(1)
                BY <1>3, <2>1, Unfold DEF LatchOK
            <4>2. place' = place
                BY <1>1 DEF world
            <4> QED
                BY <1>5, <2>3, <4>1, <4>2 DEF Within
        <3>2. place' \in Int /\ trigger' \in Int
            BY <1>1, <1>5, <2>3, PlaceIsInt DEF world
        <3>3. Within(MaxBrake + 1 - remaining)'
            <4>1. place' - trigger' <= 1 /\ trigger' - place' <= 1
                BY <3>1 DEF Within
            <4>2. \A n \in Nat, m \in Nat, a \in Int, b \in Int :
                     n <= m /\ a - b <= 1 /\ b - a <= 1 => a - b <= m + 1 - n /\ b - a <= m + 1 - n
                OBVIOUS
            <4>3. place' - trigger' <= MaxBrake + 1 - remaining' /\ trigger' - place' <= MaxBrake + 1 - remaining'
                BY <2>4, <3>2, <4>1, <4>2
            <4> QED
                BY <4>3 DEF Within
        <3> QED
            BY <1>1, <1>3, <1>4, <2>1, <2>2, <2>3, <3>3, LimitReason DEF LatchOK
    <2>11. EdgeOK'
        BY <2>3 DEF EdgeOK
    <2> QED
        BY <1>1, <1>6, <1>7, <1>8, <2>5, <2>6, <2>7, <2>8, <2>9, <2>10, <2>11, Unfold, Fold, TypesFrame, PartsFrame
           DEF world, history
<1> QED
    BY <1>2, <1>9, <1>10

LEMMA TimerInterruptKeeps == AxisInv /\ TimerInterrupt => AxisInv'
BY DispatchKeeps, StopAsRequestedKeeps, AbandonKeeps, UpdateKeeps, StepKeeps, JogStepKeeps, DecrementKeeps,
   StreamPopKeeps, StopFaultedKeeps, EndKeeps, LoadStopsKeeps, LoadContinuesKeeps, LoadMissesDeadlineKeeps
   DEF TimerInterrupt

-----------------------------------------------------------------------------
(* The tasks *)

LEMMA Idle == TasksRun => /\ timerPc = "idle" /\ lines = {} /\ due = "none"
                          /\ ~Stepping /\ ~Uncounted /\ ~Stops
BY DEF TasksRun, At, Stepping, Uncounted, Stops

\* A move is blocked at once or starts.
LEMMA StartKeeps ==
  ASSUME AxisInv, NEW d \in {-1, 1}, NEW steps \in 0 .. MaxSteps, NEW profiled \in BOOLEAN, NEW release \in BOOLEAN,
         NEW hook \in BOOLEAN, Start(d, steps, profiled, release, hook)
  PROVE  AxisInv'
<1>1. /\ usesStream' = (steps = 0) /\ direction' = d /\ asked' = steps /\ pulses' = 0
      /\ completed' = IF steps = 0 THEN completed ELSE 0
      /\ releaseArmed' = release /\ UNCHANGED <<request, timer, storing>>
    BY DEF Start
<1>2. timerPc = "idle" /\ lines = {} /\ due = "none"
    BY Idle DEF Start
<1>3. ~IsActive
    BY DEF Start, CanStart, IsActive, Active
<1>4. timerPc' = "idle" /\ due' = "none" /\ ~Stepping' /\ ~Uncounted' /\ ~Stops'
    BY <1>1, <1>2 DEF timer, Stepping, Uncounted, Stops
<1>5. TimerTypes' /\ HistoryTypes'
    BY <1>1, Unfold DEF TimerTypes, HistoryTypes, timer
<1>6. completed' \in 0 .. MaxSteps /\ usesStream' \in BOOLEAN /\ steps \in Nat
    <2>1. completed \in 0 .. MaxSteps
        BY Unfold DEF JogTypes
    <2>2. CASE steps = 0
        BY <1>1, <2>1, <2>2
    <2>3. CASE steps # 0
        BY <1>1, <2>3
    <2> QED
        BY <1>1, <2>2, <2>3
<1>7. place \in Int /\ place \in Place
    BY Unfold, Numbers DEF WorldTypes
<1>8. CASE /\ LimitBlocks(d) # None
           /\ status' = "STOPPED" /\ stopReason' = LimitBlocks(d)
           /\ latched' = TRUE /\ trigger' = place
           /\ zero' = IF hook /\ d = -1 THEN place ELSE zero
           /\ hookArmed' = FALSE
           /\ executor' = IF steps = 0 THEN "IDLE" ELSE executor
           /\ jogMode' = FALSE /\ remaining' = 0 /\ total' = 0
           /\ UNCHANGED <<fast, braking, world>>
    <2>1. LimitBlocks(d) \in LimitReasons
        BY <1>8, LimitIs
    <2>2. ~IsActive'
        BY <1>8 DEF IsActive, Active
    <2>3. MoveTypes'
        BY <1>1, <1>8, <2>1, LimitReason DEF MoveTypes
    <2>4. JogTypes'
        <3>1. remaining' \in 0 .. Word - 1 /\ total' \in 0 .. MaxSteps
            BY <1>8
        <3>2. executor' \in {"IDLE", "RUNNING", "COMPLETE", "UNDERRUN"}
            BY <1>8, Unfold DEF JogTypes
        <3> QED
            BY <1>6, <1>8, <3>1, <3>2, Unfold DEF JogTypes
    <2>5. ReactionTypes'
        BY <1>1, <1>8, Unfold DEF ReactionTypes, braking
    <2>6. WorldTypes'
        <3>1. zero' \in Place
            BY <1>7, <1>8, Unfold DEF WorldTypes
        <3> QED
            BY <1>7, <1>8, <3>1, Unfold DEF WorldTypes, world
    <2>7. PhaseOK' /\ JogOK' /\ EdgeOK'
        BY <1>4, <2>2 DEF PhaseOK, JogOK, EdgeOK
    <2>8. MoveOK'
        BY <1>8, <2>2 DEF MoveOK
    <2>9. LatchOK'
        <3>1. Within(MaxBrake + 1)'
            BY <1>7, <1>8 DEF Within, world
        <3> QED
            BY <2>2, <3>1 DEF LatchOK
    <2>10. CountOK'
        <3>1. asked' # 0 => completed' = 0 /\ pulses' = 0
            BY <1>1
        <3>2. status' # "COMPLETE" /\ stopReason' \notin {"REQUEST", "START_LIMIT_RELEASE"}
            BY <1>8, <2>1, LimitReason
        <3> QED
            BY <3>1, <3>2 DEF CountOK
    <2> QED
        BY <1>5, <1>8, <2>3, <2>4, <2>5, <2>6, <2>7, <2>8, <2>9, <2>10, Unfold, Fold, PartsFrame DEF world
<1>9. CASE /\ LimitBlocks(d) = None
           /\ status' = "STARTING" /\ stopReason' = None
           /\ latched' = FALSE /\ limitRequested' = None /\ limitReason' = None
           /\ executor' = IF steps = 0 THEN "RUNNING" ELSE executor
           /\ jogMode' = (steps > 0) /\ remaining' = steps /\ total' = steps /\ fast' = profiled
           /\ hookArmed' = hook
           /\ UNCHANGED <<trigger, zero>>
           /\ LevelsMayChange
    <2>1. startOn' \in Levels("start", place) /\ endOn' \in Levels("end", place) /\ UNCHANGED <<lines, place, lead>>
        BY <1>9 DEF LevelsMayChange
    <2>2. IsActive'
        BY <1>9 DEF IsActive, Active
    <2>3. MoveTypes'
        BY <1>1, <1>9, LimitReason DEF MoveTypes, Active
    <2>4. JogTypes'
        <3>1. remaining' \in 0 .. Word - 1 /\ total' \in 0 .. MaxSteps
            BY <1>9
        <3>2. executor' \in {"IDLE", "RUNNING", "COMPLETE", "UNDERRUN"}
            BY <1>9, Unfold DEF JogTypes
        <3>3. jogMode' \in BOOLEAN
            BY <1>9
        <3> QED
            BY <1>6, <1>9, <3>1, <3>2, <3>3 DEF JogTypes
    <2>5. ReactionTypes'
        BY <1>1, <1>9, Unfold DEF ReactionTypes
    <2>6. WorldTypes'
        <3>1. startOn' \in BOOLEAN /\ endOn' \in BOOLEAN
            BY <2>1 DEF Levels
        <3> QED
            BY <1>9, <2>1, <3>1, Unfold DEF WorldTypes
    <2>14. jogMode' <=> steps # 0
        <3>1. steps > 0 <=> steps # 0
            BY <1>6
        <3>2. jogMode' <=> steps > 0
            BY <1>9, Zenon
        <3> QED
            BY <3>1, <3>2, Zenon
    <2>7. PhaseOK'
        <3>1. remaining' <= MaxSteps
            BY <1>9
        <3> QED
            BY <1>4, <3>1 DEF PhaseOK
    <2>8. MoveOK'
        <3>1. jogMode' <=> asked' # 0
            BY <1>1, <2>14, Zenon
        <3>2. usesStream' <=> ~jogMode'
            BY <1>1, <2>14, Zenon
        <3> QED
            BY <1>4, <1>9, <2>2, <3>1, <3>2 DEF MoveOK, Faults
    <2>9. JogOK'
        <3>1. jogMode' => 1 <= steps
            BY <1>6, <2>14
        <3>2. remaining' = steps /\ total' = steps /\ asked' = steps /\ pulses' = 0 /\ steps <= steps /\ steps - steps = 0
            BY <1>1, <1>6, <1>9
        <3> QED
            BY <1>4, <3>1, <3>2 DEF JogOK
    <2>10. LatchOK'
        BY <1>9, <2>2 DEF LatchOK
    <2>11. LevelsOK'
        BY <2>1 DEF LevelsOK, Levels, MayBeOn, MayBeOff
    <2>12. EdgeOK'
        <3>1. Near(d)
            BY <1>7, <1>9, Unfold, BlockedPlace DEF Near
        <3>2. (Near(direction))' <=> Near(d)
            BY <1>1, <2>1 DEF Near
        <3> QED
            BY <1>9, <3>1, <3>2 DEF EdgeOK
    <2>13. CountOK'
        BY <2>2 DEF CountOK
    <2> QED
        BY <1>5, <2>3, <2>4, <2>5, <2>6, <2>7, <2>8, <2>9, <2>10, <2>11, <2>12, <2>13, Fold
<1> QED
    BY <1>8, <1>9 DEF Start

\* A task that only arms, disarms or requests disturbs nothing.
LEMMA AskKeeps ==
  ASSUME AxisInv, TasksRun, request' \in {request, "REQUEST"}, releaseArmed' \in {releaseArmed, FALSE},
         hookArmed' \in {hookArmed, FALSE}, storing' \in BOOLEAN,
         UNCHANGED <<move, jog, stream, switch, braking, timer, world, history>>
  PROVE  AxisInv'
<1>1. ~Stops /\ ~Stops'
    BY Idle DEF Stops, timer
<1>2. PhaseOK'
    BY <1>1, Unfold DEF PhaseOK, IsActive, Stepping, StillStarting, StillRunning, move, jog, timer
<1>3. ReactionTypes'
    BY Unfold DEF ReactionTypes, switch, braking, Reasons, LimitReasons
<1>4. HistoryTypes'
    BY Unfold DEF HistoryTypes, history
<1> QED
    BY <1>2, <1>3, <1>4, Unfold, Fold, TypesFrame, PartsFrame
       DEF move, jog, stream, switch, braking, timer, world, history

LEMMA RequestStopKeeps == AxisInv /\ RequestStop => AxisInv'
<1> SUFFICES ASSUME AxisInv, RequestStop PROVE AxisInv'
    OBVIOUS
<1>1. TasksRun /\ UNCHANGED <<move, jog, stream, armed, switch, braking, timer, world, history>>
      /\ storing' \in BOOLEAN /\ request' \in {request, "REQUEST"}
    BY DEF RequestStop
<1> QED
    BY <1>1, AskKeeps DEF armed

LEMMA RecoverKeeps == AxisInv /\ Recover => AxisInv'
<1> SUFFICES ASSUME AxisInv, Recover PROVE AxisInv'
    OBVIOUS
<1>1. /\ TasksRun /\ status' = "READY"
      /\ jogMode' = FALSE /\ remaining' = 0 /\ total' = 0
      /\ request' = None /\ releaseArmed' = FALSE /\ hookArmed' = FALSE
      /\ limitRequested' = None /\ limitReason' = None
      /\ UNCHANGED <<stopReason, direction, completed, fast, usesStream, switch, timer, world, storing, history>>
    BY DEF Recover
<1>2. ~IsActive /\ ~IsActive'
    BY <1>1 DEF Recover, IsActive, IsFault, Active, Faults
<1>3. ~Stops' /\ timerPc' = "idle"
    BY <1>1, Idle DEF Stops, timer
<1>4. MoveTypes'
    BY <1>1, Unfold DEF MoveTypes
<1>5. JogTypes'
    <2>1. remaining' \in 0 .. Word - 1 /\ total' \in 0 .. MaxSteps
        BY <1>1
    <2>2. executor' \in {"IDLE", "RUNNING", "COMPLETE", "UNDERRUN"}
        BY Unfold DEF Recover, ResetStream, JogTypes
    <2> QED
        BY <1>1, <2>1, <2>2, Unfold DEF JogTypes
<1>6. ReactionTypes'
    BY <1>1, Unfold DEF ReactionTypes, switch, Reasons, LimitReasons, None
<1>7. PhaseOK' /\ JogOK' /\ EdgeOK'
    BY <1>2, <1>3 DEF PhaseOK, JogOK, EdgeOK
<1>8. MoveOK'
    BY <1>1, <1>2 DEF MoveOK
<1>9. LatchOK'
    BY <1>1, <1>2, Unfold DEF LatchOK, Within, switch, world
<1>10. CountOK'
    BY <1>1, <1>2, Unfold DEF CountOK, history
<1> QED
    BY <1>1, <1>4, <1>5, <1>6, <1>7, <1>8, <1>9, <1>10, Unfold, Fold, TypesFrame, PartsFrame
       DEF switch, timer, world, history

-----------------------------------------------------------------------------
(* The timer hardware and the carriage *)

LEMMA DelayEndsKeeps == AxisInv /\ DelayEnds => AxisInv'
<1> SUFFICES ASSUME AxisInv, DelayEnds PROVE AxisInv'
    OBVIOUS
<1>1. /\ TasksRun /\ status \in {"STARTING", "WAITING"} /\ due' = "update" /\ UNCHANGED <<timerPc, seen, next>>
      /\ UNCHANGED <<move, jog, stream, request, armed, switch, braking, world, storing, history>>
    BY DEF DelayEnds, timerLocals, Local
<1>2. timerPc = "idle" /\ ~Stepping /\ ~Uncounted /\ ~Stepping' /\ ~Uncounted' /\ ~Stops'
    BY <1>1, Idle DEF Stepping, Uncounted, Stops
<1>3. IsActive' <=> IsActive
    BY <1>1 DEF IsActive, move
<1>4. TimerTypes'
    BY <1>1, Unfold DEF TimerTypes
<1>5. PhaseOK'
    BY <1>1, <1>2, <1>3, Unfold DEF PhaseOK, StillStarting, move, jog
<1>6. MoveOK'
    BY <1>1, <1>3, Unfold DEF MoveOK, move, jog, stream, history
<1>7. JogOK'
    BY <1>1, <1>2, <1>3, Unfold DEF JogOK, move, jog, braking, history
<1>8. LatchOK'
    BY <1>1, <1>2, <1>3, Unfold DEF LatchOK, Within, jog, braking, switch, world
<1>9. EdgeOK'
    BY <1>1, <1>2, <1>3, Unfold DEF EdgeOK, Near, Line, LimitBlocks, move, switch, world
<1> QED
    BY <1>1, <1>4, <1>5, <1>6, <1>7, <1>8, <1>9, Unfold, Fold, TypesFrame, PartsFrame
       DEF move, jog, stream, switch, braking, world, history

\* A pulse takes the carriage one step at most, and a jog counts it later.
LEMMA PulseKeeps == AxisInv /\ Pulse => AxisInv'
<1> SUFFICES ASSUME AxisInv, Pulse PROVE AxisInv'
    OBVIOUS
<1>1. /\ TasksRun /\ status = "RUNNING" /\ due' = "compare" /\ UNCHANGED <<timerPc, seen, next, asked>>
      /\ pulses' = IF usesStream THEN pulses ELSE pulses + 1
      /\ startOn' \in Levels("start", place') /\ endOn' \in Levels("end", place')
      /\ lines' = (IF startOn' # startOn THEN {"start"} ELSE {}) \cup (IF endOn' /\ ~endOn THEN {"end"} ELSE {})
      /\ \/ Drives /\ place' = place + direction /\ place' \in Place /\ UNCHANGED lead
         \/ ~Drives /\ lead' = lead + direction /\ UNCHANGED place
    BY DEF Pulse, timerLocals
<1>2. UNCHANGED <<move, jog, stream, request, armed, switch, braking, storing>>
    BY DEF Pulse
<1>3. /\ timerPc = "idle" /\ lines = {} /\ due = "none"
      /\ ~Stepping /\ ~Uncounted /\ Stepping' /\ Uncounted' /\ ~Stops'
    BY <1>1, Idle DEF Stepping, Uncounted, Stops
<1>4. IsActive /\ IsActive' /\ StillRunning'
    BY <1>1, <1>2 DEF IsActive, Active, StillRunning, move
<1>5. /\ place \in Int /\ trigger \in Int /\ remaining \in Nat /\ total \in Nat /\ pulses \in Nat
      /\ direction \in {-1, 1} /\ lead \in 0 .. Slack
    BY Unfold, Numbers
<1>6. place' \in Place /\ place' \in Int /\ lead' \in 0 .. Slack /\ place' - place <= 1 /\ place - place' <= 1
    <2>1. CASE Drives /\ place' = place + direction /\ place' \in Place /\ UNCHANGED lead
        BY <1>5, <2>1
    <2>2. CASE ~Drives /\ lead' = lead + direction /\ UNCHANGED place
        <3>1. IF direction = 1 THEN lead # Slack ELSE lead # 0
            BY <2>2 DEF Drives
        <3>2. lead' \in 0 .. Slack
            BY <1>5, <2>2, <3>1
        <3> QED
            BY <1>5, <2>2, <3>2, Unfold DEF WorldTypes
    <2> QED
        BY <1>1, <2>1, <2>2
<1>7. TimerTypes' /\ HistoryTypes'
    <2>1. pulses' \in Nat
        BY <1>1, <1>5
    <2> QED
        BY <1>1, <1>2, <2>1, Unfold DEF TimerTypes, HistoryTypes
<1>8. WorldTypes'
    <2>1. startOn' \in BOOLEAN /\ endOn' \in BOOLEAN
        BY <1>1 DEF Levels
    <2> QED
        BY <1>1, <1>2, <1>6, <2>1, Unfold DEF WorldTypes, switch
<1>9. PhaseOK'
    BY <1>1, <1>2, <1>3, <1>4, Unfold DEF PhaseOK, jog
<1>10. MoveOK'
    BY <1>1, <1>2, <1>4, Unfold DEF MoveOK, move, jog, stream
<1>11. JogOK'
    <2>1. jogMode => pulses' = pulses + 1
        BY <1>1, <1>4, Unfold DEF MoveOK
    <2> QED
        BY <1>1, <1>2, <1>3, <1>4, <1>5, <2>1, Unfold DEF JogOK, move, jog, braking
<1>12. LatchOK'
    <2>1. \A n \in Int : Within(n) => place' - trigger <= n + 1 /\ trigger - place' <= n + 1
        <3>1. \A n \in Int, p \in Int, q \in Int, t \in Int :
                 q - p <= 1 /\ p - q <= 1 /\ p - t <= n /\ t - p <= n => q - t <= n + 1 /\ t - q <= n + 1
            OBVIOUS
        <3> QED
            BY <1>5, <1>6, <3>1 DEF Within
    <2>2. latched /\ limitReason = None => place' - trigger <= 1 /\ trigger - place' <= 1
        <3>1. 0 + 1 = 1 /\ 0 \in Int
            OBVIOUS
        <3> QED
            BY <1>3, <1>4, <2>1, <3>1, Unfold DEF LatchOK
    <2>3. latched /\ limitReason # None => /\ place' - trigger <= MaxBrake + 2 - remaining
                                           /\ trigger - place' <= MaxBrake + 2 - remaining
        <3>1. /\ MaxBrake + 1 - remaining \in Int
              /\ MaxBrake + 1 - remaining + 1 = MaxBrake + 2 - remaining
            BY <1>5
        <3> QED
            BY <1>3, <1>4, <2>1, <3>1, Unfold DEF LatchOK
    <2> QED
        BY <1>2, <1>3, <1>4, <2>2, <2>3, Unfold DEF LatchOK, Within, jog, switch, braking
<1>13. LevelsOK'
    BY <1>1 DEF LevelsOK, Levels, MayBeOn, MayBeOff
<1>14. EdgeOK'
    <2>1. ~latched => LimitBlocks(direction) = None
        BY <1>1, <1>3, <1>4, Unfold DEF EdgeOK
    <2>2. ~latched => /\ direction = -1 => -BounceSteps <= place
                      /\ direction = 1 => place <= EndSwitch + BounceSteps
        BY <1>5, <2>1, Unfold, BlockedPlace
    <2>3. ~latched => /\ direction = -1 => -(BounceSteps + 1) <= place'
                      /\ direction = 1 => place' <= EndSwitch + BounceSteps + 1
        <3>1. /\ \A b \in Nat, p \in Int, q \in Int : p - q <= 1 /\ -b <= p => -(b + 1) <= q
              /\ \A b \in Int, p \in Int, q \in Int : q - p <= 1 /\ p <= b => q <= b + 1
            OBVIOUS
        <3>2. EndSwitch + BounceSteps \in Int
            OBVIOUS
        <3> QED
            BY <1>5, <1>6, <2>2, <3>1, <3>2
    <2> QED
        BY <1>2, <1>3, <1>5, <2>3 DEF EdgeOK, Near, move, switch
<1>15. CountOK'
    BY <1>4 DEF CountOK
<1> QED
    BY <1>2, <1>7, <1>8, <1>9, <1>10, <1>11, <1>12, <1>13, <1>14, <1>15, Unfold, Fold, TypesFrame
       DEF move, jog, stream, switch, braking

\* A switch that bounces is seen again.
LEMMA BounceKeeps == AxisInv /\ Bounce => AxisInv'
<1> SUFFICES ASSUME AxisInv, Bounce PROVE AxisInv'
    OBVIOUS
<1>1. UNCHANGED <<place, lead, move, jog, stream, request, armed, switch, braking, timer, storing, history>>
    BY DEF Bounce
<1>2. \/ /\ startOn' = ~startOn /\ startOn' \in Levels("start", place)
         /\ lines' = lines \cup {"start"} /\ UNCHANGED endOn
      \/ /\ endOn' = ~endOn /\ endOn' \in Levels("end", place)
         /\ lines' = (IF endOn' THEN lines \cup {"end"} ELSE lines) /\ UNCHANGED startOn
    BY DEF Bounce
<1>3. lines \subseteq lines' /\ lines' \subseteq lines \cup {"start", "end"}
    BY <1>2
<1>4. WorldTypes'
    <2>1. startOn' \in BOOLEAN /\ endOn' \in BOOLEAN
        BY <1>2, Unfold DEF Levels, WorldTypes
    <2> QED
        BY <1>1, <1>3, <2>1, Unfold DEF WorldTypes, switch
<1>5. LevelsOK'
    BY <1>1, <1>2, Unfold DEF LevelsOK, Levels, MayBeOn, MayBeOff
<1>6. direction \in {-1, 1}
    BY Unfold, Numbers
<1>7. LimitBlocks(direction) = None \/ Line(direction) \in lines
        => (LimitBlocks(direction))' = None \/ Line(direction) \in lines'
    <2>1. CASE startOn' = ~startOn /\ lines' = lines \cup {"start"} /\ UNCHANGED endOn
        BY <1>1, <1>6, <2>1 DEF LimitBlocks, Line, None, move
    <2>2. CASE endOn' = ~endOn /\ lines' = (IF endOn' THEN lines \cup {"end"} ELSE lines) /\ UNCHANGED startOn
        BY <1>1, <1>6, <2>2 DEF LimitBlocks, Line, None, move
    <2> QED
        BY <1>2, <2>1, <2>2
<1>8. EdgeOK'
    <2>1. /\ IsActive' <=> IsActive
          /\ Stepping' <=> Stepping
          /\ (Near(direction))' <=> Near(direction)
          /\ (Line(direction))' = Line(direction)
          /\ UNCHANGED <<status, latched>>
        BY <1>1 DEF IsActive, Stepping, Near, Line, move, timer, switch
    <2> QED
        BY <1>7, <2>1, Unfold DEF EdgeOK
<1> QED
    BY <1>1, <1>4, <1>5, <1>8, Unfold, Fold, TypesFrame, PartsFrame
       DEF move, jog, stream, switch, braking, timer, history

-----------------------------------------------------------------------------
(* The axis on its own *)

\* Together they make every step of the interrupts and of the hardware keep the invariant.
LEMMA AxisRunsKeeps == AxisInv /\ (LimitInterrupt \/ TimerInterrupt \/ DelayEnds \/ Pulse \/ Bounce) => AxisInv'
BY LimitInterruptKeeps, TimerInterruptKeeps, DelayEndsKeeps, PulseKeeps, BounceKeeps

LEMMA StutterKeeps == AxisInv /\ UNCHANGED vars => AxisInv'
BY Unfold, Fold, TypesFrame, PartsFrame
   DEF vars, move, jog, stream, armed, switch, braking, timer, world, history

LEMMA TaskKeeps == AxisInv /\ Task => AxisInv'
<1> SUFFICES ASSUME AxisInv, Task PROVE AxisInv'
    OBVIOUS
<1>1. ASSUME NEW d \in {-1, 1}, NEW steps \in 0 .. MaxSteps, NEW profiled \in BOOLEAN, NEW release \in BOOLEAN,
             Start(d, steps, profiled, release, FALSE)
      PROVE  AxisInv'
    BY <1>1, StartKeeps
<1> QED
    BY <1>1, RequestStopKeeps, RecoverKeeps DEF Task

\* The invariant of the axis holds whatever tasks, interrupts and switches do.
THEOREM AxisInvariance == Spec => []AxisInv
<1>1. AxisInv /\ [Next]_vars => AxisInv'
    BY AxisRunsKeeps, StutterKeeps, TaskKeeps DEF Next
<1> QED
    BY <1>1, AxisInit, PTL DEF Spec

\* No counter of the interrupts leaves its range, jog_steps_remaining least of all.
THEOREM AxisTypeCorrect == Spec => []TypeOK
BY AxisInvariance, InvTypes, PTL

\* However a switch bounces and whichever interrupt comes first, a move runs on for its
\* braking distance and one step more at most.
THEOREM RunsOnForTheBrakingDistance == Spec => []BrakesFromTheEdge
<1>1. AxisInv => BrakesFromTheEdge
    <2> SUFFICES ASSUME AxisInv, latched PROVE place - trigger \in -(MaxBrake + 1) .. MaxBrake + 1
        BY DEF BrakesFromTheEdge
    <2>1. place - trigger <= MaxBrake + 1 /\ trigger - place <= MaxBrake + 1
        BY BrakesWithin DEF Within
    <2>2. place \in Int /\ trigger \in Int
        BY Unfold, Numbers
    <2>3. \A n \in Nat, p \in Int, t \in Int : p - t <= n /\ t - p <= n => p - t \in -n .. n
        OBVIOUS
    <2>4. MaxBrake + 1 \in Nat
        OBVIOUS
    <2> QED
        BY <2>1, <2>2, <2>3, <2>4
<1> QED
    BY <1>1, AxisInvariance, PTL

\* A jog that is over knows how many pulses it gave.
THEOREM JogsAreAccounted == Spec => []StepsAccounted
<1>1. AxisInv => StepsAccounted
    <2> SUFFICES ASSUME AxisInv, ~IsActive, asked # 0
                 PROVE  /\ status = "COMPLETE" => completed = asked /\ pulses = asked
                        /\ stopReason \in {"REQUEST", "START_LIMIT_RELEASE"} => completed = pulses
                        /\ pulses - completed \in {0, 1}
        BY DEF StepsAccounted
    <2>1. completed \in Nat /\ pulses \in Nat
        BY Unfold, Numbers
    <2> QED
        BY <2>1, Unfold DEF CountOK
<1> QED
    BY <1>1, AxisInvariance, PTL

\* Where a move is when its switch stops or brakes it.
LEMMA AtTheEdge ==
  ASSUME AxisInv, IsActive, ~latched, LimitBlocks(direction) # None
  PROVE  place \in -(BounceSteps + 1) .. 0 \cup EndSwitch .. EndSwitch + BounceSteps + 1
<1>1. direction \in {-1, 1} /\ place \in Int
    BY Unfold, Numbers
<1>2. Near(direction)
    BY Unfold DEF EdgeOK
<1>3. LimitBlocks(direction) \in LimitReasons
    BY <1>1, LimitIs
<1>4. CASE direction = -1
    <2>1. place <= 0
        BY <1>1, <1>3, <1>4, Unfold, BlockedPlace DEF LimitReasons
    <2>2. -(BounceSteps + 1) <= place
        BY <1>2, <1>4 DEF Near
    <2> QED
        BY <1>1, <2>1, <2>2
<1>5. CASE direction = 1
    <2>1. EndSwitch <= place
        BY <1>1, <1>3, <1>5, Unfold, BlockedPlace DEF LimitReasons
    <2>2. place <= EndSwitch + BounceSteps + 1
        BY <1>2, <1>5 DEF Near
    <2> QED
        BY <1>1, <2>1, <2>2
<1> QED
    BY <1>1, <1>4, <1>5

\* The step formula of LatchedAtTheEdge.
EdgeOrTurn ==
  \/ place \in -(BounceSteps + 1) .. 0 \cup EndSwitch .. EndSwitch + BounceSteps + 1
  \/ ~jogMode /\ timerPc = "load" /\ next # direction

LEMMA LatchOnce == AxisInv /\ (\E reason : Latch(reason)) /\ trigger' # trigger => ~latched
BY LatchedPlace

\* A switch is looked at in the direction of the move; only a stream turns round.
LEMMA LoadLatches ==
  ASSUME AxisInv, Load, IsActive, ~latched, CountsRequest(LimitBlocks(next)) # None
  PROVE  EdgeOrTurn
<1>1. LimitBlocks(next) # None
    BY Unfold DEF LatchOK, CountsRequest
<1>2. timerPc = "load"
    BY DEF Load, Masked
<1>3. jogMode => next = direction
    BY <1>2, Unfold DEF JogOK
<1> QED
    BY <1>1, <1>2, <1>3, AtTheEdge DEF EdgeOrTurn

LEMMA LatchesAtTheEdge == AxisInv /\ Next /\ IsActive /\ trigger' # trigger => ~latched /\ EdgeOrTurn
<1> SUFFICES ASSUME AxisInv, Next, IsActive, trigger' # trigger PROVE ~latched /\ EdgeOrTurn
    OBVIOUS
<1>1. ASSUME NEW line \in lines, LimitAsksToBrake(line) \/ LimitStops(line) PROVE ~latched /\ EdgeOrTurn
    <2>1. Reached(line) \in LimitReasons /\ (\E reason : Latch(reason))
        BY <1>1 DEF LimitAsksToBrake, LimitStops, StopWithReason, Reached, LimitReasons, None
    <2>2. LimitBlocks(direction) # None
        BY <2>1 DEF Reached, LimitReasons, LimitBlocks, None
    <2> QED
        BY <2>1, <2>2, LatchOnce, AtTheEdge DEF EdgeOrTurn
<1>2. CASE StopAsRequested
    <2>1. request \notin LimitReasons
        BY Unfold DEF ReactionTypes
    <2> QED
        BY <1>2, <2>1 DEF StopAsRequested, StopWithReason, switch
<1>3. CASE Update
    <2>1. LimitBlocks(direction) # None /\ (\E reason : Latch(reason))
        BY <1>3 DEF Update, StopWithReason, switch
    <2> QED
        BY <2>1, LatchOnce, AtTheEdge DEF EdgeOrTurn
<1>4. CASE End
    <2>1. \E reason : Latch(reason)
        BY <1>4 DEF End, StopWithReason, switch
    <2>2. ~latched
        BY <2>1, LatchOnce
    <2>3. limitReason = None
        BY <2>2, Unfold DEF LatchOK
    <2>4. LimitBlocks(direction) # None
        BY <1>4, <2>3 DEF End, switch
    <2> QED
        BY <2>2, <2>4, AtTheEdge DEF EdgeOrTurn
<1>5. CASE LoadStops \/ LoadContinues \/ LoadMissesDeadline
    <2>1. /\ Load /\ CountsRequest(LimitBlocks(next)) # None
          /\ \E reason : Latch(reason)
        BY <1>5 DEF LoadStops, LoadContinues, LoadMissesDeadline, StopWithReason, BrakesFor, switch
    <2> QED
        BY <2>1, LatchOnce, LoadLatches
<1>6. CASE Task
    <2>1. ASSUME NEW d, NEW steps, NEW profiled, NEW release, Start(d, steps, profiled, release, FALSE)
          PROVE  ~IsActive
        BY <2>1 DEF Start, CanStart, IsActive, Active
    <2> QED
        BY <1>6, <2>1 DEF Task, RequestStop, Recover, switch
<1>7. UNCHANGED trigger \/ (\E line \in lines : LimitAsksToBrake(line) \/ LimitStops(line)) \/ StopAsRequested
      \/ Update \/ End \/ LoadStops \/ LoadContinues \/ LoadMissesDeadline \/ Task
    <2>1. LimitInterrupt => UNCHANGED trigger \/ \E line \in lines : LimitAsksToBrake(line) \/ LimitStops(line)
        BY DEF LimitInterrupt, LimitIgnored, ReleaseRequestsStop, switch
    <2>2. Dispatch \/ Abandon \/ Step \/ JogStep \/ Decrement \/ StreamStep \/ StreamPop \/ StopFaulted
            => UNCHANGED trigger
        BY DEF Dispatch, Abandon, Step, JogStep, Decrement, StreamStep, StreamPop, StopFaulted, Local, switch
    <2>3. DelayEnds \/ Pulse \/ Bounce => UNCHANGED trigger
        BY DEF DelayEnds, Pulse, Bounce, Local, switch
    <2> QED
        BY <2>1, <2>2, <2>3 DEF Next, TimerInterrupt
<1> QED
    BY <1>1, <1>2, <1>3, <1>4, <1>5, <1>6, <1>7

\* However often a switch bounces, the latched position is on the edge of the switch.
THEOREM LatchesWhereItFired == Spec => LatchedAtTheEdge
<1>1. AxisInv /\ [Next]_vars =>
        [IsActive /\ trigger' # trigger => ~latched /\ EdgeOrTurn]_vars
    BY LatchesAtTheEdge
<1> QED
    BY <1>1, AxisInvariance, PTL DEF Spec, LatchedAtTheEdge, EdgeOrTurn

\* A masked block looks at the status again, and a task starts nothing before it is over.
THEOREM StoppedIsOver == Spec => StoppedStaysStopped
<1>1. ASSUME Next, ~IsActive, timerPc # "idle" PROVE ~IsActive'
    <2>1. ASSUME NEW line \in lines, LimitIgnored(line) \/ ReleaseRequestsStop(line) \/ LimitAsksToBrake(line)
                                     \/ LimitStops(line)
          PROVE  ~IsActive'
        <3>1. LimitIgnored(line)
            BY <1>1, <2>1 DEF ReleaseRequestsStop, LimitAsksToBrake, LimitStops, IsActive, Active
        <3> QED
            BY <1>1, <3>1 DEF LimitIgnored, IsActive, move
    <2>2. CASE TimerInterrupt
        <3>1. ~StillStarting /\ ~StillRunning
            BY <1>1 DEF StillStarting, StillRunning, IsActive, Active
        <3>2. ~Update /\ ~LoadContinues
            BY <3>1 DEF Update, LoadContinues, Load
        <3>3. Dispatch \/ Abandon \/ Step \/ JogStep \/ Decrement \/ StreamStep \/ StreamPop => status' = status
            BY DEF Dispatch, Abandon, Step, JogStep, Decrement, StreamStep, StreamPop, Local, move
        <3>4. ASSUME NEW final \in {"STOPPED", "COMPLETE"} \cup Faults, NEW left, StopAxis(final, left)
              PROVE  ~IsActive'
            BY <1>1, <3>4 DEF StopAxis, IsActive, Active, IsFault, Faults
        <3>5. StopAsRequested \/ StopFaulted \/ End \/ LoadStops \/ LoadMissesDeadline
                => \E final \in {"STOPPED", "COMPLETE"} \cup Faults : \E left : StopAxis(final, left)
            BY DEF StopAsRequested, StopFaulted, End, LoadStops, LoadMissesDeadline, StopWithReason, Faults
        <3> QED
            BY <1>1, <2>2, <3>2, <3>3, <3>4, <3>5 DEF TimerInterrupt, IsActive
    <2>3. CASE Task \/ DelayEnds \/ Pulse
        <3>1. ~TasksRun
            BY <1>1 DEF TasksRun, At
        <3> QED
            BY <2>3, <3>1 DEF Task, Start, RequestStop, Recover, DelayEnds, Pulse
    <2>4. CASE Bounce
        BY <1>1, <2>4 DEF Bounce, move, IsActive
    <2> QED
        BY <1>1, <2>1, <2>2, <2>3, <2>4 DEF Next, LimitInterrupt
<1>2. [Next]_vars => [~IsActive /\ timerPc # "idle" => ~IsActive']_vars
    BY <1>1
<1> QED
    BY <1>2, PTL DEF Spec, StoppedStaysStopped

-----------------------------------------------------------------------------
(* What homing needs to know of a step of the axis: it leaves the move and its reactions *)
(* alone, it goes on with the move, or it ends it.                                       *)

ZeroNear == zero \in -(BounceSteps + 1) .. 0

\* The switch of the move fires for the first time.
Fires ==
  /\ IsActive /\ ~latched /\ latched' /\ trigger' = place
  /\ jogMode => LimitBlocks(direction) # None
LatchKept == UNCHANGED <<latched, trigger>>

Quiet ==
  /\ UNCHANGED <<status, stopReason, direction, jogMode, fast, releaseArmed, hookArmed, zero>> /\ LatchKept
  /\ ~IsActive => place' = place
Goes ==
  /\ IsActive /\ IsActive' /\ UNCHANGED <<jogMode, fast, releaseArmed, stopReason>>
  /\ hookArmed' \in {hookArmed, FALSE}
  /\ zero' # zero => hookArmed
  /\ jogMode => direction' = direction
  /\ jogMode /\ ~fast => UNCHANGED <<hookArmed, zero>>
  /\ LatchKept \/ Fires
Ends ==
  /\ ~IsActive' /\ ~releaseArmed' /\ ~hookArmed' /\ place' = place
  /\ zero' # zero => hookArmed /\ IsActive
  /\ ~IsActive => stopReason' \in {stopReason, None}
  /\ LatchKept \/ Fires
  /\ IsActive /\ stopReason' \in LimitReasons => latched'
  /\ IsActive /\ jogMode /\ ~fast /\ hookArmed /\ direction = -1 /\ stopReason' = "START_LIMIT" => ZeroNear'

LEMMA LatchHooks == ASSUME NEW reason, Latch(reason) PROVE zero' # zero => hookArmed
BY DEF Latch, HookRuns

LEMMA LatchFires ==
  ASSUME AxisInv, NEW reason, Latch(reason), IsActive, jogMode /\ ~latched => LimitBlocks(direction) # None
  PROVE  (LatchKept \/ Fires) /\ latched'
<1>1. latched \in BOOLEAN /\ latched' = TRUE
    BY Unfold, LatchedPlace DEF ReactionTypes
<1>2. CASE latched
    BY <1>1, <1>2, LatchedPlace DEF LatchKept
<1>3. CASE ~latched
    BY <1>1, <1>3, LatchedPlace DEF Fires
<1> QED
    BY <1>1, <1>2, <1>3

\* The armed hook zeroes the scale where the switch fired first.
LEMMA HookZeroes ==
  ASSUME AxisInv, IsActive, ~fast, hookArmed, direction = -1, Latch("START_LIMIT"),
         ~latched => LimitBlocks(direction) # None
  PROVE  ZeroNear'
<1>1. ~latched
    BY Unfold DEF LatchOK
<1>2. zero' = place
    BY DEF Latch, HookRuns
<1>3. place \in Int /\ LimitBlocks(-1) \in LimitReasons
    BY <1>1, Unfold, Numbers, LimitIs
<1>4. place <= 0
    BY <1>3, Unfold, BlockedPlace DEF LimitReasons
<1>5. -(BounceSteps + 1) <= place
    BY <1>1, Unfold DEF EdgeOK, Near
<1> QED
    BY <1>2, <1>3, <1>4, <1>5 DEF ZeroNear

LEMMA StopEnds ==
  ASSUME NEW final \in {"STOPPED", "COMPLETE"} \cup Faults, NEW left, StopAxis(final, left)
  PROVE  ~IsActive' /\ ~releaseArmed' /\ ~hookArmed'
BY DEF StopAxis, IsActive, Active, IsFault, Faults

\* The three kinds of a stop.
LEMMA StopWithReasonEnds ==
  ASSUME AxisInv, NEW reason \in Reasons, NEW left, StopWithReason(reason, left), place' = place,
         ~IsActive => reason = None,
         reason \in LimitReasons /\ IsActive /\ jogMode /\ ~latched => LimitBlocks(direction) # None
  PROVE  Ends
<1>1. ~IsActive' /\ ~releaseArmed' /\ ~hookArmed' /\ stopReason' = reason
    BY StopEnds DEF StopWithReason
<1>2. zero' # zero => hookArmed /\ reason \in LimitReasons
    BY LatchHooks DEF StopWithReason, switch
<1>3. reason = "START_LIMIT" => Latch("START_LIMIT") /\ reason \in LimitReasons
    BY DEF StopWithReason, LimitReasons
<1>4. IsActive /\ jogMode /\ ~fast /\ hookArmed /\ direction = -1 /\ reason = "START_LIMIT" => ZeroNear'
    BY <1>3, HookZeroes
<1>5. (LatchKept \/ Fires) /\ (reason \in LimitReasons => latched')
    <2>1. CASE reason \in LimitReasons
        <3>1. IsActive /\ Latch(reason)
            BY <2>1, LimitReason DEF StopWithReason
        <3> QED
            BY <2>1, <3>1, LatchFires
    <2>2. CASE reason \notin LimitReasons
        BY <2>2 DEF StopWithReason, switch, LatchKept
    <2> QED
        BY <2>1, <2>2
<1> QED
    BY <1>1, <1>2, <1>4, <1>5, LimitReason DEF Ends

LEMMA SwitchEffects == AxisInv /\ LimitInterrupt => Quiet \/ Goes \/ Ends
<1> SUFFICES ASSUME AxisInv, NEW line \in lines,
                    LimitIgnored(line) \/ ReleaseRequestsStop(line) \/ LimitAsksToBrake(line) \/ LimitStops(line)
             PROVE  Quiet \/ Goes \/ Ends
    BY DEF LimitInterrupt
<1>1. CASE LimitIgnored(line) \/ ReleaseRequestsStop(line)
    BY <1>1 DEF LimitIgnored, ReleaseRequestsStop, Served, Quiet, LatchKept, move, jog, armed, switch
<1>2. CASE LimitAsksToBrake(line)
    <2>1. /\ status' = status /\ status = "RUNNING" /\ jogMode /\ fast /\ hookArmed' = FALSE
          /\ UNCHANGED <<direction, jogMode, fast, releaseArmed, stopReason>>
          /\ Latch(Reached(line)) /\ Reached(line) # None
        BY <1>2 DEF LimitAsksToBrake, BrakingSteps, move, jog
    <2>2. IsActive /\ IsActive'
        BY <2>1 DEF IsActive, Active
    <2>3. LimitBlocks(direction) # None
        BY <2>1 DEF Reached, LimitBlocks, None
    <2> QED
        BY <2>1, <2>2, <2>3, LatchHooks, LatchFires DEF Goes
<1>3. CASE LimitStops(line)
    <2>1. /\ IsActive /\ Reached(line) # None /\ StopWithReason(Reached(line), remaining) /\ place' = place
        BY <1>3 DEF LimitStops, Served
    <2>2. Reached(line) \in Reasons /\ LimitBlocks(direction) # None
        BY <2>1 DEF Reached, LimitBlocks, Reasons, LimitReasons, None
    <2> QED
        BY <2>1, <2>2, StopWithReasonEnds
<1> QED
    BY <1>1, <1>2, <1>3

LEMMA TimerEffects == AxisInv /\ TimerInterrupt => Quiet \/ Goes \/ Ends
<1> SUFFICES ASSUME AxisInv, TimerInterrupt PROVE Quiet \/ Goes \/ Ends
    OBVIOUS
<1>1. CASE Dispatch \/ Abandon \/ Step \/ JogStep \/ Decrement \/ StreamStep \/ StreamPop
    BY <1>1 DEF Dispatch, Abandon, Step, JogStep, Decrement, StreamStep, StreamPop, Local, Quiet, LatchKept,
                move, jog, armed, switch, world
<1>2. CASE StopAsRequested
    <2>1. ~IsActive => request = None
        BY <1>2, Unfold DEF StopAsRequested, At, PhaseOK, Stops
    <2>2. request \in Reasons \ LimitReasons /\ place' = place
        BY <1>2, Unfold DEF StopAsRequested, ReactionTypes, world
    <2>3. request \notin LimitReasons
        BY <2>2
    <2>4. \E left : StopWithReason(request, left)
        BY <1>2 DEF StopAsRequested
    <2> QED
        BY <2>1, <2>2, <2>3, <2>4, StopWithReasonEnds
<1>3. CASE Update
    <2>1. IsActive /\ place' = place /\ direction \in {-1, 1}
        BY <1>3, Unfold, Numbers DEF Update, StillStarting, IsActive, Active, world
    <2>2. CASE LimitBlocks(direction) # None /\ StopWithReason(LimitBlocks(direction), remaining)
        BY <2>1, <2>2, LimitIs, LimitReason, StopWithReasonEnds
    <2>3. CASE /\ status' = "RUNNING"
               /\ UNCHANGED <<stopReason, direction, jog, stream, request, armed, switch, braking, due, storing, history>>
        BY <2>1, <2>3 DEF Goes, LatchKept, IsActive, Active, jog, armed, switch
    <2> QED
        BY <1>3, <2>2, <2>3 DEF Update
<1>4. CASE StopFaulted
    <2>1. /\ ~IsActive' /\ ~releaseArmed' /\ ~hookArmed' /\ place' = place /\ UNCHANGED <<stopReason, zero>>
          /\ LatchKept
        BY <1>4, StopEnds DEF StopFaulted, switch, world, LatchKept
    <2>2. IsActive => stopReason = None
        BY Unfold DEF MoveOK
    <2> QED
        BY <2>1, <2>2, LimitReason DEF Ends, None
<1>5. CASE End
    <2> DEFINE limit == IF limitReason # None THEN limitReason ELSE LimitBlocks(direction)
    <2>1. IsActive /\ place' = place /\ direction \in {-1, 1} /\ stopReason = None
        BY <1>5, Unfold, Numbers DEF End, StillRunning, IsActive, Active, MoveOK, world
    <2>2. CASE limit # None /\ StopWithReason(limit, remaining)
        <3>1. limit \in Reasons
            BY <2>1, LimitIs, LimitReason, Unfold DEF ReactionTypes
        <3>2. ~latched => limitReason = None
            BY <2>1, Unfold DEF LatchOK
        <3> QED
            BY <2>1, <2>2, <3>1, <3>2, StopWithReasonEnds
    <2>3. CASE StopAxis("COMPLETE", remaining) /\ UNCHANGED <<stopReason, executor, switch>>
        BY <2>1, <2>3, StopEnds, LimitReason DEF Ends, LatchKept, switch, None
    <2> QED
        BY <1>5, <2>2, <2>3 DEF End
<1>6. CASE LoadStops \/ LoadContinues \/ LoadMissesDeadline
    <2> DEFINE limit == CountsRequest(LimitBlocks(next))
    <2>1. IsActive /\ place' = place /\ next \in {-1, 1} /\ stopReason = None /\ timerPc = "load"
        BY <1>6, Unfold, Numbers
           DEF LoadStops, LoadContinues, LoadMissesDeadline, Load, Masked, StillRunning, IsActive, Active, MoveOK, world
    <2>2. jogMode => next = direction
        BY <2>1, Unfold DEF JogOK
    <2>6. limit # None /\ jogMode /\ ~latched => LimitBlocks(direction) # None
        <3>1. ~latched => limitRequested = None
            BY <2>1, Unfold DEF LatchOK
        <3> QED
            BY <2>2, <3>1 DEF CountsRequest
    <2>3. CASE LoadStops
        <3>1. limit # None /\ StopWithReason(limit, remaining)
            BY <2>3 DEF LoadStops
        <3>2. limit \in Reasons
            BY <2>1, LimitIs, LimitReason
        <3> QED
            BY <2>1, <2>6, <3>1, <3>2, StopWithReasonEnds
    <2>4. CASE LoadContinues
        <3>1. /\ direction' = next /\ UNCHANGED <<stopReason, jogMode, fast, releaseArmed>>
              /\ status' \in {"RUNNING", "WAITING"}
              /\ \/ UNCHANGED <<switch, hookArmed>>
                 \/ limit # None /\ jogMode /\ fast /\ (\E reason : Latch(reason)) /\ hookArmed' = FALSE
            BY <2>4 DEF LoadContinues, BrakesFor, BrakingSteps
        <3>2. IsActive'
            BY <3>1 DEF IsActive, Active
        <3>3. (zero' # zero => hookArmed) /\ hookArmed' \in {hookArmed, FALSE}
            BY <3>1, LatchHooks DEF switch
        <3>4. (jogMode => direction' = direction) /\ (jogMode /\ ~fast => UNCHANGED <<hookArmed, zero>>)
            BY <2>2, <3>1 DEF switch
        <3>5. LatchKept \/ Fires
            BY <2>1, <2>6, <3>1, LatchFires DEF LatchKept, switch
        <3> QED
            BY <2>1, <3>1, <3>2, <3>3, <3>4, <3>5 DEF Goes
    <2>5. CASE LoadMissesDeadline
        <3>1. /\ StopAxis("FAULT_TIMING", remaining) /\ stopReason' = None
              /\ UNCHANGED switch \/ (limit # None /\ \E reason : Latch(reason))
            BY <2>1, <2>5 DEF LoadMissesDeadline
        <3>2. zero' # zero => hookArmed
            BY <3>1, LatchHooks DEF switch
        <3>3. ~IsActive' /\ ~releaseArmed' /\ ~hookArmed'
            BY <3>1, StopEnds DEF Faults
        <3>4. LatchKept \/ Fires
            BY <2>1, <2>6, <3>1, LatchFires DEF LatchKept, switch
        <3> QED
            BY <2>1, <3>1, <3>2, <3>3, <3>4, LimitReason DEF Ends, None
    <2> QED
        BY <1>6, <2>3, <2>4, <2>5
<1> QED
    BY <1>1, <1>2, <1>3, <1>4, <1>5, <1>6 DEF TimerInterrupt

LEMMA AxisEffects ==
  AxisInv /\ (LimitInterrupt \/ TimerInterrupt \/ DelayEnds \/ Pulse \/ Bounce) => Quiet \/ Goes \/ Ends
<1>1. Pulse => Quiet
    BY DEF Pulse, Quiet, LatchKept, IsActive, Active, move, jog, armed, switch
<1>2. DelayEnds \/ Bounce => Quiet
    BY DEF DelayEnds, Bounce, Local, Quiet, LatchKept, move, jog, armed, switch, world
<1> QED
    BY <1>1, <1>2, SwitchEffects, TimerEffects

-----------------------------------------------------------------------------
(* Homing and calibration *)

TaskTypes ==
  /\ pc \in {"loop", "delay", "ready", "stop store", "stop axis", "settle"}
  /\ homePhase \in {"IDLE", "FAST_SEEK", "BACKOFF", "APPROACH"} /\ homed \in BOOLEAN
  /\ phase \in {"IDLE", "SEEK_END", "TAKE_UP", "MEASURE"} /\ homing \in {"no", "waiting", "returning"}
  /\ travel \in Lengths /\ measureStart \in Lengths
  /\ homePhase = "IDLE" \/ phase = "IDLE"

\* The approach is a slow jog toward the start with its hook armed; an axis at rest has
\* no hook, and the reaction that ended a backoff is gone.
HookOK ==
  /\ IsActive /\ homePhase = "APPROACH" => hookArmed /\ jogMode /\ ~fast /\ direction = -1
  /\ ~IsActive => ~hookArmed
  /\ ~IsActive /\ releaseArmed => ~EndedBy("START_LIMIT_RELEASE")

\* An approach that ended on the start switch has zeroed the scale.
ApproachOK == homePhase = "APPROACH" /\ ~IsActive /\ stopReason = "START_LIMIT" => ZeroNear

\* Who is homing is not homed; the approach begins where the backoff left the switch; the
\* axis rests on its switch until the result of the calibration is reported.
HomingOK ==
  /\ homePhase # "IDLE" => ~homed
  /\ pc = "delay" => homePhase = "BACKOFF" /\ ~IsActive /\ -BounceSteps <= place /\ ~releaseArmed
  /\ homing = "returning" /\ homed => homePhase = "IDLE" /\ ~IsActive /\ place <= 0

HomeParts == HookOK /\ ApproachOK /\ ArmedWhileHoming /\ HomedAtTheEdge
HomeInv == AxisInv /\ TaskTypes /\ HomeParts /\ HomingOK

LEMMA HomeInvTypes == HomeInv => ProcedureTypeOK
BY InvTypes DEF HomeInv, TaskTypes, ProcedureTypeOK

LEMMA HomeInit == ProcedureInit => HomeInv
<1> SUFFICES ASSUME ProcedureInit PROVE HomeInv
    OBVIOUS
<1>1. AxisInv
    BY AxisInit DEF ProcedureInit
<1>2. 0 \in Lengths
    BY PlaceIsInt DEF Lengths
<1>3. TaskTypes
    BY <1>2 DEF ProcedureInit, TaskTypes
<1>4. ~hookArmed /\ ~releaseArmed /\ ~homed /\ homePhase = "IDLE" /\ pc = "loop"
    BY DEF ProcedureInit, Init
<1> QED
    BY <1>1, <1>3, <1>4 DEF HomeInv, HomeParts, HookOK, ApproachOK, ArmedWhileHoming, HomedAtTheEdge, HomingOK

\* The axis runs while the task waits.
LEMMA AxisStepKeepsHome ==
  ASSUME HomeInv, LimitInterrupt \/ TimerInterrupt \/ DelayEnds \/ Pulse \/ Bounce, UNCHANGED taskVars
  PROVE  HomeInv'
<1>1. AxisInv' /\ (Quiet \/ Goes \/ Ends)
    BY AxisRunsKeeps, AxisEffects DEF HomeInv
<1>2. UNCHANGED <<pc, homePhase, homed, phase, homing, travel, measureStart>>
    BY DEF taskVars, procedure
<1>3. TaskTypes'
    BY <1>2 DEF HomeInv, TaskTypes
<1>4. HookOK /\ ApproachOK /\ ArmedWhileHoming /\ HomedAtTheEdge /\ HomingOK
    BY DEF HomeInv, HomeParts
<1>5. CASE Quiet
    <2>1. IsActive' <=> IsActive
        BY <1>5 DEF Quiet, IsActive
    <2>2. HookOK' /\ ApproachOK' /\ ArmedWhileHoming'
        BY <1>2, <1>4, <1>5, <2>1 DEF Quiet, HookOK, ApproachOK, ArmedWhileHoming, EndedBy, ZeroNear
    <2>3. HomedAtTheEdge' /\ HomingOK'
        BY <1>2, <1>4, <1>5, <2>1 DEF Quiet, HomedAtTheEdge, HomingOK
    <2> QED
        BY <1>1, <1>3, <2>2, <2>3 DEF HomeInv, HomeParts
<1>6. CASE Goes
    <2>1. HookOK'
        BY <1>2, <1>4, <1>6 DEF Goes, HookOK
    <2>2. ApproachOK' /\ ArmedWhileHoming'
        <3>1. hookArmed' => hookArmed
            BY <1>6, Zenon DEF Goes
        <3>2. releaseArmed' = releaseArmed /\ IsActive'
            BY <1>6 DEF Goes
        <3> QED
            BY <1>2, <1>4, <3>1, <3>2 DEF ApproachOK, ArmedWhileHoming
    <2>3. homed => zero' = zero
        BY <1>4, <1>6 DEF Goes, ArmedWhileHoming, HomingOK
    <2>4. HomedAtTheEdge' /\ HomingOK'
        BY <1>2, <1>4, <1>6, <2>3 DEF Goes, HomedAtTheEdge, HomingOK
    <2> QED
        BY <1>1, <1>3, <2>1, <2>2, <2>4 DEF HomeInv, HomeParts
<1>7. CASE Ends
    <2>1. HookOK' /\ ArmedWhileHoming'
        BY <1>7 DEF Ends, HookOK, ArmedWhileHoming
    <2>2. ApproachOK'
        <3>1. CASE IsActive
            BY <1>2, <1>4, <1>7, <3>1 DEF Ends, ApproachOK, HookOK
        <3>2. CASE ~IsActive
            <4>1. zero' = zero /\ stopReason' \in {stopReason, None}
                BY <1>7, <3>2 DEF Ends
            <4> QED
                BY <1>2, <1>4, <3>2, <4>1 DEF ApproachOK, ZeroNear, None
        <3> QED
            BY <3>1, <3>2
    <2>3. homed => zero' = zero
        BY <1>4, <1>7 DEF Ends, ArmedWhileHoming, HomingOK
    <2>4. HomedAtTheEdge' /\ HomingOK'
        BY <1>2, <1>4, <1>7, <2>3 DEF Ends, HomedAtTheEdge, HomingOK
    <2> QED
        BY <1>1, <1>3, <2>1, <2>2, <2>4 DEF HomeInv, HomeParts
<1> QED
    BY <1>1, <1>5, <1>6, <1>7

\* What a task does when it starts a move.
LEMMA StartEffects ==
  ASSUME AxisInv, NEW d \in {-1, 1}, NEW steps \in 0 .. MaxSteps, NEW profiled \in BOOLEAN,
         NEW release \in BOOLEAN, NEW hook \in BOOLEAN, Start(d, steps, profiled, release, hook)
  PROVE  /\ TasksRun /\ ~IsActive /\ place' = place /\ lead' = lead /\ (releaseArmed' <=> release)
         /\ asked' = steps /\ pulses' = 0
         /\ \/ /\ IsActive' /\ ~latched' /\ (hookArmed' <=> hook) /\ direction' = d /\ (jogMode' <=> steps # 0)
               /\ (fast' <=> profiled) /\ zero' = zero
            \/ /\ ~IsActive' /\ status' = "STOPPED" /\ ~hookArmed'
               /\ stopReason' = LimitBlocks(d) /\ stopReason' \in LimitReasons
               /\ zero' = IF hook /\ d = -1 THEN place ELSE zero
<1>1. TasksRun /\ ~IsActive /\ releaseArmed' = release /\ asked' = steps /\ pulses' = 0
    BY DEF Start, CanStart, IsActive, Active
<1>2. LimitBlocks(d) \in LimitReasons \cup {None}
    BY LimitIs
<1>3. CASE /\ LimitBlocks(d) # None
           /\ status' = "STOPPED" /\ stopReason' = LimitBlocks(d)
           /\ zero' = IF hook /\ d = -1 THEN place ELSE zero
           /\ hookArmed' = FALSE
           /\ UNCHANGED world
    BY <1>1, <1>2, <1>3 DEF IsActive, Active, world
<1>4. CASE /\ status' = "STARTING" /\ jogMode' = (steps > 0) /\ fast' = profiled /\ hookArmed' = hook
           /\ latched' = FALSE /\ UNCHANGED <<trigger, zero>> /\ LevelsMayChange
    <2>1. IsActive' /\ place' = place /\ lead' = lead /\ zero' = zero /\ direction' = d
        BY <1>4 DEF IsActive, Active, LevelsMayChange, Start
    <2>2. steps > 0 <=> steps # 0
        OBVIOUS
    <2>3. jogMode' <=> steps # 0
        BY <1>4, <2>2, Zenon
    <2> QED
        BY <1>1, <1>4, <2>1, <2>3
<1> QED
    BY <1>3, <1>4 DEF Start

\* A move of homing starts, is blocked at once or, on an axis with a fault, ends homing.
LEMMA HomeMoves ==
  ASSUME HomeInv, TasksRun, ~IsActive, pc' \in {"loop", "ready"},
         NEW to \in {"FAST_SEEK", "BACKOFF", "APPROACH"}, NEW d \in {-1, 1}, NEW profiled \in BOOLEAN,
         HomeStartMove(to, d, profiled),
         to # "BACKOFF" => ~releaseArmed,
         to = "APPROACH" => d = -1 /\ ~profiled /\ -BounceSteps <= place
  PROVE  AxisInv' /\ HomeParts' /\ HomingOK' /\ homePhase' \in {to, "IDLE"} /\ homed' = FALSE
<1>1. ~hookArmed /\ releaseArmed \in BOOLEAN /\ hookArmed \in BOOLEAN /\ place \in Int /\ AxisInv
    BY Unfold, Numbers DEF HomeInv, HomeParts, HookOK, ReactionTypes
<1>2. CASE /\ Start(d, HomeSteps, profiled, releaseArmed \/ to = "BACKOFF", hookArmed \/ to = "APPROACH")
           /\ homePhase' = to /\ homed' = FALSE
    <2> DEFINE release == releaseArmed \/ to = "BACKOFF"
               hook == hookArmed \/ to = "APPROACH"
    <2>1. release \in BOOLEAN /\ hook \in BOOLEAN /\ HomeSteps \in 0 .. MaxSteps /\ HomeSteps # 0
        BY <1>1 DEF HomeSteps
    <2>2. Start(d, HomeSteps, profiled, release, hook)
        BY <1>2
    <2>3. /\ place' = place /\ (releaseArmed' <=> release)
          /\ \/ /\ IsActive' /\ (hookArmed' <=> hook) /\ direction' = d /\ jogMode' /\ (fast' <=> profiled) /\ zero' = zero
             \/ /\ ~IsActive' /\ ~hookArmed' /\ stopReason' = LimitBlocks(d) /\ stopReason' \in LimitReasons
                /\ zero' = IF hook /\ d = -1 THEN place ELSE zero
        <3> HIDE DEF release, hook
        <3> QED
            BY <1>1, <2>1, <2>2, StartEffects
    <2>4. AxisInv'
        <3> HIDE DEF release, hook
        <3> QED
            BY <1>1, <2>1, <2>2, StartKeeps
    <2>5. HookOK'
        BY <1>1, <1>2, <2>3, LimitReason DEF HookOK, EndedBy
    <2>6. ApproachOK'
        <3> SUFFICES ASSUME to = "APPROACH", ~IsActive', stopReason' = "START_LIMIT" PROVE ZeroNear'
            BY <1>2 DEF ApproachOK
        <3>1. zero' = place /\ LimitBlocks(d) = "START_LIMIT"
            BY <2>3
        <3>2. place <= 0
            BY <1>1, <3>1, Unfold, BlockedPlace
        <3>3. -(BounceSteps + 1) <= place
            BY <1>1
        <3> QED
            BY <1>1, <3>1, <3>2, <3>3 DEF ZeroNear
    <2>7. ArmedWhileHoming'
        BY <1>1, <1>2, <2>3 DEF ArmedWhileHoming
    <2>8. HomedAtTheEdge' /\ HomingOK'
        BY <1>2 DEF HomedAtTheEdge, HomingOK
    <2> QED
        BY <1>2, <2>4, <2>5, <2>6, <2>7, <2>8 DEF HomeParts
<1>3. CASE HomeAbort
    <2>1. /\ releaseArmed' = FALSE /\ hookArmed' = FALSE /\ homePhase' = "IDLE" /\ homed' = FALSE
          /\ UNCHANGED <<move, jog, stream, request, switch, braking, timer, world, storing, history>>
        BY <1>3 DEF HomeAbort, Disarm
    <2>2. AxisInv'
        BY <1>1, <2>1, AskKeeps, Unfold DEF HistoryTypes
    <2>3. HomeParts' /\ HomingOK'
        BY <2>1 DEF HomeParts, HookOK, ApproachOK, ArmedWhileHoming, HomedAtTheEdge, HomingOK
    <2> QED
        BY <2>1, <2>2, <2>3
<1> QED
    BY <1>2, <1>3 DEF HomeStartMove

\* A step that leaves the axis and homing where they are.
LEMMA CalmKeeps ==
  ASSUME HomeInv, UNCHANGED <<status, stopReason, direction, jogMode, fast, releaseArmed, hookArmed, zero, place>>,
         UNCHANGED <<homePhase, homed>>, pc' # "delay" \/ pc' = pc, homing' \in {homing, "no"}
  PROVE  HomeParts' /\ HomingOK'
<1>1. HookOK /\ ApproachOK /\ ArmedWhileHoming /\ HomedAtTheEdge /\ HomingOK /\ (IsActive' <=> IsActive)
    BY DEF HomeInv, HomeParts, IsActive
<1>2. HookOK' /\ ApproachOK' /\ ArmedWhileHoming' /\ HomedAtTheEdge'
    BY <1>1 DEF HookOK, ApproachOK, ArmedWhileHoming, HomedAtTheEdge, EndedBy, ZeroNear
<1>3. HomingOK'
    BY <1>1 DEF HomingOK
<1> QED
    BY <1>2, <1>3 DEF HomeParts

LEMMA RestKeeps ==
  ASSUME HomeInv, AxisUnchanged, UNCHANGED <<homePhase, homed>>, pc' # "delay", homing' \in {homing, "no"}
  PROVE  AxisInv' /\ HomeParts' /\ HomingOK'
<1>1. UNCHANGED <<status, stopReason, direction, jogMode, fast, releaseArmed, hookArmed, zero, place>>
    BY DEF AxisUnchanged, vars, move, jog, armed, switch, world
<1>2. AxisInv'
    BY StutterKeeps DEF HomeInv, AxisUnchanged
<1> QED
    BY <1>1, <1>2, CalmKeeps

LEMMA PollsOfHomingKeep ==
  ASSUME HomeInv, StartBackoff \/ BackoffSettles \/ StartApproach \/ HomeComplete \/ HomeFails PROVE HomeInv'
<1>1. /\ AxisInv /\ TaskTypes /\ HomingOK /\ HookOK /\ ApproachOK /\ ArmedWhileHoming /\ HomedAtTheEdge
      /\ TasksRun /\ UNCHANGED <<phase, homing, travel, measureStart>>
    BY DEF HomeInv, HomeParts, StartBackoff, BackoffSettles, StartApproach, HomeComplete, HomeFails, HomePolled,
           MotionTaskAt, procedure
<1>2. homePhase # "IDLE" /\ ~IsActive /\ phase = "IDLE" /\ homed = FALSE
    BY <1>1 DEF StartBackoff, BackoffSettles, StartApproach, HomeComplete, HomeFails, HomePolled, MotionTaskAt,
                HomingOK, TaskTypes
<1>3. homePhase' \in {"IDLE", "FAST_SEEK", "BACKOFF", "APPROACH"} /\ homed' \in BOOLEAN
      /\ pc' \in {"loop", "delay", "ready"} => TaskTypes'
    BY <1>1, <1>2 DEF TaskTypes
<1>4. place \in Int /\ releaseArmed \in BOOLEAN /\ hookArmed \in BOOLEAN /\ startOn \in BOOLEAN
    BY <1>1, Unfold, Numbers DEF ReactionTypes
<1>5. CASE StartBackoff
    <2>1. pc' = "loop" /\ HomeStartMove("BACKOFF", 1, TRUE)
        BY <1>5 DEF StartBackoff, HomePolled, MotionTaskAt
    <2>2. AxisInv' /\ HomeParts' /\ HomingOK' /\ homePhase' \in {"BACKOFF", "IDLE"} /\ homed' = FALSE
        BY <1>1, <1>2, <2>1, HomeMoves
    <2> QED
        BY <1>3, <2>1, <2>2 DEF HomeInv
<1>6. CASE BackoffSettles
    <2>1. /\ pc' = "delay" /\ homePhase = "BACKOFF" /\ EndedBy("START_LIMIT_RELEASE") /\ ~startOn
          /\ AxisUnchanged /\ UNCHANGED <<homePhase, homed>>
        BY <1>6 DEF BackoffSettles, HomePolled, MotionTaskAt
    <2>2. UNCHANGED <<status, stopReason, direction, jogMode, fast, releaseArmed, hookArmed, zero, place>>
        BY <2>1 DEF AxisUnchanged, vars, move, jog, armed, switch, world
    <2>3. AxisInv'
        BY <1>1, <2>1, StutterKeeps DEF AxisUnchanged
    <2>4. HomeParts'
        BY <1>1, <2>1, <2>2 DEF HomeParts, HookOK, ApproachOK, ArmedWhileHoming, HomedAtTheEdge, EndedBy, ZeroNear, IsActive
    <2>5. -BounceSteps <= place
        BY <1>1, <1>4, <2>1, Unfold DEF LevelsOK, Levels, MayBeOff
    <2>6. HomingOK'
        BY <1>1, <1>2, <2>1, <2>2, <2>5 DEF HomingOK, HookOK, IsActive
    <2> QED
        BY <1>2, <1>3, <2>1, <2>3, <2>4, <2>6 DEF HomeInv
<1>7. CASE StartApproach
    <2>1. pc' = "loop" /\ pc = "delay" /\ HomeStartMove("APPROACH", -1, FALSE)
        BY <1>7 DEF StartApproach, MotionTaskAt
    <2>2. ~releaseArmed /\ -BounceSteps <= place
        BY <1>1, <2>1 DEF HomingOK
    <2>3. AxisInv' /\ HomeParts' /\ HomingOK' /\ homePhase' \in {"APPROACH", "IDLE"} /\ homed' = FALSE
        BY <1>1, <1>2, <2>1, <2>2, HomeMoves
    <2> QED
        BY <1>3, <2>1, <2>3 DEF HomeInv
<1>8. CASE HomeComplete
    <2>1. /\ pc' = "ready" /\ ApproachDone /\ homed' = TRUE /\ homePhase' = "IDLE" /\ AxisUnchanged
        BY <1>8 DEF HomeComplete, HomePolled, MotionTaskAt
    <2>2. UNCHANGED <<status, stopReason, direction, jogMode, fast, releaseArmed, hookArmed, zero, place>>
        BY <2>1 DEF AxisUnchanged, vars, move, jog, armed, switch, world
    <2>3. AxisInv'
        BY <1>1, <2>1, StutterKeeps DEF AxisUnchanged
    <2>4. ~IsActive' /\ ~hookArmed' /\ ~releaseArmed' /\ zero' = zero /\ place' = place
        BY <1>1, <1>2, <2>1, <2>2 DEF HookOK, ArmedWhileHoming, ApproachDone, IsActive
    <2>5. ZeroNear
        BY <1>1, <1>2, <2>1 DEF ApproachOK, ApproachDone, EndedBy
    <2>6. place <= 0
        BY <1>1, <1>4, <2>1, Unfold DEF LevelsOK, Levels, MayBeOn, ApproachDone
    <2>7. HomeParts'
        BY <2>1, <2>4, <2>5 DEF HomeParts, HookOK, ApproachOK, ArmedWhileHoming, HomedAtTheEdge, ZeroNear
    <2>8. HomingOK'
        BY <2>1, <2>4, <2>6 DEF HomingOK
    <2> QED
        BY <1>3, <2>1, <2>3, <2>7, <2>8 DEF HomeInv
<1>9. CASE HomeFails
    <2>1. /\ pc' = "loop" /\ releaseArmed' = FALSE /\ hookArmed' = FALSE /\ homePhase' = "IDLE" /\ homed' = FALSE
          /\ UNCHANGED <<move, jog, stream, request, switch, braking, timer, world, storing, history>>
        BY <1>9 DEF HomeFails, HomeAbort, HomePolled, MotionTaskAt, Disarm
    <2>2. AxisInv'
        BY <1>1, <2>1, AskKeeps, Unfold DEF HistoryTypes
    <2>3. HomeParts' /\ HomingOK'
        BY <2>1 DEF HomeParts, HookOK, ApproachOK, ArmedWhileHoming, HomedAtTheEdge, HomingOK
    <2> QED
        BY <1>3, <2>1, <2>2, <2>3 DEF HomeInv
<1> QED
    BY <1>5, <1>6, <1>7, <1>8, <1>9

\* ready_after_home and clear_fault leave an axis at rest where it is.
LEMMA RecoverHome ==
  ASSUME HomeInv, Recover, homePhase' \in {homePhase, "IDLE"}, homed' \in {homed, FALSE},
         homePhase' # "IDLE" => homed' = homed, pc' # "delay", homing' = homing
  PROVE  AxisInv' /\ HomeParts' /\ HomingOK'
<1>1. /\ AxisInv /\ HookOK /\ ApproachOK /\ ArmedWhileHoming /\ HomedAtTheEdge /\ HomingOK /\ homed \in BOOLEAN
    BY DEF HomeInv, HomeParts, TaskTypes
<1>2. /\ ~IsActive /\ ~IsActive' /\ ~releaseArmed' /\ ~hookArmed' /\ UNCHANGED <<stopReason, zero, place>>
    BY DEF Recover, IsActive, IsFault, Active, Faults, switch, world
<1>3. AxisInv'
    BY <1>1, RecoverKeeps
<1>4. homed' => homed
    BY <1>1
<1>5. HookOK' /\ ArmedWhileHoming'
    BY <1>2 DEF HookOK, ArmedWhileHoming
<1>6. ApproachOK' /\ HomedAtTheEdge'
    BY <1>1, <1>2, <1>4 DEF ApproachOK, HomedAtTheEdge, ZeroNear
<1>7. HomingOK'
    BY <1>1, <1>2, <1>4 DEF HomingOK
<1> QED
    BY <1>3, <1>5, <1>6, <1>7 DEF HomeParts

LEMMA ReadyAfterHomeKeeps == HomeInv /\ ReadyAfterHome => HomeInv'
<1> SUFFICES ASSUME HomeInv, ReadyAfterHome PROVE HomeInv'
    OBVIOUS
<1>1. /\ pc' = "loop" /\ UNCHANGED <<homePhase, homed, phase, homing, travel, measureStart>>
      /\ Recover \/ AxisUnchanged
    BY DEF ReadyAfterHome, MotionTaskAt, procedure
<1>2. TaskTypes'
    BY <1>1 DEF HomeInv, TaskTypes
<1> QED
    BY <1>1, <1>2, RecoverHome, RestKeeps DEF HomeInv

\* A move that is not homing's.
LEMMA MoveKeeps ==
  ASSUME HomeInv, homePhase = "IDLE", UNCHANGED <<homePhase, homed>>, pc' # "delay", homing' # "returning",
         NEW d \in {-1, 1}, NEW steps \in 0 .. MaxSteps, NEW profiled \in BOOLEAN,
         Start(d, steps, profiled, releaseArmed, hookArmed)
  PROVE  AxisInv' /\ HomeParts' /\ HomingOK'
<1>1. AxisInv /\ HomedAtTheEdge /\ ~releaseArmed /\ ~hookArmed /\ releaseArmed \in BOOLEAN /\ hookArmed \in BOOLEAN
    BY Unfold DEF HomeInv, HomeParts, ArmedWhileHoming, ReactionTypes
<1>2. AxisInv'
    BY <1>1, StartKeeps
<1>3. ~releaseArmed' /\ ~hookArmed' /\ zero' = zero
    BY <1>1, StartEffects
<1>4. HookOK' /\ ApproachOK' /\ ArmedWhileHoming'
    BY <1>3 DEF HookOK, ApproachOK, ArmedWhileHoming
<1>5. HomedAtTheEdge' /\ HomingOK'
    BY <1>1, <1>3 DEF HomedAtTheEdge, HomingOK
<1> QED
    BY <1>2, <1>4, <1>5 DEF HomeParts

LEMMA ProcedureMoveKeeps ==
  ASSUME HomeInv, homePhase = "IDLE", UNCHANGED <<homePhase, homed>>, pc' # "delay", homing' = "no",
         NEW to \in {"SEEK_END", "TAKE_UP", "MEASURE"}, NEW d \in {-1, 1}, NEW steps \in 0 .. MaxSteps,
         ProcedureMove(to, d, steps)
  PROVE  AxisInv' /\ HomeParts' /\ HomingOK' /\ phase' \in {to, "IDLE"}
<1>1. phase' \in {to, "IDLE"}
    BY DEF ProcedureMove
<1>2. CASE Start(d, steps, TRUE, releaseArmed, hookArmed)
    BY <1>1, <1>2, MoveKeeps
<1>3. CASE AxisUnchanged
    BY <1>1, <1>3, RestKeeps
<1> QED
    BY <1>2, <1>3 DEF ProcedureMove

LEMMA DistanceIsLength == 0 \in Lengths /\ \A a \in Place, b \in Place : Distance(a, b) \in Lengths
<1>1. Overrun \in Nat
    BY PlaceIsInt
<1>2. \A e \in Nat, o \in Nat : \A a \in -o .. e + o, b \in -o .. e + o :
         (IF a < b THEN b - a ELSE a - b) \in 0 .. e + 2 * o
    OBVIOUS
<1> QED
    BY <1>1, <1>2 DEF Place, Lengths, Distance

LEMMA PollsOfCalibrationKeep == HomeInv /\ CalibrationPoll => HomeInv'
<1> SUFFICES ASSUME HomeInv, CalibrationPoll PROVE HomeInv'
    OBVIOUS
<1>1. AxisInv /\ TaskTypes /\ zero \in Place /\ trigger \in Place /\ place \in Place
    BY Unfold DEF HomeInv, WorldTypes
<1>2. /\ HomeSteps \in 0 .. MaxSteps /\ TakeUpSteps \in 0 .. MaxSteps /\ MeasureSteps \in 0 .. MaxSteps
    BY ProcedureAssumption DEF ProcedureAssumption, HomeSteps
<1>3. 0 \in Lengths /\ Scale \in Lengths /\ Distance(zero, trigger) \in Lengths
    BY <1>1, DistanceIsLength DEF Scale
<1>4. CASE HomeFailed \/ Returned \/ ProcedureFails
    <2>1. /\ pc' = "loop" /\ UNCHANGED <<homePhase, homed>> /\ AxisUnchanged /\ homing' \in {homing, "no"}
          /\ phase' \in {phase, "IDLE"} /\ travel' \in {travel, 0} /\ measureStart' \in {measureStart, 0}
        BY <1>4 DEF HomeFailed, Returned, ProcedureFails, HomeEnds, Polled, MotionTaskAt
    <2>2. TaskTypes'
        BY <1>1, <1>3, <2>1 DEF TaskTypes
    <2> QED
        BY <2>1, <2>2, RestKeeps DEF HomeInv
<1>5. CASE Begin
    <2>1. /\ pc' = "loop" /\ UNCHANGED <<homePhase, homed>> /\ homePhase = "IDLE" /\ homing' = "no"
          /\ ProcedureMove("SEEK_END", 1, HomeSteps) /\ travel' = 0 /\ measureStart' = 0
        BY <1>5 DEF Begin, HomeEnds, Polled, MotionTaskAt
    <2>2. AxisInv' /\ HomeParts' /\ HomingOK' /\ phase' \in {"SEEK_END", "IDLE"}
        BY <1>2, <2>1, ProcedureMoveKeeps
    <2>3. TaskTypes'
        BY <1>1, <1>3, <2>1, <2>2 DEF TaskTypes
    <2> QED
        BY <2>2, <2>3 DEF HomeInv
<1>6. CASE EndReached
    <2>1. /\ pc' = "loop" /\ UNCHANGED <<homePhase, homed>> /\ phase = "SEEK_END" /\ homing = "no" /\ homing' = "no"
          /\ ProcedureMove("TAKE_UP", -1, TakeUpSteps) /\ travel' = Distance(zero, trigger)
          /\ measureStart' = measureStart
        BY <1>6 DEF EndReached, Judged, Polled, MotionTaskAt
    <2>2. homePhase = "IDLE"
        BY <1>1, <2>1 DEF TaskTypes
    <2>3. AxisInv' /\ HomeParts' /\ HomingOK' /\ phase' \in {"TAKE_UP", "IDLE"}
        BY <1>2, <2>1, <2>2, ProcedureMoveKeeps
    <2>4. TaskTypes'
        BY <1>1, <1>3, <2>1, <2>2, <2>3 DEF TaskTypes
    <2> QED
        BY <2>3, <2>4 DEF HomeInv
<1>7. CASE SlackTakenUp
    <2>1. /\ pc' = "loop" /\ UNCHANGED <<homePhase, homed>> /\ phase = "TAKE_UP" /\ homing = "no" /\ homing' = "no"
          /\ ProcedureMove("MEASURE", -1, MeasureSteps) /\ measureStart' = Scale /\ travel' = travel
        BY <1>7 DEF SlackTakenUp, Judged, Polled, MotionTaskAt
    <2>2. homePhase = "IDLE"
        BY <1>1, <2>1 DEF TaskTypes
    <2>3. AxisInv' /\ HomeParts' /\ HomingOK' /\ phase' \in {"MEASURE", "IDLE"}
        BY <1>2, <2>1, <2>2, ProcedureMoveKeeps
    <2>4. TaskTypes'
        BY <1>1, <1>3, <2>1, <2>2, <2>3 DEF TaskTypes
    <2> QED
        BY <2>3, <2>4 DEF HomeInv
<1>8. CASE Measured
    <2>1. /\ TasksRun /\ pc' = "loop" /\ phase = "MEASURE" /\ ~IsActive /\ HomeStartMove("FAST_SEEK", -1, TRUE)
          /\ phase' = "IDLE" /\ travel' = 0 /\ measureStart' = 0 /\ homing' = "returning"
        BY <1>8 DEF Measured, Judged, HomeBegin, MotionTaskAt
    <2>2. ~releaseArmed
        BY <1>1, <2>1 DEF HomeInv, HomeParts, ArmedWhileHoming, TaskTypes
    <2>3. AxisInv' /\ HomeParts' /\ HomingOK' /\ homePhase' \in {"FAST_SEEK", "IDLE"} /\ homed' = FALSE
        BY <2>1, <2>2, HomeMoves
    <2>4. TaskTypes'
        BY <1>1, <1>3, <2>1, <2>3 DEF TaskTypes
    <2> QED
        BY <2>3, <2>4 DEF HomeInv
<1> QED
    BY <1>4, <1>5, <1>6, <1>7, <1>8 DEF CalibrationPoll

LEMMA HomeCommandKeeps ==
  ASSUME HomeInv, TasksRun, pc' = "loop", ~Busy, HomeBegin, UNCHANGED <<phase, travel, measureStart>>,
         homing' \in {"no", "waiting"}
  PROVE  HomeInv'
<1>1. TaskTypes /\ homePhase = "IDLE" /\ phase = "IDLE" /\ homing = "no" /\ ~releaseArmed
    BY DEF HomeInv, HomeParts, ArmedWhileHoming, Busy
<1>2. CASE ~IsActive /\ HomeStartMove("FAST_SEEK", -1, TRUE)
    <2>1. AxisInv' /\ HomeParts' /\ HomingOK' /\ homePhase' \in {"FAST_SEEK", "IDLE"} /\ homed' = FALSE
        BY <1>1, <1>2, HomeMoves
    <2>2. TaskTypes'
        BY <1>1, <2>1 DEF TaskTypes
    <2> QED
        BY <2>1, <2>2 DEF HomeInv
<1>3. CASE AxisUnchanged /\ UNCHANGED <<homePhase, homed>>
    <2>1. TaskTypes'
        BY <1>1, <1>3 DEF TaskTypes
    <2>2. UNCHANGED <<status, stopReason, direction, jogMode, fast, releaseArmed, hookArmed, zero, place>>
        BY <1>3 DEF AxisUnchanged, vars, move, jog, armed, switch, world
    <2>3. AxisInv'
        BY <1>3, StutterKeeps DEF HomeInv, AxisUnchanged
    <2>4. HomeParts'
        BY <1>3, <2>2 DEF HomeInv, HomeParts, HookOK, ApproachOK, ArmedWhileHoming, HomedAtTheEdge, EndedBy, ZeroNear, IsActive
    <2>5. HomingOK'
        BY <1>1, <1>3 DEF HomingOK
    <2> QED
        BY <2>1, <2>3, <2>4, <2>5 DEF HomeInv
<1> QED
    BY <1>2, <1>3 DEF HomeBegin

LEMMA CommandsKeep == HomeInv /\ (Execute \/ StopStore \/ StopAxisTask \/ FinishStop) => HomeInv'
<1> SUFFICES ASSUME HomeInv, Execute \/ StopStore \/ StopAxisTask \/ FinishStop PROVE HomeInv'
    OBVIOUS
<1>1. AxisInv /\ TaskTypes /\ HistoryTypes /\ 0 \in Lengths
    BY Unfold, DistanceIsLength DEF HomeInv
<1>2. CASE ExecuteHome \/ ExecuteCalibrate
    <2>1. homing' \in {"no", "waiting"}
        BY <1>2 DEF ExecuteHome, ExecuteCalibrate, Busy, procedure
    <2> QED
        BY <1>2, <2>1, HomeCommandKeeps DEF ExecuteHome, ExecuteCalibrate, MotionTaskAt, procedure
<1>3. CASE ExecuteStop
    <2>1. /\ pc' \in {"stop store", "stop axis"} /\ AxisUnchanged /\ UNCHANGED <<homePhase, homed>>
          /\ phase' = "IDLE" /\ homing' = "no" /\ travel' = 0 /\ measureStart' = 0
        BY <1>3 DEF ExecuteStop, MotionTaskAt
    <2>2. TaskTypes'
        BY <1>1, <2>1 DEF TaskTypes
    <2> QED
        BY <2>1, <2>2, RestKeeps DEF HomeInv
<1>4. CASE StopStore
    <2>1. /\ TasksRun /\ pc' = "stop axis" /\ request' \in {request, "REQUEST"}
          /\ UNCHANGED <<move, jog, stream, armed, switch, braking, timer, world, storing, history>>
          /\ UNCHANGED <<homePhase, homed, phase, homing, travel, measureStart>>
        BY <1>4 DEF StopStore, MotionTaskAt, procedure
    <2>2. AxisInv'
        BY <1>1, <2>1, AskKeeps DEF armed, HistoryTypes
    <2>3. TaskTypes'
        BY <1>1, <2>1 DEF TaskTypes
    <2>4. HomeParts' /\ HomingOK'
        BY <2>1, CalmKeeps DEF move, jog, armed, switch, world
    <2> QED
        BY <2>2, <2>3, <2>4 DEF HomeInv
<1>5. CASE StopAxisTask
    <2>1. pc' = "settle" /\ homePhase' = "IDLE" /\ UNCHANGED <<phase, homing, travel, measureStart>> /\ TasksRun
        BY <1>5 DEF StopAxisTask, MotionTaskAt, procedure
    <2>2. homed' \in {homed, FALSE} => TaskTypes'
        BY <1>1, <2>1 DEF TaskTypes
    <2>3. CASE Recover /\ homed' = FALSE
        BY <2>1, <2>2, <2>3, RecoverHome DEF HomeInv
    <2>4. CASE /\ AbortDisarms /\ homed' = FALSE
               /\ UNCHANGED <<move, jog, stream, request, switch, braking, timer, world, storing, history>>
        <3>1. releaseArmed' = FALSE /\ hookArmed' = FALSE
            BY <2>4 DEF AbortDisarms, Disarm
        <3>2. AxisInv'
            BY <1>1, <2>1, <2>4, <3>1, AskKeeps DEF HistoryTypes
        <3>3. HomeParts' /\ HomingOK'
            BY <2>1, <2>4, <3>1 DEF HomeParts, HookOK, ApproachOK, ArmedWhileHoming, HomedAtTheEdge, HomingOK
        <3> QED
            BY <2>2, <2>4, <3>2, <3>3 DEF HomeInv
    <2>5. CASE homePhase = "IDLE" /\ AxisUnchanged /\ UNCHANGED homed
        BY <2>1, <2>2, <2>5, RestKeeps DEF HomeInv
    <2> QED
        BY <1>5, <2>3, <2>4, <2>5 DEF StopAxisTask
<1>6. CASE FinishStop
    <2>1. /\ pc' = "loop" /\ AxisUnchanged /\ UNCHANGED <<homePhase, homed, phase, homing, travel, measureStart>>
        BY <1>6 DEF FinishStop, MotionTaskAt, procedure
    <2>2. TaskTypes'
        BY <1>1, <2>1 DEF TaskTypes
    <2> QED
        BY <2>1, <2>2, RestKeeps DEF HomeInv
<1> QED
    BY <1>2, <1>3, <1>4, <1>5, <1>6 DEF Execute

LEMMA StreamsAndRequestsKeep == HomeInv /\ (StreamStarts \/ (RequestStop /\ UNCHANGED taskVars)) => HomeInv'
<1> SUFFICES ASSUME HomeInv, StreamStarts \/ (RequestStop /\ UNCHANGED taskVars) PROVE HomeInv'
    OBVIOUS
<1>1. UNCHANGED <<pc, homePhase, homed, phase, homing, travel, measureStart>>
    BY DEF StreamStarts, taskVars, procedure
<1>2. TaskTypes'
    BY <1>1 DEF HomeInv, TaskTypes
<1>3. CASE StreamStarts
    <2>1. homePhase = "IDLE" /\ homing = "no" /\ 0 \in 0 .. MaxSteps
        BY <1>3 DEF StreamStarts, Busy
    <2>2. pc # "delay"
        BY <2>1 DEF HomeInv, HomingOK
    <2> QED
        BY <1>1, <1>2, <1>3, <2>1, <2>2, MoveKeeps DEF StreamStarts, HomeInv
<1>4. CASE RequestStop
    <2>1. AxisInv'
        BY <1>4, RequestStopKeeps DEF HomeInv
    <2>2. HomeParts' /\ HomingOK'
        BY <1>1, <1>4, CalmKeeps DEF RequestStop, move, jog, armed, switch, world
    <2> QED
        BY <1>2, <2>1, <2>2 DEF HomeInv
<1> QED
    BY <1>3, <1>4

\* The invariant of homing and calibration, over the one of the axis.
THEOREM HomingInvariance == ProcedureSpec => []HomeInv
<1>1. ASSUME HomeInv, [ProcedureNext]_allVars PROVE HomeInv'
    <2>1. CASE UNCHANGED allVars
        <3>1. AxisUnchanged /\ UNCHANGED <<pc, homePhase, homed, phase, homing, travel, measureStart>>
            BY <2>1 DEF allVars, taskVars, procedure, AxisUnchanged
        <3>2. TaskTypes'
            BY <1>1, <3>1 DEF HomeInv, TaskTypes
        <3>3. AxisInv'
            BY <1>1, <3>1, StutterKeeps DEF HomeInv, AxisUnchanged
        <3>4. HomeParts' /\ HomingOK'
            BY <1>1, <3>1, CalmKeeps DEF AxisUnchanged, vars, move, jog, armed, switch, world
        <3> QED
            BY <3>2, <3>3, <3>4 DEF HomeInv
    <2>2. CASE AxisRuns \/ (Bounce /\ UNCHANGED taskVars)
        BY <1>1, <2>2, AxisStepKeepsHome DEF AxisRuns
    <2>3. CASE MotionTask
        BY <1>1, <2>3, PollsOfHomingKeep, ReadyAfterHomeKeeps, PollsOfCalibrationKeep, CommandsKeep DEF MotionTask, HomePoll
    <2>4. CASE Execute \/ StreamStarts \/ (RequestStop /\ UNCHANGED taskVars)
        BY <1>1, <2>4, CommandsKeep, StreamsAndRequestsKeep
    <2> QED
        BY <1>1, <2>1, <2>2, <2>3, <2>4 DEF ProcedureNext
<1> QED
    BY <1>1, HomeInit, PTL DEF ProcedureSpec

\* The axis and the task keep their types, and only one of the two polls has work.
THEOREM ProcedureTypeCorrect == ProcedureSpec => []ProcedureTypeOK
BY HomingInvariance, HomeInvTypes, PTL

\* The hook and the release of homing do not outlive the move they were armed for.
THEOREM ReactionsEndWithTheirMove == ProcedureSpec => []ArmedWhileHoming
<1>1. HomeInv => ArmedWhileHoming
    BY DEF HomeInv, HomeParts
<1> QED
    BY <1>1, HomingInvariance, PTL

\* A homed axis counts from where its start switch fired, however it bounces.
THEOREM HomedCountsFromTheEdge == ProcedureSpec => []HomedAtTheEdge
<1>1. HomeInv => HomedAtTheEdge
    BY DEF HomeInv, HomeParts
<1> QED
    BY <1>1, HomingInvariance, PTL

\* Calibration reports OK only for an axis that rests on its start switch.
THEOREM OkIsReportedAtHome == ProcedureSpec => OkMeansHome
<1>1. HomeInv => (homing = "returning" /\ homed => ~IsActive /\ place <= 0)
    BY DEF HomeInv, HomingOK
<1>2. HomeInv /\ [ProcedureNext]_allVars =>
        [homing = "returning" /\ homing' = "no" /\ pc' = "loop" /\ homed => ~IsActive /\ place <= 0]_allVars
    BY <1>1
<1> QED
    BY <1>2, HomingInvariance, PTL DEF ProcedureSpec, OkMeansHome


-----------------------------------------------------------------------------
(* What calibration measures: the move to the end switch, the take-up and the measured move *)

AloneOK == phase # "IDLE" => homing = "no" /\ homed /\ pc = "loop"

\* The switch that ended the move fired first on its edge, and the carriage is not back yet.
SeekOK ==
  phase = "SEEK_END" =>
    /\ asked # 0 /\ (IsActive => direction = 1)
    /\ latched => trigger \in EndSwitch .. EndSwitch + BounceSteps + 1 /\ EndSwitch <= place
    /\ ~IsActive /\ stopReason = "END_LIMIT" => latched
ReturnOK ==
  phase \in {"TAKE_UP", "MEASURE"} =>
    /\ IsActive => direction = -1
    /\ travel \in EndSwitch .. EndSwitch + 2 * (BounceSteps + 1)

\* The steps of the take-up go into the slack until there is none.
TakeUpOK ==
  phase = "TAKE_UP" =>
    /\ asked = TakeUpSteps
    /\ EndSwitch <= place + lead + pulses
    /\ lead # 0 => lead + pulses <= Slack

\* Every pulse of the measured move is a step of the carriage.
MeasureOK ==
  phase = "MEASURE" =>
    /\ asked = MeasureSteps /\ lead = 0 /\ EndSwitch <= place + pulses + TakeUpSteps
    /\ measureStart = Distance(zero, place + pulses)

CourseOK == AloneOK /\ SeekOK /\ ReturnOK /\ TakeUpOK /\ MeasureOK
CourseInv == HomeInv /\ CourseOK

\* Only a pulse moves the carriage, and only a pulse is counted.
LEMMA MoveEffects ==
  ASSUME AxisInv, LimitInterrupt \/ TimerInterrupt \/ DelayEnds \/ Pulse \/ Bounce
  PROVE  UNCHANGED asked /\ (UNCHANGED <<place, lead, pulses>> \/ Pulse)
<1>1. LimitInterrupt => UNCHANGED <<place, lead, pulses, asked>>
  BY DEF LimitInterrupt, LimitIgnored, ReleaseRequestsStop, LimitAsksToBrake, LimitStops, Served, StopWithReason,
         StopAxis, history
<1>2. Dispatch \/ Abandon \/ Step \/ JogStep \/ Decrement \/ StreamStep \/ StreamPop
        => UNCHANGED <<place, lead, pulses, asked>>
  BY DEF Dispatch, Abandon, Step, JogStep, Decrement, StreamStep, StreamPop, Local, world, history
<1>3. StopAsRequested \/ StopFaulted \/ End \/ LoadStops \/ LoadMissesDeadline
        => UNCHANGED <<place, lead, pulses, asked>>
  BY DEF StopAsRequested, StopFaulted, End, LoadStops, LoadMissesDeadline, Load, StopWithReason, StopAxis,
         world, history
<1>4. Update \/ LoadContinues => UNCHANGED <<place, lead, pulses, asked>>
  BY DEF Update, LoadContinues, Load, StopWithReason, StopAxis, world, history
<1>5. DelayEnds \/ Bounce => UNCHANGED <<place, lead, pulses, asked>>
  BY DEF DelayEnds, Bounce, Local, world, history
<1>6. Pulse => UNCHANGED asked
  BY DEF Pulse
<1> QED
  BY <1>1, <1>2, <1>3, <1>4, <1>5, <1>6 DEF TimerInterrupt

\* A pulse of a jog drives the carriage or takes up slack.
LEMMA PulseOfJog ==
  ASSUME AxisInv, Pulse, asked # 0
  PROVE  /\ IsActive /\ pulses' = pulses + 1
         /\ \/ place' = place + direction /\ lead' = lead /\ Drives
            \/ place' = place /\ lead' = lead + direction /\ ~Drives
<1>1. IsActive
  BY DEF Pulse, IsActive, Active
<1>2. jogMode /\ ~usesStream
  BY <1>1, Unfold DEF MoveOK
<1> QED
  BY <1>1, <1>2 DEF Pulse

\* The interrupts of the axis, seen from calibration.
LEMMA AxisStepKeepsCourse ==
  ASSUME CourseInv, LimitInterrupt \/ TimerInterrupt \/ DelayEnds \/ Pulse \/ Bounce, UNCHANGED taskVars
  PROVE  CourseOK'
<1>1. AxisInv /\ HomeParts /\ TaskTypes /\ AloneOK /\ SeekOK /\ ReturnOK /\ TakeUpOK /\ MeasureOK
  BY DEF CourseInv, CourseOK, HomeInv
<1>2. UNCHANGED <<pc, homePhase, homed, phase, homing, travel, measureStart>>
  BY DEF taskVars, procedure
<1>3. Quiet \/ Goes \/ Ends
  BY <1>1, AxisEffects
<1>4. asked' = asked /\ (UNCHANGED <<place, lead, pulses>> \/ Pulse)
  BY <1>1, MoveEffects
<1>5. asked # 0 /\ IsActive' => IsActive /\ direction' = direction
  <2>1. asked # 0 /\ IsActive => jogMode
    BY <1>1, Unfold DEF MoveOK
  <2>2. Quiet => (IsActive' <=> IsActive) /\ direction' = direction
    BY DEF Quiet, IsActive
  <2> QED
    BY <1>3, <2>1, <2>2 DEF Goes, Ends
<1>6. phase # "IDLE" => zero' = zero
  BY <1>1, <1>3 DEF Quiet, Goes, Ends, HomeParts, ArmedWhileHoming, TaskTypes
<1>7. /\ place \in Int /\ lead \in Int /\ lead >= 0 /\ pulses \in Nat /\ direction \in {-1, 1} /\ trigger \in Int
      /\ lead <= Slack /\ Slack \in Nat
  BY <1>1, Unfold, Numbers
<1>8. /\ TakeUpSteps \in Nat \ {0} /\ MeasureSteps \in Nat \ {0}
  BY ProcedureAssumption DEF ProcedureAssumption
<1>9. AloneOK'
  BY <1>1, <1>2 DEF AloneOK
<1>10. ReturnOK'
  BY <1>1, <1>2, <1>4, <1>5, <1>8 DEF ReturnOK, TakeUpOK, MeasureOK
<1>11. TakeUpOK'
  <2> SUFFICES ASSUME phase = "TAKE_UP"
               PROVE  /\ asked' = TakeUpSteps /\ EndSwitch <= place' + lead' + pulses'
                      /\ lead' # 0 => lead' + pulses' <= Slack
    BY <1>2 DEF TakeUpOK
  <2>1. /\ asked = TakeUpSteps /\ EndSwitch <= place + lead + pulses
        /\ (lead # 0 => lead + pulses <= Slack) /\ (IsActive => direction = -1)
    BY <1>1 DEF TakeUpOK, ReturnOK
  <2>2. CASE UNCHANGED <<place, lead, pulses>>
    BY <1>4, <2>1, <2>2
  <2>3. CASE Pulse
    <3>1. /\ pulses' = pulses + 1 /\ direction = -1
          /\ \/ place' = place - 1 /\ lead' = lead /\ lead = 0
             \/ place' = place /\ lead' = lead - 1 /\ lead # 0
      BY <1>1, <1>7, <1>8, <2>1, <2>3, PulseOfJog DEF Drives
    <3> QED
      BY <1>4, <1>7, <2>1, <3>1
  <2> QED
    BY <1>4, <2>2, <2>3
<1>12. MeasureOK'
  <2> SUFFICES ASSUME phase = "MEASURE"
               PROVE  /\ asked' = MeasureSteps /\ lead' = 0 /\ EndSwitch <= place' + pulses' + TakeUpSteps
                      /\ place' + pulses' = place + pulses
    BY <1>1, <1>2, <1>6 DEF MeasureOK, Distance
  <2>1. /\ asked = MeasureSteps /\ lead = 0 /\ EndSwitch <= place + pulses + TakeUpSteps
        /\ IsActive => direction = -1
    BY <1>1 DEF MeasureOK, ReturnOK
  <2>2. CASE UNCHANGED <<place, lead, pulses>>
    BY <1>4, <2>1, <2>2
  <2>3. CASE Pulse
    <3>1. pulses' = pulses + 1 /\ place' = place - 1 /\ lead' = lead
      BY <1>1, <1>7, <1>8, <2>1, <2>3, PulseOfJog DEF Drives
    <3> QED
      BY <1>4, <1>7, <1>8, <2>1, <3>1
  <2> QED
    BY <1>4, <2>2, <2>3
<1>13. SeekOK'
  <2> SUFFICES ASSUME phase = "SEEK_END"
               PROVE  /\ asked' # 0 /\ (IsActive' => direction' = 1)
                      /\ latched' => trigger' \in EndSwitch .. EndSwitch + BounceSteps + 1 /\ EndSwitch <= place'
                      /\ ~IsActive' /\ stopReason' = "END_LIMIT" => latched'
    BY <1>2 DEF SeekOK
  <2>1. /\ asked # 0 /\ (IsActive => direction = 1)
        /\ latched => trigger \in EndSwitch .. EndSwitch + BounceSteps + 1 /\ EndSwitch <= place
        /\ ~IsActive /\ stopReason = "END_LIMIT" => latched
    BY <1>1 DEF SeekOK
  <2>2. asked' # 0 /\ (IsActive' => direction' = 1)
    BY <1>4, <1>5, <2>1
  <2>3. LatchKept \/ Fires
    BY <1>3 DEF Quiet, Goes, Ends
  <2>4. latched' => trigger' \in EndSwitch .. EndSwitch + BounceSteps + 1 /\ EndSwitch <= place
    <3>1. CASE LatchKept
      BY <2>1, <3>1 DEF LatchKept
    <3>2. CASE Fires
      <4>1. jogMode /\ direction = 1 /\ LimitBlocks(1) # None /\ ~latched /\ IsActive
        BY <1>1, <2>1, <3>2, Unfold DEF Fires, MoveOK
      <4>2. EndSwitch <= place
        BY <1>1, <1>7, <4>1, Unfold, BlockedPlace, LimitIs DEF LimitReasons
      <4>3. place <= EndSwitch + BounceSteps + 1
        BY <1>1, <4>1, Unfold DEF EdgeOK, Near
      <4> QED
        BY <1>7, <3>2, <4>2, <4>3 DEF Fires
    <3> QED
      BY <2>3, <3>1, <3>2
  <2>5. EndSwitch <= place => EndSwitch <= place'
    <3>1. CASE place' = place
      BY <3>1
    <3>2. CASE Pulse
      <4>1. place' = place + 1 \/ place' = place
        BY <1>1, <2>1, <3>2, PulseOfJog
      <4> QED
        BY <1>7, <4>1
    <3> QED
      BY <1>4, <3>1, <3>2
  <2>6. ~IsActive' /\ stopReason' = "END_LIMIT" => latched'
    <3>1. CASE Quiet
      BY <2>1, <3>1 DEF Quiet, LatchKept, IsActive
    <3>2. CASE Goes
      BY <3>2 DEF Goes
    <3>3. CASE Ends /\ IsActive
      BY <3>3 DEF Ends, LimitReasons
    <3>4. CASE Ends /\ ~IsActive
      BY <2>1, <3>4 DEF Ends, LatchKept, Fires, None
    <3> QED
      BY <1>3, <3>1, <3>2, <3>3, <3>4
  <2> QED
    BY <2>2, <2>4, <2>5, <2>6
<1> QED
  BY <1>9, <1>10, <1>11, <1>12, <1>13 DEF CourseOK

\* A step of the task that leaves the axis alone or has no calibration to look after.
LEMMA CalmKeepsCourse ==
  ASSUME CourseInv, AxisUnchanged \/ RequestStop, UNCHANGED <<pc, homed, homing>>, UNCHANGED <<phase, travel, measureStart>>
  PROVE  CourseOK'
<1>1. UNCHANGED <<status, stopReason, direction, latched, trigger, zero, asked, place, lead, pulses>>
  BY DEF AxisUnchanged, RequestStop, vars, move, switch, world, history
<1>2. AloneOK /\ SeekOK /\ ReturnOK /\ TakeUpOK /\ MeasureOK /\ (IsActive' <=> IsActive)
  BY <1>1 DEF CourseInv, CourseOK, IsActive
<1>3. AloneOK' /\ SeekOK'
  BY <1>1, <1>2 DEF AloneOK, SeekOK
<1>4. ReturnOK' /\ TakeUpOK' /\ MeasureOK'
  BY <1>1, <1>2 DEF ReturnOK, TakeUpOK, MeasureOK, Distance
<1> QED
  BY <1>3, <1>4 DEF CourseOK

LEMMA IdleCourse == phase' = "IDLE" => CourseOK'
BY DEF CourseOK, AloneOK, SeekOK, ReturnOK, TakeUpOK, MeasureOK

\* A move of the procedure that is under way goes the way it was sent.
LEMMA ProcedureMoveEffects ==
  ASSUME AxisInv, NEW to \in {"SEEK_END", "TAKE_UP", "MEASURE"}, NEW d \in {-1, 1}, NEW steps \in 0 .. MaxSteps,
         ProcedureMove(to, d, steps)
  PROVE  \/ phase' = "IDLE"
         \/ /\ phase' = to /\ IsActive' /\ direction' = d /\ ~latched' /\ zero' = zero
            /\ asked' = steps /\ pulses' = 0 /\ place' = place /\ lead' = lead
<1>1. CASE Start(d, steps, TRUE, releaseArmed, hookArmed)
  <2>1. releaseArmed \in BOOLEAN /\ hookArmed \in BOOLEAN
    BY Unfold DEF ReactionTypes
  <2>2. /\ place' = place /\ lead' = lead /\ asked' = steps /\ pulses' = 0
        /\ \/ IsActive' /\ ~latched' /\ direction' = d /\ zero' = zero
           \/ status' = "STOPPED"
    BY <1>1, <2>1, StartEffects
  <2>3. \/ phase' = to /\ status' = "STARTING"
        \/ phase' = "IDLE"
    BY <1>1 DEF ProcedureMove, CanStart, Start
  <2> QED
    BY <2>2, <2>3
<1>2. CASE phase' = "IDLE"
  BY <1>2
<1> QED
  BY <1>1, <1>2 DEF ProcedureMove

\* The move to the end switch starts with no switch latched.
LEMMA SeekBegins == CourseInv /\ Begin => CourseOK'
<1> SUFFICES ASSUME CourseInv, Begin PROVE CourseOK'
  OBVIOUS
<1>1. /\ pc' = "loop" /\ homed' /\ homing' = "no" /\ ProcedureMove("SEEK_END", 1, HomeSteps)
  BY DEF Begin, HomeEnds, Polled, MotionTaskAt
<1>2. HomeSteps \in 0 .. MaxSteps /\ HomeSteps # 0 /\ AxisInv
  BY DEF HomeSteps, CourseInv, HomeInv
<1>3. CASE /\ phase' = "SEEK_END" /\ IsActive' /\ direction' = 1 /\ ~latched' /\ asked' = HomeSteps
  BY <1>1, <1>2, <1>3 DEF CourseOK, AloneOK, SeekOK, ReturnOK, TakeUpOK, MeasureOK
<1> QED
  BY <1>1, <1>2, <1>3, ProcedureMoveEffects, IdleCourse

\* The travel is what the scale shows from edge to edge, give or take the bouncing.
LEMMA TakeUpBegins == CourseInv /\ EndReached => CourseOK'
<1> SUFFICES ASSUME CourseInv, EndReached PROVE CourseOK'
  OBVIOUS
<1>1. /\ pc' = pc /\ homed' = homed /\ homing' = homing /\ ProcedureMove("TAKE_UP", -1, TakeUpSteps)
      /\ phase = "SEEK_END" /\ ~IsActive /\ EndedBy("END_LIMIT") /\ travel' = Distance(zero, trigger)
  BY DEF EndReached, SeekFails, Judged, Polled, MotionTaskAt
<1>2. AxisInv /\ AloneOK /\ SeekOK /\ HomedAtTheEdge
  BY DEF CourseInv, CourseOK, HomeInv, HomeParts
<1>3. /\ latched /\ trigger \in EndSwitch .. EndSwitch + BounceSteps + 1 /\ EndSwitch <= place
      /\ homed /\ zero \in -(BounceSteps + 1) .. 0 /\ pc = "loop" /\ homing = "no"
  BY <1>1, <1>2 DEF EndedBy, SeekOK, AloneOK, HomedAtTheEdge
<1>4. travel' \in EndSwitch .. EndSwitch + 2 * (BounceSteps + 1)
  <2>1. \A e \in Nat, b \in Nat : \A z \in -b .. 0, t \in e .. e + b :
          (IF z < t THEN t - z ELSE z - t) \in e .. e + 2 * b
    OBVIOUS
  <2>2. BounceSteps + 1 \in Nat /\ EndSwitch \in Nat
    OBVIOUS
  <2> QED
    BY <1>1, <1>3, <2>1, <2>2 DEF Distance
<1>5. place \in Int /\ lead \in 0 .. Slack /\ TakeUpSteps \in 0 .. MaxSteps /\ Slack \in Nat
  BY <1>2, Unfold, Numbers, ProcedureAssumption DEF ProcedureAssumption
<1>6. CASE /\ phase' = "TAKE_UP" /\ IsActive' /\ direction' = -1
           /\ asked' = TakeUpSteps /\ pulses' = 0 /\ place' = place /\ lead' = lead
  <2>1. EndSwitch <= place' + lead' + pulses' /\ lead' + pulses' <= Slack
    BY <1>3, <1>5, <1>6
  <2>2. TakeUpOK'
    BY <1>6, <2>1 DEF TakeUpOK
  <2>3. AloneOK' /\ SeekOK' /\ ReturnOK' /\ MeasureOK'
    BY <1>1, <1>3, <1>4, <1>6 DEF AloneOK, SeekOK, ReturnOK, MeasureOK
  <2> QED
    BY <2>2, <2>3 DEF CourseOK
<1> QED
  BY <1>1, <1>2, <1>5, <1>6, ProcedureMoveEffects, IdleCourse

\* A take-up that completed has no slack left to take up.
LEMMA MeasureBegins == CourseInv /\ SlackTakenUp => CourseOK'
<1> SUFFICES ASSUME CourseInv, SlackTakenUp PROVE CourseOK'
  OBVIOUS
<1>1. /\ pc' = pc /\ homed' = homed /\ homing' = homing /\ ProcedureMove("MEASURE", -1, MeasureSteps)
      /\ phase = "TAKE_UP" /\ ~IsActive /\ Completed(TakeUpSteps) /\ travel' = travel /\ measureStart' = Scale
  BY DEF SlackTakenUp, TakeUpFails, Judged, Polled, MotionTaskAt
<1>2. AxisInv /\ AloneOK /\ ReturnOK /\ TakeUpOK
  BY DEF CourseInv, CourseOK, HomeInv
<1>3. /\ TakeUpSteps \in 1 .. MaxSteps /\ MeasureSteps \in 0 .. MaxSteps /\ Slack <= TakeUpSteps
      /\ place \in Int /\ lead \in Nat /\ pulses \in Nat /\ Slack \in Nat
  BY <1>2, Unfold, Numbers, ProcedureAssumption DEF ProcedureAssumption
<1>4. asked = TakeUpSteps /\ pulses = TakeUpSteps
  <2>1. asked = TakeUpSteps /\ asked # 0
    BY <1>1, <1>2, <1>3 DEF TakeUpOK
  <2> QED
    BY <1>1, <1>2, <2>1, Unfold DEF CountOK, Completed
<1>5. lead = 0 /\ EndSwitch <= place + TakeUpSteps
  BY <1>1, <1>2, <1>3, <1>4 DEF TakeUpOK
<1>6. CASE /\ phase' = "MEASURE" /\ IsActive' /\ direction' = -1 /\ zero' = zero
           /\ asked' = MeasureSteps /\ pulses' = 0 /\ place' = place /\ lead' = lead
  <2>1. place' + pulses' = place
    BY <1>3, <1>6
  <2>2. MeasureOK'
    BY <1>1, <1>3, <1>5, <1>6, <2>1 DEF MeasureOK, Scale, Distance
  <2>3. AloneOK' /\ SeekOK' /\ ReturnOK' /\ TakeUpOK'
    BY <1>1, <1>2, <1>6 DEF AloneOK, SeekOK, ReturnOK, TakeUpOK
  <2> QED
    BY <2>2, <2>3 DEF CourseOK
<1> QED
  BY <1>1, <1>2, <1>3, <1>6, ProcedureMoveEffects, IdleCourse

\* A step of the task that has nothing to do with a calibration under way.
LEMMA NoCourse ==
  ASSUME CourseInv, MotionTask \/ Execute \/ StreamStarts
  PROVE  \/ phase' = "IDLE" \/ Begin \/ EndReached \/ SlackTakenUp
<1>1. TaskTypes /\ AloneOK
  BY DEF CourseInv, CourseOK, HomeInv
<1>2. CASE HomePoll
  <2>1. pc \in {"delay", "ready"} \/ homePhase # "IDLE"
    BY <1>2 DEF HomePoll, StartBackoff, BackoffSettles, StartApproach, HomeComplete, ReadyAfterHome, HomeFails,
                HomePolled, MotionTaskAt
  <2>2. phase' = phase
    BY <1>2 DEF HomePoll, StartBackoff, BackoffSettles, StartApproach, HomeComplete, ReadyAfterHome, HomeFails,
                HomePolled, procedure
  <2> QED
    BY <1>1, <2>1, <2>2 DEF TaskTypes, AloneOK
<1>3. CASE HomeFailed \/ Returned \/ ProcedureFails \/ Measured
  BY <1>1, <1>3 DEF HomeFailed, Returned, ProcedureFails, Measured, HomeEnds, AloneOK
<1>4. CASE StopStore \/ StopAxisTask \/ FinishStop
  BY <1>1, <1>4 DEF StopStore, StopAxisTask, FinishStop, MotionTaskAt, procedure, AloneOK
<1>5. CASE Execute \/ StreamStarts
  BY <1>1, <1>5 DEF Execute, ExecuteHome, ExecuteCalibrate, ExecuteStop, StreamStarts, Busy, procedure, taskVars
<1> QED
  BY <1>2, <1>3, <1>4, <1>5 DEF MotionTask, CalibrationPoll

\* The invariant of the calibration procedure, over the one of homing.
THEOREM CourseInvariance == ProcedureSpec => []CourseInv
<1>1. ProcedureInit => CourseOK
  BY DEF ProcedureInit, CourseOK, AloneOK, SeekOK, ReturnOK, TakeUpOK, MeasureOK
<1>2. ASSUME HomeInv, CourseOK, [ProcedureNext]_allVars PROVE CourseOK'
  <2>1. CourseInv
    BY <1>2 DEF CourseInv
  <2>2. CASE UNCHANGED allVars \/ (RequestStop /\ UNCHANGED taskVars)
    BY <2>1, <2>2, CalmKeepsCourse DEF allVars, taskVars, procedure, AxisUnchanged
  <2>3. CASE AxisRuns \/ (Bounce /\ UNCHANGED taskVars)
    BY <2>1, <2>3, AxisStepKeepsCourse DEF AxisRuns
  <2>4. CASE MotionTask \/ Execute \/ StreamStarts
    BY <2>1, <2>4, NoCourse, IdleCourse, SeekBegins, TakeUpBegins, MeasureBegins
  <2> QED
    BY <1>2, <2>2, <2>3, <2>4 DEF ProcedureNext
<1>3. HomeInv /\ CourseOK <=> CourseInv
  BY DEF CourseInv
<1> QED
  BY <1>1, <1>2, <1>3, HomingInvariance, PTL DEF ProcedureSpec

\* What calibration stores is what the machine did, bouncing switches, slack and all.
THEOREM CalibrationMeasuresRight == ProcedureSpec => MeasuredRight
<1>1. ASSUME CourseInv, [ProcedureNext]_allVars, homing' = "returning", homing # "returning"
      PROVE  /\ Record.distance = Record.steps
             /\ Record.travel \in EndSwitch .. EndSwitch + 2 * (BounceSteps + 1)
  <2>1. AxisInv /\ HomedAtTheEdge /\ AloneOK /\ ReturnOK /\ MeasureOK
    BY <1>1 DEF CourseInv, CourseOK, HomeInv, HomeParts
  <2>2. Measured
    <3>1. CASE UNCHANGED allVars \/ AxisRuns \/ StreamStarts \/ (RequestStop /\ UNCHANGED taskVars)
               \/ (Bounce /\ UNCHANGED taskVars)
      BY <1>1, <3>1 DEF AxisRuns, StreamStarts, allVars, taskVars, procedure
    <3>2. CASE HomePoll \/ StopStore \/ StopAxisTask \/ FinishStop
      BY <1>1, <3>2 DEF HomePoll, StartBackoff, BackoffSettles, StartApproach, HomeComplete, ReadyAfterHome, HomeFails,
                        HomePolled, StopStore, StopAxisTask, FinishStop, procedure
    <3>3. CASE Execute
      BY <1>1, <3>3 DEF Execute, ExecuteHome, ExecuteCalibrate, ExecuteStop, procedure
    <3>4. CASE CalibrationPoll
      BY <1>1, <3>4 DEF CalibrationPoll, HomeFailed, Begin, Returned, HomeEnds, ProcedureFails, EndReached, SlackTakenUp
    <3> QED
      BY <1>1, <3>1, <3>2, <3>3, <3>4 DEF ProcedureNext, MotionTask
  <2>3. phase = "MEASURE" /\ ~IsActive /\ Completed(MeasureSteps)
    BY <2>2 DEF Measured, Judged, MeasureFails
  <2>4. /\ asked = MeasureSteps /\ EndSwitch <= place + pulses + TakeUpSteps
        /\ measureStart = Distance(zero, place + pulses)
        /\ travel \in EndSwitch .. EndSwitch + 2 * (BounceSteps + 1)
        /\ homed
    BY <2>1, <2>3 DEF MeasureOK, ReturnOK, AloneOK
  <2>5. /\ MeasureSteps \in Nat \ {0} /\ TakeUpSteps \in Nat /\ TakeUpSteps + MeasureSteps <= EndSwitch
        /\ place \in Int /\ zero \in Int /\ zero <= 0
    BY <2>1, <2>4, Unfold, Numbers, ProcedureAssumption DEF ProcedureAssumption, HomedAtTheEdge
  <2>6. pulses = MeasureSteps
    BY <2>1, <2>3, <2>4, <2>5, Unfold DEF CountOK, Completed
  <2>7. 0 <= place
    BY <2>4, <2>5, <2>6
  <2>8. measureStart = place + MeasureSteps - zero /\ Scale = place - zero
    BY <2>4, <2>5, <2>6, <2>7 DEF Distance, Scale
  <2>9. Distance(measureStart, Scale) = MeasureSteps
    BY <2>5, <2>8 DEF Distance
  <2> QED
    BY <2>4, <2>9 DEF Record
<1>2. CourseInv /\ [ProcedureNext]_allVars =>
        [homing' = "returning" /\ homing # "returning" =>
           /\ Record.distance = Record.steps
           /\ Record.travel \in EndSwitch .. EndSwitch + 2 * (BounceSteps + 1)]_allVars
  BY <1>1
<1> QED
  BY <1>2, CourseInvariance, PTL DEF ProcedureSpec, MeasuredRight
=============================================================================
