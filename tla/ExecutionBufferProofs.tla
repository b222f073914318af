----------------------- MODULE ExecutionBufferProofs -----------------------
(***************************************************************************)
(* For every capacity, position width and watermark: the lock-free ring of *)
(* ExecutionBuffer implements a bounded FIFO and never loses a wake-up.    *)
(***************************************************************************)
EXTENDS ExecutionBuffer, TLAPS

-----------------------------------------------------------------------------
(* Arithmetic of wrapping positions. *)

\* A multiple of c is never strictly between 0 and c.
LEMMA NoMultipleBetween ==
  ASSUME NEW c \in Nat \ {0}, NEW j \in Int, 0 < c * j
  PROVE  c * j >= c
  <1>1. CASE j >= 1
    <2>1. c * (j - 1) >= 0
      BY <1>1, SMT
    <2> QED BY <2>1, SMT
  <1>2. CASE j <= 0
    BY <1>2, SMT
  <1> QED BY <1>1, <1>2, SMT

LEMMA ModDivides ==
  ASSUME NEW m \in Nat \ {0}, NEW a \in Int
  PROVE  /\ a = m * (a \div m) + (a % m)
         /\ a % m \in 0 .. m - 1
         /\ a \div m \in Int
  BY SMT

LEMMA ConstantTypes ==
  /\ Capacity \in Nat \ {0}
  /\ Modulus \in Nat \ {0}
  /\ Modulus > Capacity
  /\ LowWatermark \in 0 .. Capacity - 1
  BY CapacityAssumption, ModulusAssumption, LowWatermarkAssumption, SMT

\* The uint32_t operations spelt out on positions.
LEMMA PositionArithmetic ==
  ASSUME NEW p \in Position, NEW q \in Position
  PROVE  /\ Advance(p) = IF p + 1 = Modulus THEN 0 ELSE p + 1
         /\ Distance(p, q) = IF p >= q THEN p - q ELSE p - q + Modulus
         /\ \A n \in 0 .. Modulus - 1 :
              (p + n) % Modulus = IF p + n < Modulus THEN p + n ELSE p + n - Modulus
         /\ Index(p) \in Slot
  <1>1. p \in Int /\ q \in Int /\ p \in 0 .. Modulus - 1 /\ q \in 0 .. Modulus - 1
    BY ConstantTypes DEF Position
  <1>2. Advance(p) = IF p + 1 = Modulus THEN 0 ELSE p + 1
    BY <1>1, ConstantTypes, SMT DEF Advance
  <1>3. Distance(p, q) = IF p >= q THEN p - q ELSE p - q + Modulus
    BY <1>1, ConstantTypes, SMT DEF Distance
  <1>4. \A n \in 0 .. Modulus - 1 :
          (p + n) % Modulus = IF p + n < Modulus THEN p + n ELSE p + n - Modulus
    <2> TAKE n \in 0 .. Modulus - 1
    <2> QED BY <1>1, ConstantTypes, SMT
  <1>5. Index(p) \in Slot
    BY <1>1, ConstantTypes, ModDivides DEF Index, Slot
  <1> QED BY <1>2, <1>3, <1>4, <1>5

\* Fewer than Capacity positions apart, two events never share a slot: this is
\* where the capacity has to divide the width of the positions.
LEMMA SlotsDistinct ==
  ASSUME NEW p \in Position, NEW d \in 1 .. Capacity - 1
  PROVE  Index((p + d) % Modulus) # Index(p)
  <1> DEFINE q == (p + d) % Modulus
             k == Modulus \div Capacity
             j == (q \div Capacity) - (p \div Capacity)
  <1>1. p \in Int /\ d \in Int /\ p >= 0 /\ p < Modulus /\ d < Modulus
    BY ConstantTypes DEF Position
  <1>2. q = IF p + d < Modulus THEN p + d ELSE p + d - Modulus
    BY <1>1, ConstantTypes, PositionArithmetic
  <1>3. q \in Int
    BY <1>1, <1>2, ConstantTypes
  <1>4. Modulus = Capacity * k /\ k \in Int
    BY ConstantTypes, ModulusAssumption, ModDivides
  <1>5. /\ p = Capacity * (p \div Capacity) + (p % Capacity)
        /\ q = Capacity * (q \div Capacity) + (q % Capacity)
        /\ p \div Capacity \in Int /\ q \div Capacity \in Int
        /\ p % Capacity \in Int
    BY <1>1, <1>3, ConstantTypes, ModDivides
  <1> HIDE DEF q, k
  <1>6. SUFFICES ASSUME q % Capacity = p % Capacity PROVE FALSE
    BY DEF Index, q
  <1>7. j \in Int /\ q - p = Capacity * j
    <2>1. q - p = Capacity * (q \div Capacity) - Capacity * (p \div Capacity)
      BY <1>5, <1>6, <1>1, <1>3, ConstantTypes
    <2>2. Capacity * (q \div Capacity) - Capacity * (p \div Capacity) = Capacity * j
      BY <1>5, ConstantTypes, SMT
    <2> QED BY <2>1, <2>2, <1>5
  <1>8. d = Capacity * j \/ d = Capacity * (j + k)
    <2>1. Capacity * (j + k) = Capacity * j + Capacity * k
      BY <1>4, <1>7, ConstantTypes, SMT
    <2>2. CASE p + d < Modulus
      BY <2>2, <1>2, <1>7, <1>1
    <2>3. CASE p + d >= Modulus
      BY <2>3, <2>1, <1>2, <1>4, <1>7, <1>1, ConstantTypes
    <2> QED BY <2>2, <2>3, <1>1, ConstantTypes
  <1>9. d > 0 /\ d < Capacity
    BY ConstantTypes
  <1> QED
    BY <1>4, <1>7, <1>8, <1>9, ConstantTypes, NoMultipleBetween

-----------------------------------------------------------------------------
(* The inductive invariant. *)

\* What one Advance does to the distance between the two positions.
LEMMA DistanceSteps ==
  ASSUME NEW w \in Position, NEW r \in Position
  PROVE  /\ Distance(w, r) \in 0 .. Modulus - 1
         /\ Advance(w) \in Position
         /\ Distance(w, r) < Capacity => Distance(Advance(w), r) = Distance(w, r) + 1
         /\ w # r => Distance(w, Advance(r)) = Distance(w, r) - 1
         /\ (Distance(w, r) = 0) = (w = r)
  <1>1. w \in Int /\ r \in Int /\ w \in 0 .. Modulus - 1 /\ r \in 0 .. Modulus - 1
    BY ConstantTypes DEF Position
  <1>2. /\ Advance(w) = IF w + 1 = Modulus THEN 0 ELSE w + 1
        /\ Advance(r) = IF r + 1 = Modulus THEN 0 ELSE r + 1
        /\ Distance(w, r) = IF w >= r THEN w - r ELSE w - r + Modulus
    BY PositionArithmetic
  <1>3. Advance(w) \in Position /\ Advance(r) \in Position
    BY <1>1, <1>2, ConstantTypes DEF Position
  <1>4. Distance(Advance(w), r) = IF Advance(w) >= r THEN Advance(w) - r ELSE Advance(w) - r + Modulus
    BY <1>3, PositionArithmetic
  <1>5. Distance(w, Advance(r)) = IF w >= Advance(r) THEN w - Advance(r) ELSE w - Advance(r) + Modulus
    BY <1>3, PositionArithmetic
  <1> QED
    BY <1>1, <1>2, <1>3, <1>4, <1>5, ConstantTypes

LEMMA InitInvariant == Init => RingInvariant
  <1> SUFFICES ASSUME Init PROVE RingInvariant
    OBVIOUS
  <1>1. 0 \in Position
    BY ConstantTypes DEF Position
  <1>2. Count = 0
    BY <1>1, DistanceSteps DEF Init, Count
  <1>3. TypeOK
    BY <1>1 DEF Init, TypeOK
  <1> QED
    BY <1>2, <1>3, ConstantTypes DEF Init, RingInvariant

LEMMA StepInvariant == RingInvariant /\ [Next]_vars => RingInvariant'
  <1> SUFFICES ASSUME RingInvariant, [Next]_vars PROVE RingInvariant'
    OBVIOUS
  <1> USE DEF RingInvariant, TypeOK
  <1>1. /\ Count = Distance(writePosition, readPosition)
        /\ Count' = Distance(writePosition', readPosition')
        /\ Count \in Int
    BY DistanceSteps, ConstantTypes DEF Count
  <1>2. ASSUME NEW event \in Event, GenerateEvent(event) PROVE RingInvariant'
    BY <1>1, <1>2 DEF GenerateEvent, ring
  <1>3. CASE PushCheck
    BY <1>1, <1>3, ConstantTypes DEF PushCheck, ring, IsFull
  <1>4. CASE PushStore
    <2>1. Index(writePosition) \in Slot
      BY PositionArithmetic
    <2> QED BY <1>1, <1>4, <2>1 DEF PushStore
  <1>5. CASE PushPublish
    <2>1. Count' = Count + 1 /\ writePosition' \in Position
      BY <1>1, <1>5, DistanceSteps DEF PushPublish
    <2> QED BY <1>1, <1>5, <2>1, ConstantTypes, NoEventAssumption DEF PushPublish
  <1>6. CASE PlanExhausted
    BY <1>1, <1>6 DEF PlanExhausted, ring
  <1>7. CASE StartAxisAndWait
    BY <1>1, <1>7 DEF StartAxisAndWait, ring, FlagAtWait
  <1>8. CASE WakeOnSpace \/ WakeOnBlock
    <2>1. pc' = (IF halted THEN "wait" ELSE "fill") /\ halted' = halted /\ pc = "wait"
      BY <1>8 DEF WakeOnSpace, WakeOnBlock, AfterWake
    <2> QED BY <1>1, <1>8, <2>1 DEF WakeOnSpace, WakeOnBlock, ring
  <1>9. CASE ClearRead
    <2>1. 0 \in Position
      BY ConstantTypes DEF Position
    <2> QED BY <1>9, <2>1 DEF ClearRead, Quiescent
  <1>10. CASE ClearWrite
    <2>1. 0 \in Position
      BY ConstantTypes DEF Position
    <2>2. Count' = 0
      BY <1>1, <1>10, <2>1, DistanceSteps DEF ClearWrite
    <2>3. /\ pc' = "fill" /\ writePosition' = 0 /\ halted' \in BOOLEAN /\ pendingEvent = NoEvent
          /\ UNCHANGED <<entries, readPosition, spaceFlag, axisRunning, pendingEvent>>
      BY <1>10, Zenon DEF ClearWrite
    <2> QED BY <2>1, <2>2, <2>3, ConstantTypes
  <1>11. CASE TryPop
    <2>1. Count' = Count - 1 /\ readPosition' \in Position
      BY <1>1, <1>11, DistanceSteps DEF TryPop
    <2>2. Distance(writePosition, readPosition') = Count'
      BY <1>1, <1>11 DEF TryPop
    <2>3. spaceFlag' \in BOOLEAN /\ (~spaceFlag' => ~spaceFlag /\ Count' # LowWatermark)
      BY <1>11, <2>2, Zenon DEF TryPop, CrossesWatermark
    <2>4. UNCHANGED <<entries, writePosition, halted, axisRunning, pc, pendingEvent>> /\ axisRunning
      BY <1>11 DEF TryPop
    <2> QED BY <1>1, <2>1, <2>3, <2>4, ConstantTypes
  <1>12. CASE AxisStops
    BY <1>1, <1>12 DEF AxisStops, ring
  <1>13. CASE Halt
    BY <1>1, <1>13 DEF Halt, ring
  <1>14. CASE UNCHANGED vars
    BY <1>1, <1>14 DEF vars
  <1> QED
    BY <1>2, <1>3, <1>4, <1>5, <1>6, <1>7, <1>8, <1>9, <1>10, <1>11, <1>12, <1>13, <1>14
       DEF Next, Producer

LEMMA RingInvariance == Spec => []RingInvariant
  BY InitInvariant, StepInvariant, PTL DEF Spec

\* The variables keep their types in every reachable state.
THEOREM TypeCorrect == Spec => []TypeOK
  <1>1. RingInvariant => TypeOK
    BY DEF RingInvariant
  <1> QED BY <1>1, RingInvariance, PTL

\* No entry is overwritten before the interrupt has read it, whatever the
\* capacity and however the positions wrap.
THEOREM RingNeverOverruns == Spec => []NeverOverrun
  <1>1. RingInvariant => NeverOverrun
    BY DEF RingInvariant, NeverOverrun
  <1> QED BY <1>1, RingInvariance, PTL

\* A producer asleep with an undelivered event has its wake-up pending or ahead, unless a
\* STOP has halted it (step_generator_task.c:135); then STOP_RESET drops the event.
THEOREM WakeupsAreNotLost == Spec => []NoLostWakeup
  <1>1. RingInvariant => NoLostWakeup
    BY DEF RingInvariant, NoLostWakeup
  <1> QED BY <1>1, RingInvariance, PTL

-----------------------------------------------------------------------------
(* Refinement of BoundedFifo. *)

\* The position of the i-th queued event.
At(i) == (readPosition + (i - 1)) % Modulus

\* Queued is a sequence of Count events unless a clear is half done.
LEMMA QueuedShape ==
  ASSUME RingInvariant, pc # "clear"
  PROVE  /\ Count \in Nat /\ Count <= Capacity
         /\ Queued = [i \in 1 .. Count |-> entries[Index(At(i))]]
         /\ \A i \in 1 .. Count : At(i) \in Position /\ Index(At(i)) \in Slot
         /\ Queued \in Seq(Event \cup {NoEvent})
         /\ Len(Queued) = Count
  <1>1. Count \in Nat /\ Count <= Capacity
    BY DistanceSteps, ConstantTypes DEF RingInvariant, TypeOK, Count
  <1>2. Queued = [i \in 1 .. Count |-> entries[Index(At(i))]]
    BY DEF Queued, At
  <1>3. ASSUME NEW i \in 1 .. Count PROVE At(i) \in Position /\ Index(At(i)) \in Slot
    <2>1. readPosition \in Int /\ i - 1 \in Int
      BY <1>1 DEF RingInvariant, TypeOK, Position
    <2>2. At(i) \in Position
      BY <2>1, ConstantTypes, ModDivides DEF At, Position
    <2> QED BY <2>2, PositionArithmetic
  <1>4. \A i \in 1 .. Count : entries[Index(At(i))] \in Event \cup {NoEvent}
    BY <1>3 DEF RingInvariant, TypeOK
  <1>5. Queued \in Seq(Event \cup {NoEvent}) /\ Len(Queued) = Count
    BY <1>1, <1>2, <1>4
  <1> QED BY <1>1, <1>2, <1>3, <1>5

\* Storing an entry that is not published yet changes no queued event.
LEMMA StoreIsInvisible ==
  ASSUME RingInvariant, PushStore
  PROVE  Queued' = Queued
  <1>1. /\ pc = "store" /\ pc' = "publish"
        /\ writePosition' = writePosition /\ readPosition' = readPosition
        /\ Count' = Count /\ Count < Capacity
        /\ writePosition \in Position /\ readPosition \in Position
    BY DEF PushStore, RingInvariant, TypeOK, Count
  <1>2. ASSUME NEW i \in 1 .. Count PROVE entries'[Index(At(i))] = entries[Index(At(i))]
    <2>1. At(i) \in Position /\ Index(At(i)) \in Slot /\ Count \in Nat
      BY <1>1, QueuedShape
    <2> DEFINE d == Count - (i - 1)
    <2>2. d \in 1 .. Capacity - 1
      BY <1>1, <2>1, ConstantTypes
    <2>3. writePosition = (At(i) + d) % Modulus
      <3>1. At(i) = IF readPosition + (i - 1) < Modulus THEN readPosition + (i - 1)
                    ELSE readPosition + (i - 1) - Modulus
        BY <1>1, <2>1, ConstantTypes, PositionArithmetic DEF At
      <3>2. Count = IF writePosition >= readPosition THEN writePosition - readPosition
                    ELSE writePosition - readPosition + Modulus
        BY <1>1, PositionArithmetic DEF Count
      <3>3. (At(i) + d) % Modulus = IF At(i) + d < Modulus THEN At(i) + d ELSE At(i) + d - Modulus
        BY <2>1, <2>2, ConstantTypes, PositionArithmetic
      <3> QED BY <3>1, <3>2, <3>3, <1>1, <2>1, ConstantTypes DEF Position
    <2>4. Index(writePosition) # Index(At(i))
      BY <2>1, <2>2, <2>3, SlotsDistinct
    <2> QED BY <2>1, <2>4 DEF PushStore, RingInvariant, TypeOK
  <1>3. Queued = [i \in 1 .. Count |-> entries[Index(At(i))]]
    BY <1>1, QueuedShape
  <1>4. Queued' = [i \in 1 .. Count |-> entries'[Index(At(i))]]
    BY <1>1 DEF Queued, At
  <1> QED BY <1>2, <1>3, <1>4

\* Publishing appends the pending event.
LEMMA PublishAppends ==
  ASSUME RingInvariant, PushPublish
  PROVE  Queued' = Append(Queued, pendingEvent) /\ Len(Queued) < Capacity
  <1>1. /\ pc = "publish" /\ pc' = "fill"
        /\ readPosition' = readPosition /\ entries' = entries
        /\ Count < Capacity
        /\ writePosition \in Position /\ readPosition \in Position
        /\ entries[Index(writePosition)] = pendingEvent
    BY DEF PushPublish, RingInvariant, TypeOK
  <1>2. Count' = Count + 1 /\ Count \in Nat
    BY <1>1, DistanceSteps, ConstantTypes DEF PushPublish, Count
  <1>3. Queued' = [i \in 1 .. Count + 1 |-> entries[Index(At(i))]]
    BY <1>1, <1>2 DEF Queued, At
  <1>4. Queued = [i \in 1 .. Count |-> entries[Index(At(i))]] /\ Len(Queued) = Count
    BY <1>1, QueuedShape
  <1>5. At(Count + 1) = writePosition
    <2>1. Count = IF writePosition >= readPosition THEN writePosition - readPosition
                  ELSE writePosition - readPosition + Modulus
      BY <1>1, PositionArithmetic DEF Count
    <2>2. Count \in 0 .. Modulus - 1
      BY <1>1, <1>2, ConstantTypes
    <2>3. (readPosition + Count) % Modulus =
            IF readPosition + Count < Modulus THEN readPosition + Count
            ELSE readPosition + Count - Modulus
      BY <1>1, <2>2, PositionArithmetic
    <2> QED BY <2>1, <2>3, <1>1, <1>2, ConstantTypes DEF At, Position
  <1>6. Append(Queued, pendingEvent) =
          [i \in 1 .. Count + 1 |-> IF i = Count + 1 THEN pendingEvent ELSE Queued[i]]
    BY <1>1, <1>2, <1>4, QueuedShape
  <1>7. ASSUME NEW i \in 1 .. Count + 1
        PROVE  entries[Index(At(i))] = IF i = Count + 1 THEN pendingEvent ELSE Queued[i]
    BY <1>1, <1>2, <1>4, <1>5
  <1> QED BY <1>1, <1>3, <1>4, <1>6, <1>7

\* A pop removes the oldest event and moves the others up.
LEMMA PopIsTail ==
  ASSUME RingInvariant, TryPop
  PROVE  Queued # << >> /\ Queued' = Tail(Queued)
  <1>1. /\ pc # "clear" /\ pc' = pc
        /\ entries' = entries /\ readPosition' = Advance(readPosition)
        /\ writePosition \in Position /\ readPosition \in Position
    BY DEF TryPop, RingInvariant, TypeOK
  <1>2. Count' = Count - 1 /\ Count \in Nat /\ Count # 0 /\ Count <= Capacity
    BY <1>1, DistanceSteps, QueuedShape DEF TryPop, Count
  <1>3. /\ Queued = [i \in 1 .. Count |-> entries[Index(At(i))]] /\ Len(Queued) = Count
        /\ Queued \in Seq(Event \cup {NoEvent})
    BY <1>1, QueuedShape
  <1>4. Queued' = [i \in 1 .. Count - 1 |-> entries[Index((Advance(readPosition) + (i - 1)) % Modulus)]]
    BY <1>1, <1>2 DEF Queued
  <1>5. ASSUME NEW i \in 1 .. Count - 1
        PROVE  (Advance(readPosition) + (i - 1)) % Modulus = At(i + 1)
    <2>1. Advance(readPosition) = IF readPosition + 1 = Modulus THEN 0 ELSE readPosition + 1
      BY <1>1, PositionArithmetic
    <2>2. Advance(readPosition) \in Position
      BY <1>1, DistanceSteps
    <2>3. i - 1 \in 0 .. Modulus - 1 /\ i \in 0 .. Modulus - 1
      BY <1>2, ConstantTypes
    <2>4. (Advance(readPosition) + (i - 1)) % Modulus =
            IF Advance(readPosition) + (i - 1) < Modulus THEN Advance(readPosition) + (i - 1)
            ELSE Advance(readPosition) + (i - 1) - Modulus
      BY <2>2, <2>3, PositionArithmetic
    <2>5. (readPosition + i) % Modulus =
            IF readPosition + i < Modulus THEN readPosition + i ELSE readPosition + i - Modulus
      BY <1>1, <2>3, PositionArithmetic
    <2>6. At(i + 1) = (readPosition + i) % Modulus
      BY <2>3 DEF At
    <2> QED BY <2>1, <2>4, <2>5, <2>6, <1>1, <2>3, ConstantTypes DEF Position
  <1>6. Tail(Queued) = [i \in 1 .. Count - 1 |-> Queued[i + 1]] /\ Queued # << >>
    BY <1>2, <1>3
  <1> QED BY <1>2, <1>3, <1>4, <1>5, <1>6

\* Both halves of a clear: the first empties the queue, the second keeps it so.
LEMMA ClearEmpties ==
  ASSUME RingInvariant, ClearRead \/ ClearWrite
  PROVE  Queued' = << >>
  <1>1. CASE ClearRead
    BY <1>1 DEF ClearRead, Queued
  <1>2. CASE ClearWrite
    <2>1. 0 \in Position
      BY ConstantTypes DEF Position
    <2>2. Count' = 0 /\ pc' = "fill"
      <3>1. writePosition' = 0 /\ readPosition' = readPosition /\ pc = "clear" /\ pc' = "fill"
        BY <1>2, Zenon DEF ClearWrite
      <3> QED BY <2>1, <3>1, DistanceSteps DEF RingInvariant, Count
    <2> QED BY <2>2 DEF Queued
  <1> QED BY <1>1, <1>2

\* The implementation theorem: every behaviour of the lock-free ring, for every
\* capacity and position width, is a behaviour of a bounded FIFO queue.
THEOREM RingIsFifo == Spec => ImplementsFifo
  <1>1. Init => Fifo!Init
    <2> SUFFICES ASSUME Init PROVE Queued = << >>
      BY DEF Fifo!Init
    <2>1. Count = 0 /\ pc = "fill"
      <3>1. 0 \in Position
        BY ConstantTypes DEF Position
      <3> QED BY <3>1, DistanceSteps DEF Init, Count
    <2> QED BY <2>1 DEF Queued
  <1>2. RingInvariant /\ [Next]_vars => [Fifo!Next]_Queued
    <2> SUFFICES ASSUME RingInvariant, [Next]_vars PROVE Fifo!Next \/ Queued' = Queued
      OBVIOUS
    <2>1. ASSUME ring' = ring, pc # "clear", pc' # "clear" PROVE Queued' = Queued
      BY <2>1 DEF ring, Queued, Count
    <2>2. CASE \/ \E event \in Event : GenerateEvent(event)
               \/ PushCheck \/ PlanExhausted \/ StartAxisAndWait \/ WakeOnSpace \/ WakeOnBlock
      BY <2>1, <2>2 DEF AfterWake, GenerateEvent, PushCheck, PlanExhausted, StartAxisAndWait, WakeOnSpace,
                        WakeOnBlock
    <2>3. CASE PushStore
      BY <2>3, StoreIsInvisible
    <2>4. CASE PushPublish
      <3>1. pendingEvent \in Event
        BY <2>4 DEF PushPublish, RingInvariant, TypeOK
      <3> QED BY <2>4, <3>1, PublishAppends DEF Fifo!Next, Fifo!Push
    <2>5. CASE ClearRead \/ ClearWrite
      BY <2>5, ClearEmpties DEF Fifo!Next, Fifo!Clear
    <2>6. CASE TryPop
      BY <2>6, PopIsTail DEF Fifo!Next, Fifo!Pop
    <2>7. CASE Halt \/ AxisStops \/ UNCHANGED vars
      BY <2>7 DEF Halt, AxisStops, vars, ring, Queued, Count
    <2> QED
      BY <2>2, <2>3, <2>4, <2>5, <2>6, <2>7 DEF Next, Producer
  <1> QED
    BY <1>1, <1>2, RingInvariance, PTL DEF Spec, ImplementsFifo, Fifo!Spec
=============================================================================
