-------------------------- MODULE PlanBufferProofs --------------------------
(***************************************************************************)
(* For every capacity and counter width: the mutexed ring of PlanBuffer    *)
(* implements a bounded FIFO, its counters account for every block, and    *)
(* the diagnostic task never sees a torn frame.                            *)
(***************************************************************************)
EXTENDS PlanBuffer, TLAPS

LEMMA ConstantTypes ==
  /\ Capacity \in Nat \ {0}
  /\ CounterMax \in Nat
  /\ 0 \in Slot
  BY CapacityAssumption, CounterMaxAssumption, SMT DEF Slot

\* Saturating addition stays in range, and is exact while the result is below
\* the maximum.
LEMMA AddSaturates ==
  ASSUME NEW c \in Counter, NEW n \in Nat
  PROVE  /\ Add(c, n) \in Counter
         /\ Add(c, n) < CounterMax => Add(c, n) = c + n
         /\ Add(c, n) >= c
         /\ c + n <= CounterMax => Add(c, n) = c + n
  BY ConstantTypes, SMT DEF Add, Counter

\* The index operations spelt out on slots.
LEMMA SlotArithmetic ==
  ASSUME NEW s \in Slot
  PROVE  /\ NextSlot(s) = IF s + 1 = Capacity THEN 0 ELSE s + 1
         /\ NextSlot(s) \in Slot
         /\ \A n \in 0 .. Capacity :
              /\ (s + n) % Capacity = IF s + n < Capacity THEN s + n ELSE s + n - Capacity
              /\ (s + n) % Capacity \in Slot
  <1>1. s \in Int /\ s \in 0 .. Capacity - 1
    BY ConstantTypes DEF Slot
  <1>2. NextSlot(s) = IF s + 1 = Capacity THEN 0 ELSE s + 1
    BY <1>1, ConstantTypes, SMT DEF NextSlot
  <1>3. NextSlot(s) \in Slot
    BY <1>1, <1>2, ConstantTypes DEF Slot
  <1>4. ASSUME NEW n \in 0 .. Capacity
        PROVE  (s + n) % Capacity = IF s + n < Capacity THEN s + n ELSE s + n - Capacity
    <2>1. s + n \in 0 .. 2 * Capacity - 1
      BY <1>1, ConstantTypes
    <2> QED BY <1>1, <2>1, ConstantTypes, SMT
  <1>5. ASSUME NEW n \in 0 .. Capacity PROVE (s + n) % Capacity \in Slot
    BY <1>1, <1>4, ConstantTypes DEF Slot
  <1> QED BY <1>2, <1>3, <1>4, <1>5

-----------------------------------------------------------------------------
(* The inductive invariant. *)

LEMMA InitInvariant == Init => PlanInvariant
  <1> SUFFICES ASSUME Init PROVE PlanInvariant
    OBVIOUS
  <1>1. TypeOK
    BY ConstantTypes DEF Init, TypeOK, Counter, Snapshot, Task, Slot
  <1>2. IndicesAgree
    BY ConstantTypes, SlotArithmetic DEF Init, IndicesAgree
  <1>3. CallsAgree /\ Accounted /\ FrameAgrees
    BY ConstantTypes
       DEF Init, CallsAgree, Accounted, FrameAgrees, SnapshotConsistent, Conserved, Inside, Task, NoTask
  <1> QED BY <1>1, <1>2, <1>3 DEF PlanInvariant

LEMMA StepInvariant == PlanInvariant /\ [Next]_vars => PlanInvariant'
  <1> SUFFICES ASSUME PlanInvariant, [Next]_vars PROVE PlanInvariant'
    OBVIOUS
  <1> USE DEF PlanInvariant
  <1>0. /\ count \in Int /\ count \in 0 .. Capacity /\ maxQueued \in Int
        /\ enqueuedTotal \in Int /\ dequeuedTotal \in Int /\ cancelledBlocks \in Int
        /\ Task = {"motion", "generator", "diagnostic"} /\ NoTask = "nobody"
    BY ConstantTypes DEF TypeOK, Counter, Task, NoTask
  <1>1. ASSUME NEW task \in Task, NEW operation \in {"push", "clear", "pop", "read"},
               operation \in {"push", "clear"} => task = "motion",
               operation = "pop" => task = "generator",
               operation = "read" => task = "diagnostic",
               Begin(task, operation),
               pushed' \in Block \cup {NoBlock},
               operation = "push" => pushed' \in Block,
               operation # "push" => pushed' = pushed
        PROVE  PlanInvariant'
    <2>1. TypeOK'
      BY <1>1, <1>0 DEF Begin, TypeOK, ring, counters
    <2>2. CallsAgree' /\ IndicesAgree'
      BY <1>1, <1>0 DEF Begin, TypeOK, CallsAgree, IndicesAgree, ring
    <2>3. holder # task
      BY <1>1, <1>0 DEF Begin, CallsAgree
    <2>4. \A t \in Task, o \in {"push", "clear", "pop", "read"} :
            Inside(t, o, "halfway")' = Inside(t, o, "halfway")
      BY <1>1, <1>0, <2>3 DEF Begin, TypeOK, Inside
    <2>5. Accounted'
      BY <1>1, <1>0, <2>4 DEF Begin, Accounted, ring, counters
    <2>6. FrameAgrees'
      BY <1>1, <1>0, <2>4 DEF Begin, FrameAgrees, SnapshotConsistent, ring, counters
    <2> QED BY <2>1, <2>2, <2>5, <2>6
  <1>2. ASSUME NEW block \in Block, CallPush(block) PROVE PlanInvariant'
    BY <1>1, <1>2, <1>0 DEF CallPush
  <1>3. CASE CallClear \/ CallPop \/ CallGetDiagnostics
    BY <1>1, <1>3, <1>0 DEF CallClear, CallPop, CallGetDiagnostics, TypeOK
  <1>4. ASSUME NEW task \in Task, Acquire(task) PROVE PlanInvariant'
    <2>1. /\ holder = NoTask /\ holder' = task /\ progress' = "entered" /\ call[task] # "none"
          /\ UNCHANGED <<ring, counters, call, pushed, snapshot>>
      BY <1>4 DEF Acquire, MutexFree
    <2>2. \A t \in Task, o \in {"push", "clear", "pop", "read"} :
            ~Inside(t, o, "halfway")' /\ ~Inside(t, o, "halfway")
      BY <2>1, <1>0 DEF Inside
    <2>3. TypeOK'
      BY <2>1, <1>0 DEF TypeOK, ring, counters
    <2>4. CallsAgree' /\ IndicesAgree'
      BY <2>1, <1>0 DEF CallsAgree, IndicesAgree, ring
    <2>5. Accounted' /\ FrameAgrees'
      BY <2>1, <2>2, <1>0 DEF Accounted, FrameAgrees, SnapshotConsistent, ring, counters
    <2> QED BY <2>3, <2>4, <2>5
  <1>5. CASE PushFull \/ PopEmpty
    BY <1>5, <1>0
       DEF PushFull, PopEmpty, Return, Inside, TypeOK, CallsAgree, IndicesAgree, Accounted, FrameAgrees,
           SnapshotConsistent, ring, counters
  <1>6. CASE PushInsert
    <2>0. tail \in Slot /\ head \in Slot
      BY DEF TypeOK
    <2>1. count < Capacity /\ count' = count + 1 /\ tail' = NextSlot(tail) /\ head' = head
      <3>1. count # Capacity
        BY <1>6 DEF PushInsert, IsFull
      <3> QED BY <3>1, <1>6, <1>0, ConstantTypes DEF PushInsert
    <2>2. TypeOK'
      <3>1. tail' \in Slot
        BY <2>0, <2>1, SlotArithmetic
      <3>2. count' \in 0 .. Capacity
        BY <2>1, <1>0, ConstantTypes
      <3>3. pushed \in Block
        BY <1>6 DEF PushInsert, Inside, CallsAgree
      <3> QED BY <1>6, <3>1, <3>2, <3>3, <2>0 DEF PushInsert, Continue, TypeOK, counters
    <2>3. IndicesAgree'
      <3>1. tail = IF head + count < Capacity THEN head + count ELSE head + count - Capacity
        BY <2>0, <1>0, SlotArithmetic DEF IndicesAgree
      <3>2. (head + (count + 1)) % Capacity =
              IF head + (count + 1) < Capacity THEN head + (count + 1) ELSE head + (count + 1) - Capacity
        <4>1. count + 1 \in 0 .. Capacity
          BY <2>1, <1>0, ConstantTypes
        <4> QED BY <4>1, <2>0, SlotArithmetic
      <3>3. NextSlot(tail) = IF tail + 1 = Capacity THEN 0 ELSE tail + 1
        BY <2>0, SlotArithmetic
      <3>4. head \in Int /\ head \in 0 .. Capacity - 1
        BY <2>0, ConstantTypes DEF Slot
      <3>5. tail' = (head' + count') % Capacity
        BY <2>1, <3>1, <3>2, <3>3, <3>4, <1>0, ConstantTypes
      <3> QED BY <3>5 DEF IndicesAgree
    <2>4. CallsAgree'
      BY <1>6, <1>0 DEF PushInsert, Continue, CallsAgree
    <2>5. Accounted' /\ FrameAgrees'
      BY <1>6, <2>1, <1>0
         DEF PushInsert, Continue, Inside, Accounted, FrameAgrees, SnapshotConsistent, counters
    <2> QED BY <2>2, <2>3, <2>4, <2>5
  <1>7. CASE PushAccount
    <2>1. /\ enqueuedTotal' \in Counter
          /\ enqueuedTotal' < CounterMax => enqueuedTotal' = enqueuedTotal + 1 /\ enqueuedTotal < CounterMax
      BY <1>7, <1>0, AddSaturates, ConstantTypes DEF PushAccount, TypeOK
    <2>2. maxQueued' \in 0 .. Capacity /\ count <= maxQueued'
      BY <1>7, <1>0, ConstantTypes DEF PushAccount, Larger, TypeOK
    <2>3. TypeOK'
      BY <1>7, <2>1, <2>2, <1>0 DEF PushAccount, Return, TypeOK, ring
    <2>4. CallsAgree' /\ IndicesAgree'
      BY <1>7, <1>0 DEF PushAccount, Return, CallsAgree, IndicesAgree, TypeOK, ring
    <2>5. Accounted' /\ FrameAgrees'
      BY <1>7, <2>1, <2>2, <1>0
         DEF PushAccount, Return, Inside, Accounted, FrameAgrees, SnapshotConsistent, ring
    <2> QED BY <2>3, <2>4, <2>5
  <1>8. CASE PopRemove
    <2>1. count > 0 /\ count' = count - 1 /\ tail' = tail /\ head' = NextSlot(head)
      BY <1>8, <1>0 DEF PopRemove
    <2>2. TypeOK'
      <3>1. head' \in Slot
        BY <2>1, SlotArithmetic DEF TypeOK
      <3>2. count' \in 0 .. Capacity
        BY <2>1, <1>0, ConstantTypes
      <3> QED BY <1>8, <3>1, <3>2 DEF PopRemove, Continue, TypeOK, counters
    <2>3. IndicesAgree'
      <3>1. tail = IF head + count < Capacity THEN head + count ELSE head + count - Capacity
        BY <1>0, SlotArithmetic DEF TypeOK, IndicesAgree
      <3>2. head' = IF head + 1 = Capacity THEN 0 ELSE head + 1
        BY <2>1, SlotArithmetic DEF TypeOK
      <3>3. (head' + (count - 1)) % Capacity =
              IF head' + (count - 1) < Capacity THEN head' + (count - 1) ELSE head' + (count - 1) - Capacity
        BY <2>1, <2>2, <1>0, SlotArithmetic DEF TypeOK
      <3> QED BY <2>1, <3>1, <3>2, <3>3, <1>0, ConstantTypes DEF IndicesAgree, TypeOK, Slot
    <2>4. CallsAgree'
      BY <1>8, <1>0 DEF PopRemove, Continue, CallsAgree
    <2>5. Accounted' /\ FrameAgrees'
      BY <1>8, <2>1, <1>0
         DEF PopRemove, Continue, Inside, Accounted, FrameAgrees, SnapshotConsistent, counters
    <2> QED BY <2>2, <2>3, <2>4, <2>5
  <1>9. CASE PopAccount
    <2>1. /\ dequeuedTotal' \in Counter
          /\ enqueuedTotal < CounterMax => dequeuedTotal' = dequeuedTotal + 1
      <3>1. Inside("generator", "pop", "halfway") /\ dequeuedTotal' = Add(dequeuedTotal, 1)
        BY <1>9 DEF PopAccount
      <3>2. enqueuedTotal < CounterMax => dequeuedTotal + 1 <= CounterMax
        BY <3>1, <1>0, ConstantTypes DEF Accounted, Inside, TypeOK, Counter
      <3> QED BY <3>1, <3>2, AddSaturates DEF TypeOK
    <2>3. TypeOK'
      BY <1>9, <2>1, <1>0 DEF PopAccount, Return, TypeOK, ring
    <2>4. CallsAgree' /\ IndicesAgree'
      BY <1>9, <1>0 DEF PopAccount, Return, CallsAgree, IndicesAgree, TypeOK, ring
    <2>5. Accounted' /\ FrameAgrees'
      BY <1>9, <2>1, <1>0
         DEF PopAccount, Return, Inside, Accounted, FrameAgrees, SnapshotConsistent, ring
    <2> QED BY <2>3, <2>4, <2>5
  <1>10. CASE ClearAccount
    <2>1. /\ cancelledBlocks' \in Counter
          /\ enqueuedTotal < CounterMax => cancelledBlocks' = cancelledBlocks + count
      <3>1. Inside("motion", "clear", "entered") /\ cancelledBlocks' = Add(cancelledBlocks, count)
        BY <1>10 DEF ClearAccount
      <3>2. enqueuedTotal < CounterMax => cancelledBlocks + count <= CounterMax
        BY <3>1, <1>0, ConstantTypes DEF Accounted, Inside, TypeOK, Counter
      <3> QED BY <3>1, <3>2, <1>0, AddSaturates DEF TypeOK
    <2>3. TypeOK'
      BY <1>10, <2>1, <1>0 DEF ClearAccount, Continue, TypeOK, ring
    <2>4. CallsAgree' /\ IndicesAgree'
      BY <1>10, <1>0 DEF ClearAccount, Continue, CallsAgree, IndicesAgree, ring
    <2>5. Accounted' /\ FrameAgrees'
      BY <1>10, <2>1, <1>0
         DEF ClearAccount, Continue, Inside, Accounted, FrameAgrees, SnapshotConsistent, ring
    <2> QED BY <2>3, <2>4, <2>5
  <1>11. CASE ClearReset
    <2>1. TypeOK'
      BY <1>11, <1>0, ConstantTypes DEF ClearReset, Return, TypeOK, counters
    <2>2. IndicesAgree'
      BY <1>11, ConstantTypes, SlotArithmetic DEF ClearReset, IndicesAgree
    <2>3. CallsAgree'
      BY <1>11, <1>0 DEF ClearReset, Return, CallsAgree, TypeOK
    <2>4. Accounted' /\ FrameAgrees'
      BY <1>11, <1>0
         DEF ClearReset, Return, Inside, Accounted, FrameAgrees, SnapshotConsistent, TypeOK, counters
    <2> QED BY <2>1, <2>2, <2>3, <2>4
  <1>12. CASE ReadQueued
    <2>1. TypeOK'
      BY <1>12, <1>0 DEF ReadQueued, Continue, TypeOK, Snapshot, ring, counters
    <2>2. CallsAgree' /\ IndicesAgree'
      BY <1>12, <1>0 DEF ReadQueued, Continue, CallsAgree, IndicesAgree, ring
    <2>3. Accounted'
      BY <1>12, <1>0 DEF ReadQueued, Continue, Inside, Accounted, ring, counters
    <2>4. FrameAgrees'
      BY <1>12, <1>0 DEF ReadQueued, Continue, Inside, FrameAgrees, TypeOK, Snapshot, ring, counters
    <2> QED BY <2>1, <2>2, <2>3, <2>4
  <1>13. CASE ReadTotals
    <2>1. TypeOK'
      BY <1>13, <1>0 DEF ReadTotals, Return, TypeOK, Snapshot, ring, counters
    <2>2. CallsAgree' /\ IndicesAgree'
      BY <1>13, <1>0 DEF ReadTotals, Return, CallsAgree, IndicesAgree, TypeOK, ring
    <2>3. Accounted'
      BY <1>13, <1>0 DEF ReadTotals, Return, Inside, Accounted, ring, counters
    <2>4. FrameAgrees'
      <3>1. Inside("diagnostic", "read", "halfway")
        BY <1>13 DEF ReadTotals
      <3>2. snapshot.queued = count /\ snapshot.maxQueued = maxQueued
        BY <3>1 DEF FrameAgrees
      <3>3. /\ enqueuedTotal < CounterMax => enqueuedTotal = dequeuedTotal + cancelledBlocks + count
            /\ count <= maxQueued
        BY <3>1, <1>0 DEF Accounted, Inside
      <3>4. /\ snapshot'.queued = count /\ snapshot'.maxQueued = maxQueued
            /\ snapshot'.enqueued = enqueuedTotal /\ snapshot'.dequeued = dequeuedTotal
            /\ snapshot'.cancelled = cancelledBlocks
        BY <1>13, <3>2 DEF ReadTotals
      <3>5. SnapshotConsistent'
        BY <3>3, <3>4 DEF SnapshotConsistent, Conserved
      <3>6. ~Inside("diagnostic", "read", "halfway")'
        BY <1>13 DEF ReadTotals, Return, Inside, NoTask
      <3> QED BY <3>5, <3>6 DEF FrameAgrees
    <2> QED BY <2>1, <2>2, <2>3, <2>4
  <1>14. CASE UNCHANGED vars
    BY <1>14
       DEF vars, ring, counters, tasks, TypeOK, CallsAgree, IndicesAgree, Accounted, FrameAgrees,
           SnapshotConsistent, Inside
  <1> QED
    BY <1>2, <1>3, <1>4, <1>5, <1>6, <1>7, <1>8, <1>9, <1>10, <1>11, <1>12, <1>13, <1>14
       DEF Next, CriticalSection

LEMMA PlanInvariance == Spec => []PlanInvariant
  BY InitInvariant, StepInvariant, PTL DEF Spec

\* The variables keep their types in every reachable state.
THEOREM TypeCorrect == Spec => []TypeOK
  <1>1. PlanInvariant => TypeOK
    BY DEF PlanInvariant
  <1> QED BY <1>1, PlanInvariance, PTL

\* Between operations every block that was pushed is popped, cancelled or
\* queued, until a counter saturates.
THEOREM CountersAgree == Spec => []CountersConserved
  <1>1. PlanInvariant => CountersConserved
    <2> SUFFICES ASSUME PlanInvariant, holder = NoTask
                 PROVE  /\ enqueuedTotal < CounterMax =>
                             enqueuedTotal = dequeuedTotal + cancelledBlocks + count
                        /\ count <= maxQueued
      BY DEF CountersConserved, Conserved
    <2>1. \A task \in Task, operation \in {"push", "pop", "clear"} :
            ~Inside(task, operation, "halfway")
      BY DEF Inside, Task, NoTask
    <2>2. /\ count \in Int /\ enqueuedTotal \in Int /\ dequeuedTotal \in Int
          /\ cancelledBlocks \in Int
      BY ConstantTypes DEF PlanInvariant, TypeOK, Counter
    <2> QED BY <2>1, <2>2 DEF PlanInvariant, Accounted, Task
  <1> QED BY <1>1, PlanInvariance, PTL

\* A diagnostic frame is never torn.
THEOREM FramesAreConsistent == Spec => []SnapshotConsistent
  <1>1. PlanInvariant => SnapshotConsistent
    BY DEF PlanInvariant, FrameAgrees, SnapshotConsistent
  <1> QED BY <1>1, PlanInvariance, PTL

-----------------------------------------------------------------------------
(* Refinement of BoundedFifo. *)

\* The slot of the i-th queued block.
At(i) == (head + (i - 1)) % Capacity

\* Queued is a sequence of count blocks.
LEMMA QueuedShape ==
  ASSUME TypeOK
  PROVE  /\ count \in Nat /\ count <= Capacity
         /\ Queued = [i \in 1 .. count |-> entries[At(i)]]
         /\ \A i \in 1 .. count : At(i) \in Slot
         /\ Queued \in Seq(Block \cup {NoBlock})
         /\ Len(Queued) = count
  <1>1. count \in Nat /\ count <= Capacity
    BY ConstantTypes DEF TypeOK
  <1>2. Queued = [i \in 1 .. count |-> entries[At(i)]]
    BY DEF Queued, At
  <1>3. ASSUME NEW i \in 1 .. count PROVE At(i) \in Slot
    <2>1. i - 1 \in 0 .. Capacity
      BY <1>1, ConstantTypes
    <2> QED BY <2>1, SlotArithmetic DEF TypeOK, At
  <1>4. \A i \in 1 .. count : entries[At(i)] \in Block \cup {NoBlock}
    BY <1>3 DEF TypeOK
  <1> QED BY <1>1, <1>2, <1>3, <1>4

\* Storing at the tail appends, and disturbs no queued block.
LEMMA InsertAppends ==
  ASSUME PlanInvariant, PushInsert
  PROVE  Queued' = Append(Queued, pushed) /\ Len(Queued) < Capacity
  <1>1. /\ count' = count + 1 /\ head' = head /\ count # Capacity
        /\ entries' = [entries EXCEPT ![tail] = pushed]
        /\ TypeOK /\ IndicesAgree /\ head \in Slot
    BY DEF PushInsert, IsFull, PlanInvariant, TypeOK
  <1>2. /\ Queued = [i \in 1 .. count |-> entries[At(i)]] /\ Len(Queued) = count
        /\ count \in Nat /\ count < Capacity /\ Queued \in Seq(Block \cup {NoBlock})
    BY <1>1, QueuedShape, ConstantTypes
  <1>3. Queued' = [i \in 1 .. count + 1 |-> entries'[At(i)]]
    BY <1>1 DEF Queued, At
  <1>4. At(count + 1) = tail
    BY <1>1, <1>2 DEF At, IndicesAgree
  <1>5. ASSUME NEW i \in 1 .. count PROVE At(i) # tail /\ At(i) \in Slot
    <2>1. i - 1 \in 0 .. Capacity /\ count \in 0 .. Capacity
      BY <1>2, ConstantTypes
    <2>2. /\ At(i) = IF head + (i - 1) < Capacity THEN head + (i - 1) ELSE head + (i - 1) - Capacity
          /\ At(i) \in Slot
      BY <1>1, <2>1, SlotArithmetic DEF At
    <2>3. tail = IF head + count < Capacity THEN head + count ELSE head + count - Capacity
      BY <1>1, <2>1, SlotArithmetic DEF IndicesAgree
    <2>4. head \in Int /\ head \in 0 .. Capacity - 1
      BY <1>1, ConstantTypes DEF Slot
    <2> QED BY <2>1, <2>2, <2>3, <2>4, <1>2, ConstantTypes
  <1>6. Append(Queued, pushed) =
          [i \in 1 .. count + 1 |-> IF i = count + 1 THEN pushed ELSE Queued[i]]
    BY <1>2
  <1>7. tail \in Slot /\ DOMAIN entries = Slot
    BY <1>1 DEF TypeOK
  <1>8. ASSUME NEW i \in 1 .. count + 1
        PROVE  entries'[At(i)] = IF i = count + 1 THEN pushed ELSE Queued[i]
    <2>1. CASE i = count + 1
      BY <2>1, <1>1, <1>4, <1>7
    <2>2. CASE i \in 1 .. count
      BY <2>2, <1>1, <1>2, <1>5, <1>7
    <2> QED BY <2>1, <2>2, <1>2
  <1> QED BY <1>2, <1>3, <1>6, <1>8

\* Removing at the head takes the oldest block.
LEMMA RemoveIsTail ==
  ASSUME PlanInvariant, PopRemove
  PROVE  Queued # << >> /\ Queued' = Tail(Queued)
  <1>1. /\ count' = count - 1 /\ count # 0 /\ head' = NextSlot(head) /\ entries' = entries
        /\ TypeOK /\ head \in Slot
    BY DEF PopRemove, PlanInvariant, TypeOK
  <1>2. /\ Queued = [i \in 1 .. count |-> entries[At(i)]] /\ Len(Queued) = count
        /\ count \in Nat /\ count <= Capacity /\ Queued \in Seq(Block \cup {NoBlock})
    BY <1>1, QueuedShape
  <1>3. Queued' = [i \in 1 .. count - 1 |-> entries[(NextSlot(head) + (i - 1)) % Capacity]]
    BY <1>1 DEF Queued
  <1>4. ASSUME NEW i \in 1 .. count - 1
        PROVE  (NextSlot(head) + (i - 1)) % Capacity = At(i + 1)
    <2>1. i - 1 \in 0 .. Capacity /\ i \in 0 .. Capacity /\ i + 1 - 1 = i
      BY <1>2, ConstantTypes
    <2>2. NextSlot(head) = (IF head + 1 = Capacity THEN 0 ELSE head + 1) /\ NextSlot(head) \in Slot
      BY <1>1, SlotArithmetic
    <2>3. (NextSlot(head) + (i - 1)) % Capacity =
            IF NextSlot(head) + (i - 1) < Capacity THEN NextSlot(head) + (i - 1)
            ELSE NextSlot(head) + (i - 1) - Capacity
      BY <2>1, <2>2, SlotArithmetic
    <2>4. At(i + 1) = IF head + i < Capacity THEN head + i ELSE head + i - Capacity
      BY <1>1, <2>1, SlotArithmetic DEF At
    <2>5. head \in Int /\ head \in 0 .. Capacity - 1
      BY <1>1, ConstantTypes DEF Slot
    <2> QED BY <2>1, <2>2, <2>3, <2>4, <2>5, <1>2, ConstantTypes
  <1>5. Tail(Queued) = [i \in 1 .. count - 1 |-> Queued[i + 1]] /\ Queued # << >>
    BY <1>1, <1>2
  <1>6. ASSUME NEW i \in 1 .. count - 1
        PROVE  entries[(NextSlot(head) + (i - 1)) % Capacity] = Queued[i + 1]
    <2>1. i + 1 \in 1 .. count
      BY <1>2
    <2>2. (NextSlot(head) + (i - 1)) % Capacity = At(i + 1)
      BY <1>4
    <2>3. Queued[i + 1] = entries[At(i + 1)]
      BY <2>1, <1>2
    <2> QED BY <2>2, <2>3
  <1> QED BY <1>3, <1>5, <1>6

\* The implementation theorem: every behaviour of the mutexed ring is a behaviour
\* of a bounded FIFO queue.
THEOREM PlanBufferIsFifo == Spec => ImplementsFifo
  <1>1. Init => Fifo!Init
    BY DEF Init, Fifo!Init, Queued
  <1>2. PlanInvariant /\ [Next]_vars => [Fifo!Next]_Queued
    <2> SUFFICES ASSUME PlanInvariant, [Next]_vars PROVE Fifo!Next \/ Queued' = Queued
      OBVIOUS
    <2>1. ring' = ring => Queued' = Queued
      BY DEF ring, Queued
    <2>2. CASE \/ \E block \in Block : CallPush(block)
               \/ CallClear \/ CallPop \/ CallGetDiagnostics
               \/ \E task \in Task : Acquire(task)
      BY <2>1, <2>2 DEF CallPush, CallClear, CallPop, CallGetDiagnostics, Begin, Acquire
    <2>3. CASE PushInsert
      <3>1. pushed \in Block
        BY <2>3 DEF PushInsert, Inside, PlanInvariant, CallsAgree
      <3> QED BY <2>3, <3>1, InsertAppends DEF Fifo!Next, Fifo!Push
    <2>4. CASE PopRemove
      BY <2>4, RemoveIsTail DEF Fifo!Next, Fifo!Pop
    <2>5. CASE ClearReset
      <3>1. count' = 0
        BY <2>5 DEF ClearReset
      <3>2. Queued' = << >>
        BY <3>1 DEF Queued
      <3> QED BY <3>2 DEF Fifo!Next, Fifo!Clear
    <2>6. CASE PushFull \/ PushAccount \/ PopEmpty \/ PopAccount
      BY <2>1, <2>6 DEF PushFull, PushAccount, PopEmpty, PopAccount
    <2>7. CASE ClearAccount \/ ReadQueued \/ ReadTotals \/ UNCHANGED vars
      <3>1. ring' = ring
        BY <2>7 DEF ClearAccount, ReadQueued, ReadTotals, vars
      <3> QED BY <2>1, <3>1
    <2> QED
      BY <2>2, <2>3, <2>4, <2>5, <2>6, <2>7 DEF Next, CriticalSection
  <1> QED
    BY <1>1, <1>2, PlanInvariance, PTL DEF Spec, ImplementsFifo, Fifo!Spec
=============================================================================
