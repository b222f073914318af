----------------------------- MODULE PlanBuffer -----------------------------
(***************************************************************************)
(* The ring of planned moves between MotionTask, which pushes and clears,  *)
(* and StepGeneratorTask, which pops (src/APP/motion/plan_buffer.c).  A    *)
(* priority-inheritance mutex guards every operation; the diagnostic task  *)
(* reads the counters under it too.  An operation is the steps it takes    *)
(* while it holds the mutex, so that what the mutex protects is visible:   *)
(* tasks preempt each other between any two of them.                       *)
(*                                                                         *)
(* The state after plan_buffer_init, which runs before the scheduler.  No  *)
(* caller passes NULL, so rejected_operations stays 0 and is left out, as  *)
(* full_rejections is, a tally that nothing else depends on.               *)
(***************************************************************************)
EXTENDS Integers, Sequences

CONSTANTS
  Block,      \* planned moves
  NoBlock,    \* an unused entry
  Capacity,   \* PLAN_BUFFER_CAPACITY (100)
  CounterMax  \* the counters saturate at UINT32_MAX

ASSUME CapacityAssumption == Capacity \in Nat \ {0}
ASSUME CounterMaxAssumption == CounterMax \in Nat
ASSUME NoBlockAssumption == NoBlock \notin Block

VARIABLES
  entries,         \* plan_buffer_entries
  head, tail, count,
  enqueuedTotal, dequeuedTotal, cancelledBlocks, maxQueued,
  call,            \* the operation each task is in, "none" outside of one
  pushed,          \* the block MotionTask passes to try_push
  holder,          \* the task that owns plan_buffer_mutex
  progress,        \* how far the owner's critical section is
  snapshot         \* the frame the diagnostic task fills

ring == <<entries, head, tail, count>>
counters == <<enqueuedTotal, dequeuedTotal, cancelledBlocks, maxQueued>>
tasks == <<call, pushed, holder, progress>>
vars == <<ring, counters, tasks, snapshot>>

Task == {"motion", "generator", "diagnostic"}
NoTask == "nobody"
Slot == 0 .. Capacity - 1
Counter == 0 .. CounterMax

AddWrapping(counter, increment) == (counter + increment) % (CounterMax + 1)
Add(counter, increment) ==
  IF increment > CounterMax - counter THEN CounterMax ELSE counter + increment

\* The next index of head and tail.
NextSlot(slot) == (slot + 1) % Capacity

IsFullLate == count > Capacity
IsFull == count = Capacity

Larger(a, b) == IF a > b THEN a ELSE b

\* The generator outranks the other tasks: a released mutex is its before theirs.
NobodyOutranks(task) == TRUE
Outranks(task) == task = "generator" \/ call["generator"] = "none" \/ holder = "generator"

UnguardedRead(task) == holder = NoTask \/ task = "diagnostic"
MutexFree(task) == holder = NoTask

Snapshot == [queued : 0 .. Capacity, maxQueued : 0 .. Capacity,
             enqueued : Counter, dequeued : Counter, cancelled : Counter]

\* The type invariant: indices stay in the ring, the tallies in their width.
TypeOK ==
  /\ entries \in [Slot -> Block \cup {NoBlock}]
  /\ head \in Slot /\ tail \in Slot /\ count \in 0 .. Capacity
  /\ enqueuedTotal \in Counter /\ dequeuedTotal \in Counter
  /\ cancelledBlocks \in Counter
  /\ maxQueued \in 0 .. Capacity
  /\ call \in [Task -> {"none", "push", "clear", "pop", "read"}]
  /\ pushed \in Block \cup {NoBlock}
  /\ holder \in Task \cup {NoTask}
  /\ progress \in {"entered", "halfway"}
  /\ snapshot \in Snapshot

Init ==
  /\ entries = [slot \in Slot |-> NoBlock]
  /\ head = 0 /\ tail = 0 /\ count = 0
  /\ enqueuedTotal = 0 /\ dequeuedTotal = 0 /\ cancelledBlocks = 0
  /\ maxQueued = 0
  /\ call = [task \in Task |-> "none"]
  /\ pushed = NoBlock
  /\ holder = NoTask
  /\ progress = "entered"
  /\ snapshot = [queued |-> 0, maxQueued |-> 0, enqueued |-> 0, dequeued |-> 0, cancelled |-> 0]

-----------------------------------------------------------------------------
(* Entering and leaving an operation. *)

Begin(task, operation) ==
  /\ call[task] = "none"
  /\ call' = [call EXCEPT ![task] = operation]
  /\ UNCHANGED <<ring, counters, holder, progress, snapshot>>

CallPush(block) == Begin("motion", "push") /\ pushed' = block
CallClear == Begin("motion", "clear") /\ UNCHANGED pushed
CallPop == Begin("generator", "pop") /\ UNCHANGED pushed
CallGetDiagnostics == Begin("diagnostic", "read") /\ UNCHANGED pushed

\* plan_buffer_lock
Acquire(task) ==
  /\ call[task] # "none"
  /\ holder # task
  /\ MutexFree(task)
  /\ Outranks(task)
  /\ holder' = task
  /\ progress' = "entered"
  /\ UNCHANGED <<ring, counters, call, pushed, snapshot>>

Inside(task, operation, step) ==
  holder = task /\ call[task] = operation /\ progress = step

Continue == progress' = "halfway" /\ UNCHANGED <<call, pushed, holder>>

\* plan_buffer_unlock and the return
Return(task) ==
  /\ holder' = NoTask
  /\ call' = [call EXCEPT ![task] = "none"]
  /\ progress' = "entered"
  /\ UNCHANGED pushed

-----------------------------------------------------------------------------
(* plan_buffer_try_push *)

PushFull ==
  /\ Inside("motion", "push", "entered")
  /\ IsFull
  /\ Return("motion")
  /\ UNCHANGED <<ring, counters, snapshot>>

PushInsert ==
  /\ Inside("motion", "push", "entered")
  /\ ~IsFull
  /\ entries' = [entries EXCEPT ![tail] = pushed]
  /\ tail' = NextSlot(tail)
  /\ count' = count + 1
  /\ Continue
  /\ UNCHANGED <<head, counters, snapshot>>

PushAccount ==
  /\ Inside("motion", "push", "halfway")
  /\ enqueuedTotal' = Add(enqueuedTotal, 1)
  /\ maxQueued' = Larger(count, maxQueued)
  /\ Return("motion")
  /\ UNCHANGED <<ring, dequeuedTotal, cancelledBlocks, snapshot>>

(* plan_buffer_try_pop *)

PopEmpty ==
  /\ Inside("generator", "pop", "entered")
  /\ count = 0
  /\ Return("generator")
  /\ UNCHANGED <<ring, counters, snapshot>>

PopRemove ==
  /\ Inside("generator", "pop", "entered")
  /\ count # 0
  /\ head' = NextSlot(head)
  /\ count' = count - 1
  /\ Continue
  /\ UNCHANGED <<entries, tail, counters, snapshot>>

PopAccount ==
  /\ Inside("generator", "pop", "halfway")
  /\ dequeuedTotal' = Add(dequeuedTotal, 1)
  /\ Return("generator")
  /\ UNCHANGED <<ring, enqueuedTotal, cancelledBlocks, maxQueued, snapshot>>

(* plan_buffer_clear *)

ClearAccount ==
  /\ Inside("motion", "clear", "entered")
  /\ cancelledBlocks' = Add(cancelledBlocks, count)
  /\ Continue
  /\ UNCHANGED <<ring, enqueuedTotal, dequeuedTotal, maxQueued, snapshot>>

ClearReset ==
  /\ Inside("motion", "clear", "halfway")
  /\ head' = 0 /\ tail' = 0 /\ count' = 0
  /\ Return("motion")
  /\ UNCHANGED <<entries, counters, snapshot>>

(* plan_buffer_get_diagnostics *)

ReadQueued ==
  /\ Inside("diagnostic", "read", "entered")
  /\ snapshot' = [queued |-> count, maxQueued |-> maxQueued, enqueued |-> snapshot.enqueued,
                  dequeued |-> snapshot.dequeued, cancelled |-> snapshot.cancelled]
  /\ Continue
  /\ UNCHANGED <<ring, counters>>

ReadTotals ==
  /\ Inside("diagnostic", "read", "halfway")
  /\ snapshot' = [queued |-> snapshot.queued, maxQueued |-> snapshot.maxQueued,
                  enqueued |-> enqueuedTotal, dequeued |-> dequeuedTotal,
                  cancelled |-> cancelledBlocks]
  /\ Return("diagnostic")
  /\ UNCHANGED <<ring, counters>>

-----------------------------------------------------------------------------
CriticalSection ==
  \/ PushFull \/ PushInsert \/ PushAccount
  \/ PopEmpty \/ PopRemove \/ PopAccount
  \/ ClearAccount \/ ClearReset
  \/ ReadQueued \/ ReadTotals

Next ==
  \/ \E block \in Block : CallPush(block)
  \/ CallClear \/ CallPop \/ CallGetDiagnostics
  \/ \E task \in Task : Acquire(task)
  \/ CriticalSection

Spec == Init /\ [][Next]_vars

(* A critical section is finished, at the generator's priority when it waits *)
(* (osMutexPrioInherit), and the ready generator takes a free mutex.         *)
Fairness == WF_vars(CriticalSection) /\ WF_vars(Acquire("generator"))

FairSpec == Spec /\ Fairness

-----------------------------------------------------------------------------
(* Properties. *)

\* The planned moves still to be generated, oldest first.
Queued == [i \in 1 .. count |-> entries[(head + (i - 1)) % Capacity]]

Fifo == INSTANCE BoundedFifo WITH Value <- Block, queue <- Queued

\* The ring is a bounded FIFO: across wrap-around and clears, planned moves
\* leave complete, once and in the order in which they were planned.
ImplementsFifo == Fifo!Spec

\* Until the counters saturate, every block that entered is accounted for: it
\* was popped, it was cancelled, or it still waits.
Conserved(enqueued, dequeued, cancelled, queued) ==
  enqueued < CounterMax => enqueued = dequeued + cancelled + queued

\* With no operation in progress the counters and the ring agree.
CountersConserved ==
  holder = NoTask =>
    /\ Conserved(enqueuedTotal, dequeuedTotal, cancelledBlocks, count)
    /\ count <= maxQueued

\* A diagnostic frame is one moment's truth: its fields, read one by one while
\* other tasks run, agree with each other.
SnapshotConsistent ==
  ~Inside("diagnostic", "read", "halfway") =>
    /\ Conserved(snapshot.enqueued, snapshot.dequeued, snapshot.cancelled, snapshot.queued)
    /\ snapshot.queued <= snapshot.maxQueued

\* What makes the invariants inductive.  A task that has the mutex is in one of
\* its own operations.
CallsAgree ==
  /\ call["motion"] \in {"none", "push", "clear"}
  /\ call["generator"] \in {"none", "pop"}
  /\ call["diagnostic"] \in {"none", "read"}
  /\ call["motion"] = "push" => pushed \in Block
  /\ holder # NoTask => call[holder] # "none"

\* The indices agree with the count.
IndicesAgree == tail = (head + count) % Capacity

\* A half-done operation is off by exactly what it has still to count.
Accounted ==
  LET halfway(task, operation) == Inside(task, operation, "halfway") IN
  /\ enqueuedTotal < CounterMax =>
       enqueuedTotal + (IF halfway("motion", "push") THEN 1 ELSE 0)
         = dequeuedTotal + (IF halfway("generator", "pop") THEN 1 ELSE 0)
           + cancelledBlocks + (IF halfway("motion", "clear") THEN 0 ELSE count)
  /\ count <= maxQueued \/ (halfway("motion", "push") /\ count > 0)

\* A half-read frame already has the count of the totals it is about to read.
FrameAgrees ==
  IF Inside("diagnostic", "read", "halfway")
  THEN snapshot.queued = count /\ snapshot.maxQueued = maxQueued
  ELSE SnapshotConsistent

PlanInvariant == TypeOK /\ CallsAgree /\ IndicesAgree /\ Accounted /\ FrameAgrees

\* The step generator never waits behind a queue of callers, only for the
\* critical part in progress ("Calls never wait for space or data").
GeneratorIsServed == call["generator"] = "pop" ~> call["generator"] = "none"
=============================================================================
