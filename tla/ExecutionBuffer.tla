-------------------------- MODULE ExecutionBuffer --------------------------
(***************************************************************************)
(* The ring of step events between StepGeneratorTask, the only producer,   *)
(* and the axis timer interrupt, the only consumer                         *)
(* (src/APP/motion/execution_buffer.c).  Neither side takes a lock: each   *)
(* owns one free-running 32-bit position and reads the other's.  The       *)
(* interrupt preempts the task between any two of its memory accesses and  *)
(* runs to completion, so a pop is one step and a push is three.           *)
(*                                                                         *)
(* The producer sleeps when the ring is full and relies on the single      *)
(* thread flag the interrupt raises when a pop leaves exactly LowWatermark *)
(* events.  The task's own use of the ring (fill, start, wait, halt and    *)
(* reset after STOP) is step_generator_task.c.                             *)
(***************************************************************************)
EXTENDS Integers, Sequences

CONSTANTS
  Event,         \* step events
  NoEvent,       \* no event pending in the producer
  Capacity,      \* EXECUTION_BUFFER_CAPACITY (512)
  Modulus,       \* positions are uint32_t: 2^32
  LowWatermark   \* EXECUTION_BUFFER_LOW_WATERMARK (256)

\* The static assertion on the capacity makes it divide 2^32.
ASSUME CapacityAssumption == Capacity \in Nat \ {0}
ASSUME ModulusAssumption ==
  Modulus \in Nat /\ Modulus > Capacity /\ Modulus % Capacity = 0
ASSUME LowWatermarkAssumption == LowWatermark \in 0 .. Capacity - 1
ASSUME NoEventAssumption == NoEvent \notin Event

VARIABLES
  entries,        \* execution_buffer_entries
  writePosition,  \* execution_buffer_write_position, stored by the producer only
  readPosition,   \* execution_buffer_read_position, stored by the interrupt and by clear
  spaceFlag,      \* STEP_GENERATOR_TASK_FLAG_BUFFER_SPACE is pending
  halted,         \* step_generator_task_halted
  axisRunning,    \* the axis timer interrupt consumes events
  pc,             \* where the producer task is
  pendingEvent    \* StepGeneratorState_t.pending_event / event_pending

ring == <<entries, writePosition, readPosition>>
vars == <<entries, writePosition, readPosition, spaceFlag, halted, axisRunning, pc, pendingEvent>>

Position == 0 .. Modulus - 1
Slot == 0 .. Capacity - 1

\* uint32_t arithmetic on positions and the index mask.
Advance(position) == (position + 1) % Modulus
Distance(write, read) == (write - read) % Modulus
Index(position) == position % Capacity

Count == Distance(writePosition, readPosition)

IsFullLate == Count > Capacity
IsFull == Count >= Capacity

\* The listener's condition; left is the count after the pop.
BelowWatermark(left) == left < LowWatermark
CrossesWatermark(left) == left = LowWatermark

\* Flags set while the task fills are still there when it waits.
FlagDropped(flag) == FALSE
FlagAtWait(flag) == flag

\* "Clear only while both are quiescent": the task is not filling, the axis at rest.
TaskQuiescent == pc = "wait"
Quiescent == pc = "wait" /\ ~axisRunning

\* The type invariant: positions stay within the width of the code's counters.
TypeOK ==
  /\ entries \in [Slot -> Event \cup {NoEvent}]
  /\ writePosition \in Position
  /\ readPosition \in Position
  /\ spaceFlag \in BOOLEAN
  /\ halted \in BOOLEAN
  /\ axisRunning \in BOOLEAN
  /\ pc \in {"fill", "store", "publish", "full", "wait", "clear"}
  /\ pendingEvent \in Event \cup {NoEvent}

Init ==
  /\ entries = [slot \in Slot |-> NoEvent]
  /\ writePosition = 0
  /\ readPosition = 0
  /\ spaceFlag = FALSE
  /\ halted = FALSE
  /\ axisRunning = FALSE
  /\ pc = "fill"
  /\ pendingEvent = NoEvent

-----------------------------------------------------------------------------
(* The producer task. *)

\* fill: the segment generator yields the next event of the active block.
GenerateEvent(event) ==
  /\ pc = "fill"
  /\ pendingEvent = NoEvent
  /\ pendingEvent' = event
  /\ UNCHANGED <<ring, spaceFlag, halted, axisRunning, pc>>

\* execution_buffer_try_push up to its FULL check.
PushCheck ==
  /\ pc = "fill"
  /\ pendingEvent # NoEvent
  /\ pc' = IF IsFull THEN "full" ELSE "store"
  /\ UNCHANGED <<ring, spaceFlag, halted, axisRunning, pendingEvent>>

\* The entry is written while the interrupt cannot see it yet ...
PushStore ==
  /\ pc = "store"
  /\ entries' = [entries EXCEPT ![Index(writePosition)] = pendingEvent]
  /\ pc' = "publish"
  /\ UNCHANGED <<writePosition, readPosition, spaceFlag, halted, axisRunning, pendingEvent>>

\* ... and the release store of the position makes it visible.
PushPublish ==
  /\ pc = "publish"
  /\ writePosition' = Advance(writePosition)
  /\ pendingEvent' = NoEvent
  /\ pc' = "fill"
  /\ UNCHANGED <<entries, readPosition, spaceFlag, halted, axisRunning>>

\* fill also returns when no planned block is left.
PlanExhausted ==
  /\ pc = "fill"
  /\ pendingEvent = NoEvent
  /\ pc' = "full"
  /\ UNCHANGED <<ring, spaceFlag, halted, axisRunning, pendingEvent>>

\* start_axis, then osThreadFlagsWait.  An idle axis starts when events wait,
\* unless the task is halted, or it stopped or faulted and is left alone.
StartAxisAndWait ==
  /\ pc = "full"
  /\ \/ /\ ~halted /\ ~axisRunning /\ Count # 0
        /\ axisRunning' = TRUE
     \/ UNCHANGED axisRunning
  /\ spaceFlag' = FlagAtWait(spaceFlag)
  /\ pc' = "wait"
  /\ UNCHANGED <<ring, halted, pendingEvent>>

\* A halted task goes back to its wait, and the flags that woke it are gone.
AfterWake == IF halted THEN "wait" ELSE "fill"

\* The wait returns because the interrupt reported space; it clears the flag.
WakeOnSpace ==
  /\ pc = "wait"
  /\ spaceFlag
  /\ spaceFlag' = FALSE
  /\ pc' = AfterWake
  /\ UNCHANGED <<ring, halted, axisRunning, pendingEvent>>

\* BLOCK_READY wakes the task at any time, and clears a pending space flag too.
WakeOnBlock ==
  /\ pc = "wait"
  /\ spaceFlag' = FALSE
  /\ pc' = AfterWake
  /\ UNCHANGED <<ring, halted, axisRunning, pendingEvent>>

\* STOP_RESET: the producer forgets its event, clears the ring, one store after
\* the other, and ends the halt, also that of a later STOP.  MotionTask resumes it
\* only once the axis is at rest.
ClearRead ==
  /\ Quiescent
  /\ spaceFlag' = FALSE
  /\ pendingEvent' = NoEvent
  /\ readPosition' = 0
  /\ pc' = "clear"
  /\ UNCHANGED <<entries, writePosition, halted, axisRunning>>

ClearWrite ==
  /\ pc = "clear"
  /\ writePosition' = 0
  /\ halted' = FALSE
  /\ pc' = "fill"
  /\ UNCHANGED <<entries, readPosition, spaceFlag, axisRunning, pendingEvent>>

-----------------------------------------------------------------------------
(* STOP in another task. *)

\* motion_task_request_stop halts the producer, before it asks the axis to stop.  The
\* producer looks at the halt before it fills and before it starts the axis only.
Halt ==
  /\ halted' = TRUE
  /\ UNCHANGED <<ring, spaceFlag, axisRunning, pc, pendingEvent>>

-----------------------------------------------------------------------------
(* The timer interrupt. *)

\* execution_buffer_try_pop with its watermark listener.
TryPop ==
  /\ axisRunning
  /\ readPosition # writePosition
  /\ readPosition' = Advance(readPosition)
  /\ spaceFlag' = (spaceFlag \/ CrossesWatermark(Distance(writePosition, readPosition')))
  /\ UNCHANGED <<entries, writePosition, halted, axisRunning, pc, pendingEvent>>

\* The move completes or runs out of events on an empty ring, or STOP, a switch
\* or a fault ends it with events still queued.
AxisStops ==
  /\ axisRunning
  /\ axisRunning' = FALSE
  /\ UNCHANGED <<ring, spaceFlag, halted, pc, pendingEvent>>

-----------------------------------------------------------------------------
Producer ==
  \/ \E event \in Event : GenerateEvent(event)
  \/ PushCheck \/ PushStore \/ PushPublish
  \/ PlanExhausted \/ StartAxisAndWait
  \/ WakeOnSpace
  \/ ClearWrite

Next ==
  \/ Producer
  \/ WakeOnBlock \/ ClearRead \/ Halt
  \/ TryPop \/ AxisStops

Spec == Init /\ [][Next]_vars

(* The scheduler runs the ready producer task, the highest-priority one, and *)
(* the timer keeps interrupting a running axis.  Whoever halts the producer   *)
(* goes on to stop the axis, which ends its move at the next interrupt.       *)
(* Nothing obliges MotionTask to plan a block, to stop or to reset.           *)
Fairness == WF_vars(Producer) /\ WF_vars(TryPop) /\ WF_vars(halted /\ AxisStops)

FairSpec == Spec /\ Fairness

-----------------------------------------------------------------------------
(* Properties. *)

\* The events the consumer still has to see, oldest first.  Between the two
\* stores of clear the positions mean nothing and no interrupt looks at them.
Queued ==
  IF pc = "clear" THEN << >>
  ELSE [i \in 1 .. Count |-> entries[Index((readPosition + (i - 1)) % Modulus)]]

Fifo == INSTANCE BoundedFifo WITH Value <- Event, queue <- Queued

\* The lock-free ring is a bounded FIFO: whatever the interleaving of the push's
\* three accesses with the interrupt, across position wrap-around and clears,
\* events leave complete, once and in order.
ImplementsFifo == Fifo!Spec

\* The write position never runs more than a full ring ahead, so an entry the
\* interrupt has yet to read is never overwritten.
NeverOverrun == pc # "clear" => Count <= Capacity

\* No lost wake-up: a producer that sleeps with an undelivered event while no
\* wake-up is pending sleeps above the watermark, so the crossing that wakes it
\* is still to come.  Only a STOP costs it a wake-up: one that it takes while it is
\* halted.  It then sleeps until STOP_RESET, and goes on without the event.
NoLostWakeup ==
  /\ (pc = "wait" /\ pendingEvent # NoEvent /\ ~spaceFlag) => Count > LowWatermark \/ halted
  /\ pc = "clear" => pendingEvent = NoEvent

\* What makes the two invariants above inductive: a push that passed its check
\* still has room, its stored entry is the pending event, and the ring is
\* cleared with the axis at rest and the producer's event forgotten.
RingInvariant ==
  /\ TypeOK
  /\ pc # "clear" => Count <= Capacity
  /\ pc \in {"store", "publish"} => Count < Capacity /\ pendingEvent # NoEvent
  /\ pc = "publish" => entries[Index(writePosition)] = pendingEvent
  /\ pc = "clear" => ~axisRunning /\ readPosition = 0 /\ pendingEvent = NoEvent
  /\ (pc \in {"full", "wait"} /\ pendingEvent # NoEvent /\ ~spaceFlag) => Count > LowWatermark \/ halted

\* A producer blocked on a full ring runs again while the axis keeps consuming, also
\* if a STOP comes, which ends the move.
BlockedProducerWakes ==
  (pc = "wait" /\ pendingEvent # NoEvent /\ axisRunning)
    ~> (pc # "wait" \/ ~axisRunning)
=============================================================================
