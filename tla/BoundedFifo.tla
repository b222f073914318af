---------------------------- MODULE BoundedFifo ----------------------------
(***************************************************************************)
(* What a bounded queue between a producer and a consumer promises: values *)
(* leave in the order in which they entered, none is lost, duplicated or   *)
(* altered, there are never more than Capacity of them, and a clear drops  *)
(* all of them at once.  ExecutionBuffer and PlanBuffer implement it.      *)
(***************************************************************************)
EXTENDS Naturals, Sequences

CONSTANTS Value,     \* what can be queued
          Capacity   \* how many values fit

VARIABLE queue

Init == queue = << >>

Push(v) == /\ Len(queue) < Capacity
           /\ queue' = Append(queue, v)

Pop == /\ queue # << >>
       /\ queue' = Tail(queue)

Clear == queue' = << >>

Next == \/ \E v \in Value : Push(v)
        \/ Pop
        \/ Clear

Spec == Init /\ [][Next]_queue
=============================================================================
