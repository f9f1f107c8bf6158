------------------------------ MODULE FifoQueue ------------------------------
(***************************************************************************)
(* What a first-in first-out buffer promises: words leave in the order they *)
(* entered, none lost, none duplicated, at most Capacity inside at a time. *)
(***************************************************************************)
EXTENDS Naturals, Sequences

CONSTANTS Data, Capacity

VARIABLE queue    \* the words inside, the oldest first

Init == queue = <<>>

Put == /\ Len(queue) < Capacity
       /\ \E d \in Data : queue' = Append(queue, d)

Get == /\ queue # <<>>
       /\ queue' = Tail(queue)

Next == Put \/ Get

Spec == Init /\ [][Next]_queue
=============================================================================
