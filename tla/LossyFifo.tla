------------------------------- MODULE LossyFifo -------------------------------
(***************************************************************************)
(* A channel that loses but does not repeat or reorder: what cModbus makes *)
(* of the answers to its requests.  Messages are numbered in the order     *)
(* they are handed over; any may be lost, but each delivery is of a later  *)
(* message than the one before.                                            *)
(***************************************************************************)
EXTENDS Naturals

VARIABLES
  next,  \* number of the next message to be handed over
  last,  \* number of the last message delivered, 0 before the first
  count  \* number of deliveries

Init == next = 1 /\ last = 0 /\ count = 0

HandOver == next' = next + 1 /\ UNCHANGED <<last, count>>

Deliver ==
  /\ last' \in (last + 1)..(next - 1)
  /\ count' = count + 1
  /\ UNCHANGED next

Next == HandOver \/ Deliver

Spec == Init /\ [][Next]_<<next, last, count>>
=============================================================================
