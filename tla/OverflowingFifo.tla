---------------------------- MODULE OverflowingFifo ----------------------------
(***************************************************************************)
(* What cClient makes of the messages for the server.  Messages are        *)
(* numbered in the order they are handed over.  Any may be lost; each that *)
(* is delivered in its turn is later than the one delivered in its turn    *)
(* before.  Besides, each overflow of the queue can cost one stray: a      *)
(* message ahead of its turn, which may come again later, or rubbish.      *)
(***************************************************************************)
EXTENDS Naturals

VARIABLES
  next,       \* number of the next message to be handed over
  last,       \* number of the last message delivered in its turn, 0 before
  received,   \* what was received last: a message's number, or 0 for rubbish
  count,      \* number of receptions
  strays,     \* how many of them were out of turn
  overflows   \* messages thrown out of a full queue

Init ==
  /\ next = 1 /\ last = 0 /\ received = 0
  /\ count = 0 /\ strays = 0 /\ overflows = 0

HandOver == next' = next + 1 /\ UNCHANGED <<last, received, count, strays, overflows>>

Overflow ==
  /\ overflows' = overflows + 1
  /\ UNCHANGED <<next, last, received, count, strays>>

Later == (last + 1)..(next - 1)

Deliver ==
  /\ received' \in Later /\ last' = received'
  /\ count' = count + 1
  /\ UNCHANGED <<next, strays, overflows>>

Stray ==
  /\ strays < overflows /\ strays' = strays + 1
  /\ received' \in Later \cup {0}
  /\ count' = count + 1
  /\ UNCHANGED <<next, last, overflows>>

Next == HandOver \/ Overflow \/ Deliver \/ Stray

Spec == Init /\ [][Next]_<<next, last, received, count, strays, overflows>>
=============================================================================
