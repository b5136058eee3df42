--------------------------- MODULE ClientQueueProofs ---------------------------
(***************************************************************************)
(* Proofs about ClientQueue for every queue length of two or more, every   *)
(* number of messages and every number of broken connections.              *)
(*                                                                         *)
(* One inductive invariant serves all theorems.  Its heart is Evicting:    *)
(* main pops on the strength of an old size test, and the client thread    *)
(* may pop once in between.  After that pop the thread sleeps until main   *)
(* is done, so a queue that was full still holds MAXSENDQUEUE - 1 >= 1.    *)
(***************************************************************************)
EXTENDS ClientQueue, TLAPS

\* A full queue at the size test is still full, or one message short when the
\* thread has popped meanwhile and sleeps; there is room for a push.
Evicting ==
  /\ mpc = "evict" => tail - head >= MAXSENDQUEUE - 1
  /\ mpc = "evict" /\ cpc # "sleep" => tail - head >= MAXSENDQUEUE
  /\ mpc = "push" => tail - head < MAXSENDQUEUE

\* Between the test of the loop and the pop the queue is not empty, and the
\* message that is being sent is the front or has been evicted.
Sending == cpc \in {"send", "pop"} => head < tail /\ sending <= head

\* Every loss is paid for by an eviction, also the one that is about to happen.
Accounting ==
  /\ skipped <= evicted /\ strays <= evicted
  /\ cpc \in {"send", "pop"} /\ sending < head => skipped < evicted
  /\ cpc = "send" /\ sending < head => strays < evicted

\* What is delivered next is newer than everything delivered before.
Progressing ==
  /\ cpc \notin {"send", "pop"} => last < head
  /\ cpc = "send" => last < sending
  /\ cpc = "pop" => last <= sending

IInv == TypeOK /\ QueueBounded /\ Evicting /\ Sending /\ Accounting /\ Progressing

-----------------------------------------------------------------------------
(* Types.                                                                  *)

\* Init satisfies the type invariant.
LEMMA InitTypeOK == Init => TypeOK
<1> SUFFICES ASSUME Init PROVE TypeOK
  OBVIOUS
<1>1. quiet \in BOOLEAN
  BY DEF Init
<1> QED BY <1>1, QueueAssumption DEF Init, TypeOK, LinkStates

\* The steps of main preserve the type invariant.
LEMMA MainTypeOK ==
  ASSUME TypeOK, Evicting, CallSendmessage \/ Evict \/ Push
  PROVE  TypeOK'
<1>1. CASE CallSendmessage
  BY <1>1 DEF TypeOK, CallSendmessage, server, thread
<1>2. CASE Evict
  <2>1. head' \in 1..tail
    BY <1>2, QueueAssumption DEF TypeOK, Evict, Evicting
  <2> QED BY <1>2, <2>1 DEF TypeOK, Evict, server, thread
<1>3. CASE Push
  <2>1. long' \subseteq 1..(tail' - 1)
    <3>1. tail' = tail + 1 /\ long' \subseteq long \cup {tail}
      BY <1>3 DEF Push
    <3>2. tail \in Nat /\ tail >= 1 /\ long \subseteq 1..(tail - 1)
      BY DEF TypeOK
    <3> QED BY <3>1, <3>2
  <2>2. tail' \in Nat /\ head' \in 1..tail'
    BY <1>3 DEF TypeOK, Push
  <2>3. /\ mpc' = "idle"
        /\ UNCHANGED <<cpc, sending, link, quiet, faults, process, last, received,
                       delivered, strays, evicted, skipped>>
    BY <1>3 DEF Push, thread, server
  <2> QED BY <2>1, <2>2, <2>3 DEF TypeOK
<1> QED BY <1>1, <1>2, <1>3

\* The steps of the client thread preserve the type invariant.
LEMMA ThreadTypeOK ==
  ASSUME TypeOK, Sending, Body \/ Connect
  PROVE  TypeOK'
<1>1. CASE Heartbeat
  BY <1>1 DEF TypeOK, Heartbeat, server, Thread, Running, Die, LinkStates
<1>2. CASE StayConnected
  BY <1>2 DEF TypeOK, StayConnected, server, Thread, Running
<1>3. CASE Connect
  BY <1>3 DEF TypeOK, Connect, server, Thread, Running, LinkStates
<1>4. CASE Drain
  BY <1>4 DEF TypeOK, Drain, server, Thread, Running
<1>5. CASE SendDelivers
  <2>1. SuccessorsOf(sending) \cup {0} \subseteq Nat
    BY QueueAssumption DEF TypeOK, SuccessorsOf
  <2>2. received' \in Nat /\ delivered' \in Nat /\ strays' \in Nat /\ last' \in Nat
    BY <1>5, <2>1 DEF TypeOK, SendDelivers, Received
  <2> QED BY <1>5, <2>2 DEF TypeOK, SendDelivers, Thread, Running
<1>6. CASE SendUnheard
  BY <1>6 DEF TypeOK, SendUnheard, server, Thread, Running, LinkStates
<1>7. CASE SendFails
  BY <1>7 DEF TypeOK, SendFails, server, Thread, Running, LinkStates
<1>8. CASE SendKilled
  BY <1>8 DEF TypeOK, SendKilled, server, Thread, Running, Die
<1>9. CASE Pop
  <2>1. skipped' \in Nat
    BY <1>9 DEF TypeOK, Pop
  <2>2. quiet' \in BOOLEAN
    BY <1>9 DEF Pop
  <2>3. head' \in 1..tail
    BY <1>9 DEF TypeOK, Pop, server, Thread, Sending
  <2> QED BY <1>9, <2>1, <2>2, <2>3 DEF TypeOK, Pop, server, Thread, Running
<1>10. CASE Sleep
  BY <1>10 DEF TypeOK, Sleep, server, Thread, Running
<1>11. CASE Select
  BY <1>11 DEF TypeOK, Select, server, Thread, Running, LinkStates
<1> QED
  BY <1>1, <1>2, <1>3, <1>4, <1>5, <1>6, <1>7, <1>8, <1>9, <1>10, <1>11
     DEF Body, Send

\* The steps of the environment preserve the type invariant.
LEMMA EnvironmentTypeOK ==
  ASSUME TypeOK, BreakLink \/ Silence \/ Race
  PROVE  TypeOK'
<1>1. CASE BreakLink
  BY <1>1, QueueAssumption DEF TypeOK, BreakLink, server, LinkStates
<1>2. CASE Silence
  BY <1>2 DEF TypeOK, Silence, server
<1>3. CASE Race
  BY <1>3 DEF TypeOK, Race, server, thread
<1> QED BY <1>1, <1>2, <1>3

-----------------------------------------------------------------------------
(* The conjuncts of IInv about the queue, without the type invariant.      *)

Core == QueueBounded /\ Evicting /\ Sending /\ Accounting /\ Progressing

\* The steps of main preserve what IInv says of the queue.
LEMMA MainCore ==
  ASSUME TypeOK, Core, CallSendmessage \/ Evict \/ Push
  PROVE  Core'
<1> USE QueueAssumption
<1> USE DEF thread, server
<1>1. CASE CallSendmessage
  BY <1>1 DEF TypeOK, CallSendmessage, Core, QueueBounded, Evicting, Sending,
              Accounting, Progressing
<1>2. CASE Evict
  <2>1. QueueBounded' /\ Evicting' /\ Sending'
    BY <1>2 DEF TypeOK, Evict, Core, QueueBounded, Evicting, Sending
  <2>2. Accounting'
    BY <1>2 DEF TypeOK, Evict, Core, Accounting
  <2>3. Progressing'
    BY <1>2 DEF TypeOK, Evict, Core, Progressing
  <2> QED BY <2>1, <2>2, <2>3 DEF Core
<1>3. CASE Push
  BY <1>3 DEF TypeOK, Push, Core, QueueBounded, Evicting, Sending, Accounting,
              Progressing
<1> QED BY <1>1, <1>2, <1>3

\* The steps of the client thread that leave the queue and the message being
\* sent alone, and end outside send and pop, preserve it too.
LEMMA QuietCore ==
  ASSUME TypeOK, Core,
         cpc \notin {"send", "pop", "sleep"}, cpc' \notin {"send", "pop"},
         UNCHANGED <<head, tail, mpc, sending, skipped, server, evicted>>
  PROVE  Core'
BY DEF TypeOK, server, Core, QueueBounded, Evicting, Sending, Accounting, Progressing

\* The steps of the client thread preserve what IInv says of the queue.
LEMMA ThreadCore ==
  ASSUME TypeOK, Core, Body \/ Connect
  PROVE  Core'
<1> USE QueueAssumption
<1>1. CASE Heartbeat
  BY <1>1, QuietCore DEF Heartbeat, server, Thread, Die
<1>2. CASE StayConnected
  BY <1>2, QuietCore DEF StayConnected, server, Thread
<1>3. CASE Connect
  BY <1>3, QuietCore DEF Connect, server, Thread
<1>4. CASE Drain
  BY <1>4 DEF TypeOK, Drain, server, Thread, Core, QueueBounded, Evicting, Sending,
              Accounting, Progressing
<1>5. CASE SendDelivers
  BY <1>5 DEF TypeOK, SendDelivers, Received, server, Thread, Core, QueueBounded, Evicting, Sending,
              Accounting, Progressing
<1>6. CASE SendUnheard
  BY <1>6 DEF TypeOK, SendUnheard, server, Thread, Core, QueueBounded, Evicting, Sending,
              Accounting, Progressing
<1>7. CASE SendFails
  BY <1>7 DEF TypeOK, SendFails, server, Thread, Core, QueueBounded, Evicting, Sending,
              Accounting, Progressing
<1>8. CASE SendKilled
  BY <1>8 DEF TypeOK, SendKilled, server, Thread, Die, Core, QueueBounded, Evicting, Sending,
              Accounting, Progressing
<1>9. CASE Pop
  <2>1. QueueBounded' /\ Evicting' /\ Sending'
    BY <1>9 DEF TypeOK, Pop, server, Thread, Core, QueueBounded, Evicting, Sending
  <2>2. Accounting'
    BY <1>9 DEF TypeOK, Pop, server, Thread, Core, Accounting, Sending
  <2>3. Progressing'
    BY <1>9 DEF TypeOK, Pop, server, Thread, Core, Progressing, Sending
  <2> QED BY <2>1, <2>2, <2>3 DEF Core
<1>10. CASE Sleep
  BY <1>10 DEF TypeOK, Sleep, server, Thread, Core, QueueBounded, Evicting, Sending,
              Accounting, Progressing
<1>11. CASE Select
  BY <1>11, QuietCore DEF Select, server, Thread
<1> QED
  BY <1>1, <1>2, <1>3, <1>4, <1>5, <1>6, <1>7, <1>8, <1>9, <1>10, <1>11
     DEF Body, Send

\* The steps of the environment preserve what IInv says of the queue.
LEMMA EnvironmentCore ==
  ASSUME Core, BreakLink \/ Silence \/ Race
  PROVE  Core'
BY DEF BreakLink, Silence, Race, server, thread, Core, QueueBounded, Evicting, Sending,
       Accounting, Progressing

\* IInv is inductive.
LEMMA Inductive == IInv /\ [Next]_vars => IInv'
<1> SUFFICES ASSUME IInv, [Next]_vars PROVE IInv'
  OBVIOUS
<1>0. TypeOK /\ Core
  BY DEF IInv, Core
<1>1. CASE CallSendmessage \/ Evict \/ Push
  BY <1>0, <1>1, MainTypeOK, MainCore DEF IInv, Core
<1>2. CASE Body \/ Connect
  BY <1>0, <1>2, ThreadTypeOK, ThreadCore DEF IInv, Core
<1>3. CASE BreakLink \/ Silence \/ Race
  BY <1>0, <1>3, EnvironmentTypeOK, EnvironmentCore DEF IInv, Core
<1>4. CASE UNCHANGED vars
  BY <1>4 DEF vars, server, thread, IInv, TypeOK, QueueBounded, Evicting, Sending,
              Accounting, Progressing
<1> QED BY <1>1, <1>2, <1>3, <1>4 DEF Next

\* IInv holds initially.
LEMMA Initially == Init => IInv
<1> SUFFICES ASSUME Init PROVE IInv
  OBVIOUS
<1>1. TypeOK
  BY InitTypeOK
<1>2. QueueBounded /\ Evicting /\ Sending /\ Accounting /\ Progressing
  BY QueueAssumption DEF Init, QueueBounded, Evicting, Sending, Accounting, Progressing
<1> QED BY <1>1, <1>2 DEF IInv

\* IInv is an invariant of the two threads.
LEMMA Invariance == Spec => []IInv
BY Initially, Inductive, PTL DEF Spec

-----------------------------------------------------------------------------
(* The theorems.                                                           *)

\* Every variable of the two threads keeps its type.
THEOREM TypeCorrect == Spec => []TypeOK
<1>1. IInv => TypeOK
  BY DEF IInv
<1> QED BY <1>1, Invariance, PTL

\* The send queue never holds more than MAXSENDQUEUE messages.
THEOREM Bounded == Spec => []QueueBounded
<1>1. IInv => QueueBounded
  BY DEF IInv
<1> QED BY <1>1, Invariance, PTL

\* Neither sendmessage nor Body ever pops an empty queue.
THEOREM PopsNonEmpty == Spec => []NoEmptyPop
<1>1. IInv => NoEmptyPop
  BY QueueAssumption DEF IInv, TypeOK, Evicting, Sending, NoEmptyPop
<1> QED BY <1>1, Invariance, PTL

\* As long as the queue never overflows no message is lost unsent or strays.
THEOREM LossBounded == Spec => []LossNeedsEviction
<1>1. IInv => LossNeedsEviction
  BY DEF IInv, Accounting, LossNeedsEviction
<1> QED BY <1>1, Invariance, PTL

\* The client implements the channel that is in order but for one stray per
\* overflow: without overflows nothing arrives twice or out of order.
THEOREM Implements == Spec => OverflowingChannel
<1> DEFINE abstract == <<tail, last, received, delivered, strays, evicted>>
<1>1. Init => Channel!Init
  BY DEF Init, Channel!Init
<1>2. IInv /\ [Next]_vars => [Channel!Next]_abstract
  <2> SUFFICES ASSUME IInv, [Next]_vars PROVE [Channel!Next]_abstract
    OBVIOUS
  <2>1. CASE Push
    BY <2>1 DEF Push, thread, server, Channel!Next, Channel!HandOver
  <2>2. CASE Evict
    BY <2>2 DEF Evict, thread, server, Channel!Next, Channel!Overflow
  <2>3. CASE SendDelivers
    <3>1. cpc = "send" /\ UNCHANGED <<tail, evicted>>
      BY <2>3 DEF SendDelivers, Thread
    <3>2. sending \in Channel!Later
      BY <3>1 DEF IInv, TypeOK, Sending, Progressing, Channel!Later
    <3>3. CASE Received(sending) /\ last' = sending /\ UNCHANGED strays
      BY <3>1, <3>2, <3>3 DEF Received, Channel!Next, Channel!Deliver
    <3>4. CASE /\ head > sending
               /\ \E m \in SuccessorsOf(sending) \cup {0} : Received(m)
               /\ strays' = strays + 1 /\ UNCHANGED last
      <4>1. SuccessorsOf(sending) \subseteq Channel!Later
        BY <3>1, QueueAssumption
           DEF IInv, TypeOK, Progressing, SuccessorsOf, Channel!Later
      <4>2. strays < evicted
        BY <3>1, <3>4 DEF IInv, TypeOK, Accounting
      <4> QED BY <3>1, <3>4, <4>1, <4>2 DEF Received, Channel!Next, Channel!Stray
    <3> QED BY <2>3, <3>3, <3>4 DEF SendDelivers
  <2>4. CASE CallSendmessage
    BY <2>4 DEF CallSendmessage, thread, server
  <2>5. CASE Body /\ ~SendDelivers
    BY <2>5 DEF Body, Send, Heartbeat, StayConnected, Drain, SendUnheard, SendFails,
                SendKilled, Pop, Sleep, Select, Thread, server
  <2>6. CASE Connect \/ BreakLink \/ Silence \/ Race \/ UNCHANGED vars
    BY <2>6 DEF Connect, BreakLink, Silence, Race, Thread, thread, server, vars
  <2> QED BY <2>1, <2>2, <2>3, <2>4, <2>5, <2>6 DEF Next
<1> QED BY <1>1, <1>2, Invariance, PTL DEF Spec, OverflowingChannel, Channel!Spec
=============================================================================
