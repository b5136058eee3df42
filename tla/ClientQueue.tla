------------------------------ MODULE ClientQueue ------------------------------
(***************************************************************************)
(* cClient (client.c): the send queue between main, which calls            *)
(* sendmessage, and the client thread, whose Body connects to the server   *)
(* and empties the queue.  SendQueue is a std::queue that no lock          *)
(* protects, so the steps of the two threads interleave.                   *)
(*                                                                         *)
(* Messages are numbered in the order main pushes them.  Only the front is *)
(* ever removed, so the queue is the interval head..tail-1.                *)
(*                                                                         *)
(* A message too large for the caller's buffer comes with the length -1:   *)
(* so GetBuffer reports its error (mttp.c:237-241), SendMem hands the      *)
(* result on (tracerclient.c:1133, 1155), and sendmessage refuses only     *)
(* lengths that are too large (client.c:176).                              *)
(*                                                                         *)
(* One assumption on time: the client thread sleeps half a second after    *)
(* each message (client.c:258) and a call of sendmessage takes less, so no *)
(* call sees the thread wake up twice.                                     *)
(***************************************************************************)
EXTENDS Naturals

CONSTANTS
  MAXSENDQUEUE,  \* 50 in client.h
  MaxMessages,   \* bound: messages main hands over
  MaxFaults      \* bound: connections that break

ASSUME QueueAssumption ==
  /\ MAXSENDQUEUE \in Nat /\ MAXSENDQUEUE >= 2
  /\ MaxMessages \in Nat /\ MaxFaults \in Nat

VARIABLES
  head, tail,  \* SendQueue holds the messages head..tail-1
  mpc,         \* where main is in sendmessage
  cpc,         \* where the client thread is in Body
  long,        \* the messages pushed with the length -1
  sending,     \* the message whose bytes are handed to ::send
  link,        \* the TCP connection, see LinkStates
  quiet,       \* more than CONNECTTIMEOUT seconds since LastServerMessage
  faults,      \* connections broken so far
  process,     \* "running", "killed" by SIGPIPE, or "broken" by a data race
  last,        \* history: last message delivered in its turn
  received,    \* history: what the server received last, 0 for rubbish
  delivered,   \* history: how often ::send has reached the server
  evicted,     \* history: messages main has removed unsent from a full queue
  skipped,     \* history: messages the thread has removed without sending them
  strays       \* history: how often it sent from memory main had freed

server == <<last, received, delivered, strays>>
thread == <<cpc, sending, link, quiet, skipped, server>>
vars == <<head, tail, long, mpc, thread, faults, process, evicted>>

\* "none": connected is false; "closed": the server has closed its end;
\* "lost": its host is gone; "reset": sending raises SIGPIPE.
LinkStates == {"none", "up", "closed", "lost", "reset"}

Init ==
  /\ head = 1 /\ tail = 1 /\ long = {}
  /\ mpc = "idle" /\ cpc = "top" /\ sending = 0
  /\ link = "none" /\ quiet = FALSE
  /\ faults = 0 /\ process = "running"
  /\ last = 0 /\ received = 0 /\ delivered = 0 /\ strays = 0
  /\ evicted = 0 /\ skipped = 0

Running == process = "running"

-----------------------------------------------------------------------------
(* main: sendmessage.                                                      *)

\* The size test.
CallSendmessage ==
  /\ Running /\ mpc = "idle" /\ tail <= MaxMessages
  /\ mpc' = IF tail - head >= MAXSENDQUEUE THEN "evict" ELSE "push"
  /\ UNCHANGED <<head, tail, long, thread, faults, process, evicted>>

\* Deleting old Message.
Evict ==
  /\ Running /\ mpc = "evict"
  /\ head' = head + 1 /\ evicted' = evicted + 1
  /\ mpc' = "push"
  /\ UNCHANGED <<tail, long, thread, faults, process>>

\* The message may be one of length -1: its bytes are not copied, but it is
\* pushed, and sendmessage returns -1.
Push ==
  /\ Running /\ mpc = "push"
  /\ tail' = tail + 1 /\ long' \in {long, long \cup {tail}}
  /\ mpc' = "idle"
  /\ UNCHANGED <<head, thread, faults, process, evicted>>

-----------------------------------------------------------------------------
(* The client thread: Body.                                                *)

Thread(from) ==
  Running /\ cpc = from /\ UNCHANGED <<tail, long, mpc, faults, evicted>>

Die == process' = "killed" /\ UNCHANGED <<cpc, link, quiet>>

\* settimeout(false): after a long silence, a heartbeat on an open connection.
Heartbeat ==
  /\ Thread("top") /\ quiet /\ link # "none"
  /\ \/ link = "up" /\ cpc' = "drain" /\ quiet' = FALSE /\ UNCHANGED <<link, process>>
     \/ link = "closed" /\ link' = "reset" /\ cpc' = "drain" /\ quiet' = FALSE
          /\ UNCHANGED process
     \/ link = "lost" /\ cpc' = "drain" /\ quiet' = FALSE /\ UNCHANGED <<link, process>>
     \* the heartbeat fails: needreconnect, closeconnection
     \/ link = "lost" /\ link' = "none" /\ UNCHANGED <<cpc, quiet, process>>
     \/ link = "reset" /\ Die
  /\ UNCHANGED <<head, sending, skipped, server>>

StayConnected ==
  /\ Thread("top") /\ ~quiet /\ link # "none"
  /\ cpc' = "drain"
  /\ UNCHANGED <<head, sending, link, quiet, process, skipped, server>>

\* connect(), tried at most every 30 seconds; a refusal leaves all as it is.
Connect ==
  /\ Thread("top") /\ link = "none"
  /\ link' = "up" /\ quiet' = FALSE /\ cpc' = "drain"
  /\ UNCHANGED <<head, sending, process, skipped, server>>

\* Broken variant: do ... while, the test comes after the first pop.
DrainUntested ==
  /\ Thread("drain")
  /\ \/ head \notin long /\ sending' = head /\ cpc' = "send"
     \/ (head = tail \/ head \in long) /\ cpc' = "select" /\ UNCHANGED sending
  /\ UNCHANGED <<head, link, quiet, process, skipped, server>>

\* Broken variant: back() is sent and the front is popped.
DrainBack ==
  /\ Thread("drain")
  /\ \/ head < tail /\ tail - 1 \notin long /\ sending' = tail - 1 /\ cpc' = "send"
     \/ (head = tail \/ tail - 1 \in long) /\ cpc' = "select" /\ UNCHANGED sending
  /\ UNCHANGED <<head, link, quiet, process, skipped, server>>

\* while (!SendQueue.empty()): take the address of the front, or go on.  With
\* the length -1 send() has nothing to do and returns 0, which ends the loop:
\* the message stays in front.
Drain ==
  /\ Thread("drain")
  /\ \/ head < tail /\ head \notin long /\ sending' = head /\ cpc' = "send"
     \/ (head = tail \/ head \in long) /\ cpc' = "select" /\ UNCHANGED sending
  /\ UNCHANGED <<head, link, quiet, process, skipped, server>>

Received(m) == received' = m /\ delivered' = delivered + 1

\* Broken variant: the message that was sent is not popped.
SendDeliversAndKeeps ==
  /\ Thread("send") /\ link = "up"
  /\ cpc' = "sleep" /\ Received(sending) /\ last' = sending
  /\ UNCHANGED <<head, sending, link, quiet, process, skipped, strays>>

\* A std::deque gives each of these large messages memory of its own.  When
\* main has evicted the message being sent, its memory may hold a message that
\* was pushed later, whole, or anything: at the earliest the message that took
\* its place in the full queue.
SuccessorsOf(m) == {n \in (m + MAXSENDQUEUE)..(tail - 1) : n \notin long}

\* ::send on a live connection.
SendDelivers ==
  /\ Thread("send") /\ link = "up"
  /\ cpc' = "pop"
  /\ \/ Received(sending) /\ last' = sending /\ UNCHANGED strays
     \/ /\ head > sending
        /\ \E m \in SuccessorsOf(sending) \cup {0} : Received(m)
        /\ strays' = strays + 1 /\ UNCHANGED last
  /\ UNCHANGED <<head, sending, link, quiet, process, skipped>>

\* ::send accepts bytes that nobody will read.
SendUnheard ==
  /\ Thread("send") /\ link \in {"closed", "lost"}
  /\ cpc' = "pop"
  /\ link' = IF link = "closed" THEN "reset" ELSE link
  /\ UNCHANGED <<head, sending, quiet, process, skipped, server>>

\* ::send returns an error: the message stays in the queue.
SendFails ==
  /\ Thread("send") /\ link = "lost"
  /\ cpc' = "select" /\ link' = "reset"
  /\ UNCHANGED <<head, sending, quiet, process, skipped, server>>

\* ::send on a connection that was reset: SIGPIPE, which nobody handles.
SendKilled ==
  /\ Thread("send") /\ link = "reset"
  /\ Die
  /\ UNCHANGED <<head, sending, skipped, server>>

\* Broken variant: settimeout(true) is called and pop() forgotten.
PopForgotten ==
  /\ Thread("pop")
  /\ quiet' = FALSE /\ cpc' = "sleep"
  /\ UNCHANGED <<head, sending, link, process, skipped, server>>

\* SendQueue.pop(), settimeout(true): what stands in front is removed, whether
\* it is the message that was sent or one that has taken its place.
Pop ==
  /\ Thread("pop")
  /\ head' = head + 1
  /\ skipped' = IF head = sending THEN skipped ELSE skipped + 1
  /\ quiet' = FALSE /\ cpc' = "sleep"
  /\ UNCHANGED <<sending, link, process, server>>

\* usleep(500000): a call of sendmessage that is under way ends before.
Sleep ==
  /\ Thread("sleep") /\ mpc = "idle"
  /\ cpc' = "drain"
  /\ UNCHANGED <<head, sending, link, quiet, process, skipped, server>>

\* select and recv: nothing, a message of the server, or the end of the link.
Select ==
  /\ Thread("select")
  /\ cpc' = "top"
  /\ \/ link \in {"up", "lost"} /\ UNCHANGED <<link, quiet>>
     \/ link = "up" /\ quiet' = FALSE /\ UNCHANGED link
     \/ link \in {"closed", "reset"} /\ link' = "none" /\ UNCHANGED quiet
  /\ UNCHANGED <<head, sending, process, skipped, server>>

Send == SendDelivers \/ SendUnheard \/ SendFails \/ SendKilled
Body == Heartbeat \/ StayConnected \/ Drain \/ Send \/ Pop \/ Sleep \/ Select

-----------------------------------------------------------------------------
(* The environment.                                                        *)

\* The server closes the connection, or its host or network goes away.
BreakLink ==
  /\ Running /\ link = "up" /\ faults < MaxFaults
  /\ link' \in {"closed", "lost"} /\ faults' = faults + 1
  /\ UNCHANGED <<head, tail, long, mpc, cpc, sending, quiet, process, evicted,
                 skipped, server>>

Silence ==
  /\ Running /\ quiet' = TRUE
  /\ UNCHANGED <<head, tail, long, mpc, cpc, sending, link, faults, process, evicted,
                 skipped, server>>

\* Both threads inside an operation of the queue at once: a data race.
Race ==
  /\ Running /\ mpc \in {"evict", "push"} /\ cpc = "pop"
  /\ process' = "broken"
  /\ UNCHANGED <<head, tail, long, mpc, thread, faults, evicted>>

Next ==
  \/ CallSendmessage \/ Evict \/ Push
  \/ Body \/ Connect
  \/ BreakLink \/ Silence \/ Race

Spec == Init /\ [][Next]_vars

\* Both threads run; the server, asked again and again, accepts at some time.
Fairness ==
  /\ WF_vars(Evict \/ Push)
  /\ WF_vars(Body)
  /\ WF_vars(Connect)
FairSpec == Spec /\ Fairness

-----------------------------------------------------------------------------
(* Properties.                                                             *)

TypeOK ==
  /\ tail \in Nat /\ head \in 1..tail
  /\ long \subseteq 1..(tail - 1)
  /\ sending \in Nat /\ faults \in 0..MaxFaults
  /\ mpc \in {"idle", "evict", "push"}
  /\ cpc \in {"top", "drain", "send", "pop", "sleep", "select"}
  /\ link \in LinkStates /\ quiet \in BOOLEAN
  /\ process \in {"running", "killed", "broken"}
  /\ last \in Nat /\ received \in Nat /\ delivered \in Nat /\ strays \in Nat
  /\ evicted \in Nat /\ skipped \in Nat

\* The queue never holds more than MAXSENDQUEUE messages although the size test
\* of sendmessage and the push it guards are separate steps (client.c:190-195).
QueueBounded == tail - head <= MAXSENDQUEUE

\* Neither thread pops an empty queue, although each tests the size long before
\* it pops and the other pops in between (client.c:190-193, 250-256).
NoEmptyPop == mpc = "evict" \/ cpc = "pop" => head < tail

\* An unsent message leaves the queue by the thread's own pop, or ::send reads
\* memory that is no longer the front's, only because main has evicted a message
\* from a full queue (client.c:193 against client.c:251-256).
LossNeedsEviction == skipped <= evicted /\ strays <= evicted

\* As long as the queue does not overflow no message reaches the server twice
\* or out of order, whatever connections break.  Each message main evicts may
\* cost one stray, sent ahead of its turn and perhaps again in its turn.
Channel == INSTANCE OverflowingFifo
             WITH next <- tail, count <- delivered, overflows <- evicted
OverflowingChannel == Channel!Spec

\* When main has handed over its last message the queue is emptied some day,
\* however often the connection breaks, unless the process dies or a message of
\* length -1 comes to the front: there it stays, with all that is behind it,
\* until the queue is full and newer ones push it out.
EventuallyDrained ==
  (tail > MaxMessages) ~> (head = tail \/ head \in long \/ ~Running)
=============================================================================
