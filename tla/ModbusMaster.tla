----------------------------- MODULE ModbusMaster -----------------------------
(***************************************************************************)
(* cModbus as the master of the serial line (SendRequest and Receive of    *)
(* modbus.c) under modbus_send_request of cTracerCtr, which serialises the *)
(* requests with modbus_mtx and reopens the line after an error.           *)
(*                                                                         *)
(* Requests are numbered in the order they are sent.  The controller       *)
(* answers them in order, late or never.  Bytes are abstracted to pieces:  *)
(* a whole answer, its first or its second part, or junk.  The checksum    *)
(* rejects all but the pieces of exactly one answer.  Nothing in an answer *)
(* tells which request it belongs to.                                      *)
(***************************************************************************)
EXTENDS Naturals, Sequences

CONSTANTS
  MaxRequests,  \* bound: requests the threads of the client make
  MaxFaults,    \* bound: split or garbled answers, junk, failures of the device
  MaxRetries    \* attempts to reopen the device, 20 in tracerctr.c

ASSUME MasterAssumption ==
  MaxRequests \in Nat /\ MaxFaults \in Nat /\ MaxRetries \in Nat \ {0}

VARIABLES
  pc,        \* where the caller that holds modbus_mtx is
  sent,      \* number of the present, or last, request
  pending,   \* the requests the controller has received and may answer
  answered,  \* number of the last request it has begun to answer
  rest,      \* the answer whose second part is still to come, or 0
  input,     \* the input buffer of the serial device: unread pieces
  gap,       \* "broken": the first unread piece came more than T1_5 after the
             \* last, yet before T3_5; else "none"
  frame,     \* the pieces in read_buffer
  retry,     \* failed attempts to reopen the device
  response,  \* the answer SendRequest has returned, 0 for none
  last,      \* history: last answer returned
  failed,    \* history: requests that ended without an answer
  faults     \* faults so far

line == <<pending, answered, rest>>
vars == <<pc, sent, line, input, gap, frame, retry, response, last, failed, faults>>

Pieces == [of : 0..MaxRequests, part : {"whole", "first", "second", "junk"}]

Init ==
  /\ pc = "idle" /\ sent = 0
  /\ pending = {} /\ answered = 0 /\ rest = 0
  /\ input = <<>> /\ gap = "none" /\ frame = <<>> /\ retry = 0
  /\ response = 0 /\ last = 0 /\ failed = 0 /\ faults = 0

-----------------------------------------------------------------------------
(* The controller and the line.                                            *)

\* Bytes arrive: with frame pending and nothing unread they may come so late
\* that the frame counts as broken and yet before the silence that ends it.
Arrive(piece) ==
  /\ input' = Append(input, piece)
  /\ \/ UNCHANGED gap
     \/ pc = "processing" /\ input = <<>> /\ gap' = "broken"
  /\ UNCHANGED <<pc, sent, frame, retry, response, last, failed>>

Fault == faults < MaxFaults /\ faults' = faults + 1

\* The controller answers a request it has received; those it skips it ignores.
Answer ==
  /\ rest = 0
  /\ \E n \in pending :
       /\ answered' = n /\ pending' = {m \in pending : m > n}
       /\ \/ Arrive([of |-> n, part |-> "whole"]) /\ UNCHANGED <<rest, faults>>
          \/ Arrive([of |-> n, part |-> "junk"]) /\ Fault /\ UNCHANGED rest
          \/ Arrive([of |-> n, part |-> "first"]) /\ Fault /\ rest' = n

AnswerRest ==
  /\ rest # 0
  /\ Arrive([of |-> rest, part |-> "second"])
  /\ rest' = 0 /\ UNCHANGED <<pending, answered, faults>>

Noise ==
  /\ Fault /\ Arrive([of |-> answered, part |-> "junk"])
  /\ UNCHANGED line

-----------------------------------------------------------------------------
(* SendRequest and Receive.                                                *)

\* modbus_send_request takes the lock and calls SendRequest with a request that
\* fits a frame; others are refused before anything is sent.
Call ==
  /\ pc = "idle" /\ sent < MaxRequests
  /\ sent' = sent + 1
  /\ pc' = "write" /\ response' = 0 /\ frame' = <<>>
  /\ UNCHANGED <<line, input, gap, retry, last, failed, faults>>

Return(n) ==
  /\ pc' = "idle" /\ response' = n
  /\ IF n = 0 THEN failed' = failed + 1 /\ UNCHANGED last
              ELSE last' = n /\ UNCHANGED failed
  /\ UNCHANGED <<sent, line, retry, faults>>

\* Nothing unread is dropped before the request goes out.
Write ==
  /\ pc = "write"
  /\ pending' = pending \cup {sent} /\ pc' = "wait"
  /\ UNCHANGED <<sent, answered, rest, input, gap, frame, retry, response, last,
                 failed, faults>>

\* select, read or write fails: SendRequest returns -1.
DeviceFails ==
  /\ pc \in {"write", "wait", "processing", "initial"}
  /\ Fault
  /\ pc' = "reconnect" /\ retry' = 0
  /\ UNCHANGED <<sent, line, input, gap, frame, response, last, failed>>

\* State idle: the first byte starts a frame, whoever sent it and whenever.
FirstByte ==
  /\ pc = "wait" /\ input # <<>>
  /\ frame' = <<Head(input)>> /\ input' = Tail(input)
  /\ pc' = "processing" /\ gap' = "none"
  /\ UNCHANGED <<sent, line, retry, response, last, failed, faults>>

\* Broken variant: select without a time limit.
TimeoutNever == pc = "wait" /\ input = <<>> /\ UNCHANGED vars

\* Broken variant: on a timeout the length of the old answer is returned.
TimeoutReturnsOld ==
  pc = "wait" /\ input = <<>> /\ Return(last) /\ UNCHANGED <<input, gap, frame>>

\* State idle: five seconds without a byte.
Timeout == pc = "wait" /\ input = <<>> /\ Return(0) /\ UNCHANGED <<input, gap, frame>>

\* State processing: the next byte follows within T1_5.
NextByte ==
  /\ pc = "processing" /\ input # <<>> /\ gap = "none"
  /\ frame' = Append(frame, Head(input)) /\ input' = Tail(input)
  /\ UNCHANGED <<pc, sent, line, gap, retry, response, last, failed, faults>>

\* State processing: it comes later than that.
Break ==
  /\ pc = "processing" /\ input # <<>> /\ gap = "broken"
  /\ frame' = <<>> /\ gap' = "none" /\ pc' = "initial"
  /\ UNCHANGED <<sent, line, input, retry, response, last, failed, faults>>

\* State initial: bytes are discarded ...
Discard ==
  /\ pc = "initial" /\ input # <<>>
  /\ input' = Tail(input)
  /\ UNCHANGED <<pc, sent, line, gap, frame, retry, response, last, failed, faults>>

\* ... until the line is silent for T3_5.
Silent ==
  /\ pc = "initial" /\ input = <<>>
  /\ pc' = "wait"
  /\ UNCHANGED <<sent, line, input, gap, frame, retry, response, last, failed, faults>>

\* Broken variant: the checksum is not compared.
CheckedNot(f) == IF f = <<>> THEN 0 ELSE f[1].of

\* The answer a frame holds; 0 when the length, the slave or the checksum is wrong.
Checked(f) ==
  IF \/ Len(f) = 1 /\ f[1].part = "whole"
     \/ Len(f) = 2 /\ f[1].part = "first" /\ f[2].part = "second" /\ f[1].of = f[2].of
  THEN f[1].of ELSE 0

\* State processing: T3_5 of silence ends the frame.
EndOfFrame ==
  /\ pc = "processing" /\ input = <<>>
  /\ Return(Checked(frame))
  /\ frame' = <<>> /\ UNCHANGED <<input, gap>>

Receive == FirstByte \/ Timeout \/ NextByte \/ Break \/ Discard \/ Silent \/ EndOfFrame

-----------------------------------------------------------------------------
(* modbus_send_request after an error.                                     *)

\* Disconnect, Connect: opening the device flushes its buffers.
Reconnect ==
  /\ pc = "reconnect" /\ retry < MaxRetries
  /\ Return(0)
  /\ input' = <<>> /\ gap' = "none" /\ frame' = <<>>

\* Broken variant: one attempt too many.
ReconnectFailsOnceMore ==
  /\ pc = "reconnect" /\ retry <= MaxRetries /\ Fault
  /\ retry' = retry + 1
  /\ UNCHANGED <<pc, sent, line, input, gap, frame, response, last, failed>>

ReconnectFails ==
  /\ pc = "reconnect" /\ retry < MaxRetries /\ Fault
  /\ retry' = retry + 1
  /\ UNCHANGED <<pc, sent, line, input, gap, frame, response, last, failed>>

Exit ==
  /\ pc = "reconnect" /\ retry = MaxRetries
  /\ pc' = "exited"
  /\ UNCHANGED <<sent, line, input, gap, frame, retry, response, last, failed, faults>>

Caller == Write \/ Receive \/ Reconnect \/ ReconnectFails \/ Exit

Next ==
  \/ Call \/ Caller \/ DeviceFails
  \/ Answer \/ AnswerRest \/ Noise

Spec == Init /\ [][Next]_vars

\* The thread that holds the lock runs, and select keeps its time limits.
FairSpec == Spec /\ WF_vars(Caller)

-----------------------------------------------------------------------------
(* Properties.                                                             *)

TypeOK ==
  /\ pc \in {"idle", "write", "wait", "processing", "initial", "reconnect", "exited"}
  /\ sent \in 0..MaxRequests /\ pending \subseteq 1..sent /\ answered \in 0..sent
  /\ rest \in 0..answered /\ response \in 0..sent /\ last \in 0..sent
  /\ input \in Seq(Pieces) /\ frame \in Seq(Pieces)
  /\ gap \in {"none", "broken"} /\ retry \in 0..MaxRetries
  /\ failed \in Nat /\ faults \in 0..MaxFaults

\* An answer lags behind its request by at most the number of requests that have
\* failed: as long as none has, every answer belongs to its request, and a late
\* answer displaces the following ones by one (modbus.c:388-439, no flush).
LagBounded == response # 0 => sent - response <= failed

\* Answers are returned in the order of the requests and none twice, however
\* they are split, garbled, delayed or cut off by a reconnect (modbus.c:446-597).
Returned == sent - failed - (IF pc = "idle" THEN 0 ELSE 1)
Answers == INSTANCE LossyFifo WITH next <- sent + 1, count <- Returned
AnswersInOrder == Answers!Spec

\* Every request returns and releases modbus_mtx, or the process exits: all
\* waits have a limit (modbus.c:460, 491, 523; tracerctr.c:129).
RequestsReturn == pc # "idle" ~> pc \in {"idle", "exited"}

\* modbus.h:69: "Send Request ant wait for Response": what is returned answers
\* the request that was sent.
AnswersItsRequest == response \in {0, sent}
=============================================================================
