-------------------------- MODULE ModbusMasterProofs --------------------------
(***************************************************************************)
(* Proofs about ModbusMaster for any number of requests, faults and        *)
(* retries.                                                                *)
(*                                                                         *)
(* The invariant follows the answers on their way: what starts an answer   *)
(* in read_buffer is older than what starts one in the input buffer, both  *)
(* are newer than the last answer returned (InOrder), and each request     *)
(* that has returned has either failed or used up a newer answer           *)
(* (Counted).                                                              *)
(***************************************************************************)
EXTENDS ModbusMaster, TLAPS

\* The pieces an answer can begin with.
Starts(p) == p.part \in {"whole", "first"}

Sorted(s) ==
  \A i, j \in 1..Len(s) : i < j /\ Starts(s[i]) /\ Starts(s[j]) => s[i].of < s[j].of
Before(s, t) ==
  \A i \in 1..Len(s), j \in 1..Len(t) :
    Starts(s[i]) /\ Starts(t[j]) => s[i].of < t[j].of
Within(s, low, high) ==
  \A i \in 1..Len(s) : Starts(s[i]) => low < s[i].of /\ s[i].of <= high

InOrder ==
  /\ Sorted(frame) /\ Sorted(input) /\ Before(frame, input)
  /\ Within(frame, last, answered) /\ Within(input, last, answered)
  /\ \A n \in pending : answered < n
  /\ last <= answered

Counted ==
  /\ pc = "idle" => sent <= last + failed
  /\ pc # "idle" => sent <= last + failed + 1 /\ response = 0
  /\ response \in {0, last}

\* A request that is about to be written is unknown to the controller.
Unsent == pc = "write" => answered < sent /\ sent \notin pending

\* The types the other parts rely on.
Numbers ==
  /\ sent \in Nat /\ answered \in 0..sent /\ last \in 0..sent /\ failed \in Nat
  /\ pending \subseteq 1..sent /\ rest \in 0..answered
Buffers == input \in Seq(Pieces) /\ frame \in Seq(Pieces)

IInv == TypeOK /\ InOrder /\ Counted /\ Unsent

-----------------------------------------------------------------------------
(* Sequences of pieces.                                                    *)

\* Reading a piece from the input buffer.
LEMMA HeadTail ==
  ASSUME NEW s \in Seq(Pieces), s # <<>>
  PROVE  /\ Head(s) = s[1] /\ Head(s) \in Pieces
         /\ Tail(s) \in Seq(Pieces) /\ Len(Tail(s)) = Len(s) - 1 /\ Len(s) \in Nat \ {0}
         /\ \A i \in 1..Len(Tail(s)) : Tail(s)[i] = s[i + 1]
OBVIOUS

\* Adding a piece to a buffer.
LEMMA Appending ==
  ASSUME NEW s \in Seq(Pieces), NEW p \in Pieces
  PROVE  /\ Append(s, p) \in Seq(Pieces) /\ Len(Append(s, p)) = Len(s) + 1
         /\ Len(s) \in Nat
         /\ \A i \in 1..Len(s) : Append(s, p)[i] = s[i]
         /\ Append(s, p)[Len(s) + 1] = p
OBVIOUS

\* What is left in the input buffer is sorted and within the same bounds.
LEMMA TailSorted ==
  ASSUME NEW s \in Seq(Pieces), s # <<>>, NEW low, NEW high,
         Sorted(s), Within(s, low, high)
  PROVE  /\ Sorted(Tail(s)) /\ Within(Tail(s), low, high)
         /\ \A j \in 1..Len(Tail(s)) :
              Starts(Head(s)) /\ Starts(Tail(s)[j]) => Head(s).of < Tail(s)[j].of
<1> DEFINE t == Tail(s)
<1>1. /\ Len(t) = Len(s) - 1 /\ Len(s) \in Nat \ {0} /\ Head(s) = s[1]
      /\ \A i \in 1..Len(t) : t[i] = s[i + 1]
  BY HeadTail
<1>2. \A i \in 1..Len(t) : i + 1 \in 1..Len(s) /\ 1 < i + 1
  BY <1>1
<1>3. 1 \in 1..Len(s)
  BY <1>1
<1> HIDE DEF t
<1>4. Sorted(t)
  <2> SUFFICES ASSUME NEW i \in 1..Len(t), NEW j \in 1..Len(t), i < j,
                      Starts(t[i]), Starts(t[j])
               PROVE  t[i].of < t[j].of
    BY DEF Sorted
  <2>1. i + 1 < j + 1
    OBVIOUS
  <2> QED BY <1>1, <1>2, <2>1 DEF Sorted
<1>5. Within(t, low, high)
  BY <1>1, <1>2 DEF Within
<1>6. \A j \in 1..Len(t) : Starts(Head(s)) /\ Starts(t[j]) => Head(s).of < t[j].of
  BY <1>1, <1>2, <1>3 DEF Sorted
<1> QED BY <1>4, <1>5, <1>6 DEF t

\* A piece added behind older ones keeps a buffer sorted and bounded.
LEMMA AppendSorted ==
  ASSUME NEW s \in Seq(Pieces), NEW p \in Pieces, NEW low, NEW high,
         Sorted(s), Within(s, low, high),
         Starts(p) => low < p.of /\ p.of <= high,
         \A i \in 1..Len(s) : Starts(s[i]) /\ Starts(p) => s[i].of < p.of
  PROVE  Sorted(Append(s, p)) /\ Within(Append(s, p), low, high)
<1> DEFINE t == Append(s, p)
<1>1. /\ Len(t) = Len(s) + 1 /\ Len(s) \in Nat
      /\ \A i \in 1..Len(s) : t[i] = s[i]
      /\ t[Len(s) + 1] = p
  BY Appending
<1>2. \A i \in 1..Len(t) : i \in 1..Len(s) \/ i = Len(s) + 1
  BY <1>1
<1> HIDE DEF t
<1>3. Sorted(t)
  <2> SUFFICES ASSUME NEW i \in 1..Len(t), NEW j \in 1..Len(t), i < j,
                      Starts(t[i]), Starts(t[j])
               PROVE  t[i].of < t[j].of
    BY DEF Sorted
  <2>1. i \in 1..Len(s)
    BY <1>1
  <2>2. CASE j \in 1..Len(s)
    BY <1>1, <2>1, <2>2 DEF Sorted
  <2>3. CASE j = Len(s) + 1
    BY <1>1, <2>1, <2>3
  <2> QED BY <1>2, <2>2, <2>3
<1>4. Within(t, low, high)
  BY <1>1, <1>2 DEF Within
<1> QED BY <1>3, <1>4 DEF t

\* The empty buffer and the buffer of one piece.
LEMMA Short ==
  ASSUME NEW s, NEW low, NEW high, NEW p
  PROVE  /\ Sorted(<<>>) /\ Within(<<>>, low, high) /\ Before(<<>>, s)
         /\ Sorted(<<p>>) /\ (Within(<<p>>, low, high) <=>
                                (Starts(p) => low < p.of /\ p.of <= high))
         /\ (Before(<<p>>, s) <=>
               \A j \in 1..Len(s) : Starts(p) /\ Starts(s[j]) => p.of < s[j].of)
<1>1. Len(<<>>) = 0 /\ Len(<<p>>) = 1 /\ <<p>>[1] = p
  OBVIOUS
<1>2. 1..0 = {} /\ 1..1 = {1}
  OBVIOUS
<1> QED BY <1>1, <1>2 DEF Sorted, Within, Before

-----------------------------------------------------------------------------
(* Arriving bytes.                                                         *)

\* A piece that arrives is newer than all buffered ones when it starts an answer.
LEMMA ArriveInOrder ==
  ASSUME Numbers, Buffers, InOrder, NEW p \in Pieces, Arrive(p),
         answered' \in Nat, answered <= answered',
         Starts(p) => answered < p.of /\ p.of <= answered',
         \A n \in pending' : n \in pending /\ answered' < n
  PROVE  InOrder' /\ Buffers'
<1>1. UNCHANGED <<frame, last>> /\ input' = Append(input, p)
  BY DEF Arrive
<1>2. \A q \in Pieces : q.of \in Nat
  BY MasterAssumption DEF Pieces
<1>3. \A k \in 1..Len(input) : input[k] \in Pieces
  BY DEF Buffers
<1>4. \A k \in 1..Len(frame) : frame[k] \in Pieces
  BY DEF Buffers
<1>5. last \in Nat /\ answered \in Nat
  BY DEF Numbers
<1>6. Within(input, last, answered') /\ Within(frame, last, answered')
  BY <1>2, <1>3, <1>4, <1>5 DEF InOrder, Within
<1>7. \A k \in 1..Len(input) : Starts(input[k]) /\ Starts(p) => input[k].of < p.of
  BY <1>2, <1>3, <1>5 DEF InOrder, Within
<1>8. Starts(p) => last < p.of
  BY <1>2, <1>5 DEF InOrder
<1>9. Sorted(input') /\ Within(input', last, answered')
  BY <1>1, <1>6, <1>7, <1>8, AppendSorted DEF InOrder, Buffers
<1>10. Before(frame, input')
  <2> SUFFICES ASSUME NEW k \in 1..Len(frame), NEW j \in 1..Len(input'),
                      Starts(frame[k]), Starts(input'[j])
               PROVE  frame[k].of < input'[j].of
    BY DEF Before
  <2>1. /\ Len(input') = Len(input) + 1 /\ Len(input) \in Nat
        /\ \A m \in 1..Len(input) : input'[m] = input[m]
        /\ input'[Len(input) + 1] = p
    BY <1>1, Appending DEF Buffers
  <2>2. CASE j \in 1..Len(input)
    BY <2>1, <2>2 DEF InOrder, Before
  <2>3. CASE j = Len(input) + 1
    BY <2>1, <2>3, <1>2, <1>4, <1>5 DEF InOrder, Within
  <2> QED BY <2>1, <2>2, <2>3
<1>11. Buffers'
  BY <1>1, Appending DEF Buffers
<1>12. last' <= answered'
  BY <1>1, <1>5 DEF InOrder
<1> QED BY <1>1, <1>6, <1>9, <1>10, <1>11, <1>12 DEF InOrder

\* The controller and the line keep types and order.
LEMMA LineStep ==
  ASSUME TypeOK, InOrder, Answer \/ AnswerRest \/ Noise
  PROVE  TypeOK' /\ InOrder'
<1>0. Numbers /\ Buffers /\ MaxRequests \in Nat /\ MaxFaults \in Nat
  BY MasterAssumption DEF TypeOK, Numbers, Buffers
<1> DEFINE Newer(p) == Starts(p) => answered < p.of /\ p.of <= answered'
           Steps == /\ answered' \in 0..sent /\ answered <= answered'
                    /\ rest' \in 0..answered'
                    /\ \A m \in pending' : m \in pending /\ answered' < m
                    /\ faults' \in 0..MaxFaults
<1>1. Steps /\ \E p \in Pieces : Arrive(p) /\ Newer(p)
  <2>1. CASE Answer
    <3>1. PICK n \in pending :
            /\ answered' = n /\ pending' = {m \in pending : m > n}
            /\ \/ Arrive([of |-> n, part |-> "whole"]) /\ UNCHANGED <<rest, faults>>
               \/ Arrive([of |-> n, part |-> "junk"]) /\ Fault /\ UNCHANGED rest
               \/ Arrive([of |-> n, part |-> "first"]) /\ Fault /\ rest' = n
      BY <2>1 DEF Answer
    <3>2. n \in Nat /\ answered < n /\ n <= sent /\ n <= MaxRequests
      BY <1>0 DEF TypeOK, InOrder
    <3>3. faults' \in 0..MaxFaults
      BY <1>0, <3>1 DEF Fault, TypeOK
    <3>4. Steps
      BY <1>0, <3>1, <3>2, <3>3 DEF Numbers
    <3>5. \A q \in {"whole", "junk", "first"} : [of |-> n, part |-> q] \in Pieces
      BY <1>0, <3>2 DEF Pieces
    <3>6. \A q \in {"whole", "junk", "first"} : Newer([of |-> n, part |-> q])
      BY <3>1, <3>2
    <3> HIDE DEF Steps, Newer
    <3> QED BY <3>1, <3>4, <3>5, <3>6
  <2>2. CASE AnswerRest
    <3>1. [of |-> rest, part |-> "second"] \in Pieces
      BY <1>0 DEF TypeOK, Pieces
    <3>2. Newer([of |-> rest, part |-> "second"])
      BY DEF Starts
    <3>3. Steps
      BY <1>0, <2>2 DEF AnswerRest, Numbers, TypeOK, InOrder
    <3> HIDE DEF Steps, Newer
    <3> QED BY <2>2, <3>1, <3>2, <3>3 DEF AnswerRest
  <2>3. CASE Noise
    <3>1. [of |-> answered, part |-> "junk"] \in Pieces
      BY <1>0 DEF TypeOK, Pieces
    <3>2. Newer([of |-> answered, part |-> "junk"])
      BY DEF Starts
    <3>3. Steps
      BY <1>0, <2>3 DEF Noise, Fault, line, Numbers, TypeOK, InOrder
    <3> HIDE DEF Steps, Newer
    <3> QED BY <2>3, <3>1, <3>2, <3>3 DEF Noise
  <2> QED BY <2>1, <2>2, <2>3
<1>2. PICK p \in Pieces : Arrive(p) /\ Newer(p)
  BY <1>1
<1>3. InOrder' /\ Buffers'
  BY <1>0, <1>1, <1>2, ArriveInOrder DEF Numbers
<1>4. TypeOK'
  <2>1. UNCHANGED <<pc, sent, frame, retry, response, last, failed>>
    BY <1>2 DEF Arrive
  <2>2. gap' \in {"none", "broken"}
    BY <1>2 DEF Arrive, TypeOK
  <2>3. pending' \subseteq 1..sent
    BY <1>0, <1>1 DEF Numbers
  <2> QED BY <1>1, <1>3, <2>1, <2>2, <2>3 DEF TypeOK, Buffers
<1> QED BY <1>3, <1>4

-----------------------------------------------------------------------------
(* The caller.                                                             *)

\* Taking the first unread piece out of the input buffer.
LEMMA Unread ==
  ASSUME TypeOK, InOrder, input # <<>>, input' = Tail(input),
         UNCHANGED <<pending, answered, last>>
  PROVE  /\ input' \in Seq(Pieces) /\ Head(input) \in Pieces
         /\ Sorted(input') /\ Within(input', last, answered)
         /\ \A j \in 1..Len(input') :
              Starts(Head(input)) /\ Starts(input'[j]) => Head(input).of < input'[j].of
         /\ Starts(Head(input)) => last < Head(input).of /\ Head(input).of <= answered
<1>1. input \in Seq(Pieces)
  BY DEF TypeOK
<1>2. Head(input) = input[1] /\ 1 \in 1..Len(input)
  BY <1>1, HeadTail
<1>3. Starts(Head(input)) => last < Head(input).of /\ Head(input).of <= answered
  BY <1>2 DEF InOrder, Within
<1> QED BY <1>1, <1>3, HeadTail, TailSorted DEF InOrder

\* The first byte of a frame: read_buffer holds what was the oldest piece.
LEMMA FirstByteInOrder ==
  ASSUME TypeOK, InOrder, FirstByte
  PROVE  InOrder' /\ input' \in Seq(Pieces) /\ frame' \in Seq(Pieces)
<1>1. /\ input # <<>> /\ input' = Tail(input) /\ frame' = <<Head(input)>>
      /\ UNCHANGED <<pending, answered, last>>
  BY DEF FirstByte, line
<1>2. /\ Sorted(frame') /\ Within(frame', last, answered) /\ Before(frame', input')
  BY <1>1, Unread, Short
<1> QED BY <1>1, <1>2, Unread DEF InOrder

\* A further byte: the frame stays older than what is unread.
LEMMA NextByteInOrder ==
  ASSUME TypeOK, InOrder, NextByte
  PROVE  InOrder' /\ input' \in Seq(Pieces) /\ frame' \in Seq(Pieces)
<1>1. /\ input # <<>> /\ input' = Tail(input) /\ frame' = Append(frame, Head(input))
      /\ UNCHANGED <<pending, answered, last>>
  BY DEF NextByte, line
<1>2. input \in Seq(Pieces) /\ frame \in Seq(Pieces)
  BY DEF TypeOK
<1>3. /\ Head(input) = input[1] /\ 1 \in 1..Len(input)
      /\ Len(input') = Len(input) - 1
      /\ \A j \in 1..Len(input') : j + 1 \in 1..Len(input) /\ input'[j] = input[j + 1]
  BY <1>1, <1>2, HeadTail
<1>4. \A k \in 1..Len(frame) :
        Starts(frame[k]) /\ Starts(Head(input)) => frame[k].of < Head(input).of
  BY <1>3 DEF InOrder, Before
<1>5. Sorted(frame') /\ Within(frame', last, answered)
  BY <1>1, <1>2, <1>4, Unread, AppendSorted DEF InOrder
<1>6. Before(frame', input')
  <2> SUFFICES ASSUME NEW k \in 1..Len(frame'), NEW j \in 1..Len(input'),
                      Starts(frame'[k]), Starts(input'[j])
               PROVE  frame'[k].of < input'[j].of
    BY DEF Before
  <2>1. /\ Len(frame') = Len(frame) + 1 /\ Len(frame) \in Nat
        /\ \A m \in 1..Len(frame) : frame'[m] = frame[m]
        /\ frame'[Len(frame) + 1] = Head(input)
    BY <1>1, <1>2, Unread, Appending
  <2>2. CASE k \in 1..Len(frame)
    BY <1>3, <2>1, <2>2 DEF InOrder, Before
  <2>3. CASE k = Len(frame) + 1
    BY <1>1, <2>1, <2>3, Unread
  <2> QED BY <2>1, <2>2, <2>3
<1> QED BY <1>1, <1>2, <1>5, <1>6, Unread, Appending DEF InOrder

\* A step that empties read_buffer, and leaves the input buffer alone or empties
\* it or drops its first piece.
LEMMA EmptyFrameInOrder ==
  ASSUME TypeOK, InOrder, UNCHANGED <<pending, answered, last>>, frame' \in {<<>>, frame},
         \/ input' = input
         \/ input' = <<>>
         \/ input # <<>> /\ input' = Tail(input) /\ frame' = <<>>
  PROVE  InOrder' /\ input' \in Seq(Pieces) /\ frame' \in Seq(Pieces)
<1>1. <<>> \in Seq(Pieces) /\ \A s : Before(s, <<>>)
  BY DEF Before
<1>2. CASE input' \in {<<>>, input}
  BY <1>1, <1>2, Short DEF InOrder, TypeOK
<1>3. CASE input # <<>> /\ input' = Tail(input) /\ frame' = <<>>
  BY <1>1, <1>3, Unread, Short DEF InOrder
<1> QED BY <1>2, <1>3

\* An accepted frame begins with the start of an answer.
LEMMA CheckedStarts ==
  ASSUME NEW f \in Seq(Pieces), Checked(f) # 0
  PROVE  1 \in 1..Len(f) /\ Starts(f[1]) /\ Checked(f) = f[1].of
BY DEF Checked, Starts

\* The end of a frame: what is returned is newer than all answers before it and
\* older than all that is unread.
LEMMA EndOfFrameInOrder ==
  ASSUME TypeOK, InOrder, EndOfFrame
  PROVE  /\ InOrder' /\ input' \in Seq(Pieces) /\ frame' \in Seq(Pieces)
         /\ Checked(frame) # 0 => Checked(frame) \in (last + 1)..sent /\ last' = Checked(frame)
         /\ Checked(frame) = 0 => last' = last
<1>1. /\ frame' = <<>> /\ input' = input /\ Return(Checked(frame)) /\ input = <<>>
      /\ UNCHANGED <<pending, answered>>
  BY DEF EndOfFrame, Return, line
<1>2. CASE Checked(frame) = 0
  <2>1. last' = last
    BY <1>1, <1>2 DEF Return
  <2> QED BY <1>1, <1>2, <2>1, EmptyFrameInOrder
<1>3. CASE Checked(frame) # 0
  <2>1. 1 \in 1..Len(frame) /\ Starts(frame[1]) /\ Checked(frame) = frame[1].of
    BY <1>3, CheckedStarts DEF TypeOK
  <2>2. last < Checked(frame) /\ Checked(frame) <= answered
    BY <2>1 DEF InOrder, Within
  <2>3. Checked(frame) \in Nat
    <3>1. frame[1] \in Pieces
      BY <2>1 DEF TypeOK
    <3> QED BY <2>1, <3>1, MasterAssumption DEF Pieces
  <2>4. last' = Checked(frame)
    BY <1>1, <1>3 DEF Return
  <2>5. Checked(frame) \in (last + 1)..sent
    BY <2>2, <2>3 DEF TypeOK
  <2>6. Before(frame', input') /\ Sorted(frame') /\ Within(frame', last', answered')
    BY <1>1, Short
  <2>7. Sorted(input') /\ Within(input', last', answered')
    BY <1>1, Short
  <2>8. <<>> \in Seq(Pieces)
    OBVIOUS
  <2> QED BY <1>1, <1>3, <2>2, <2>4, <2>5, <2>6, <2>7, <2>8 DEF InOrder, TypeOK
<1> QED BY <1>2, <1>3

\* The steps of the caller keep types and order.
LEMMA CallerStep ==
  ASSUME TypeOK, InOrder, Unsent, Call \/ Caller \/ DeviceFails
  PROVE  TypeOK' /\ InOrder'
<1>0. MaxRequests \in Nat /\ MaxFaults \in Nat /\ MaxRetries \in Nat \ {0}
  BY MasterAssumption
<1>1. CASE Call
  <2>1. InOrder' /\ input' \in Seq(Pieces) /\ frame' \in Seq(Pieces)
    BY <1>1, EmptyFrameInOrder DEF Call, line
  <2> QED BY <1>0, <1>1, <2>1 DEF Call, line, TypeOK
<1>2. CASE Write
  <2>1. frame' = frame /\ input' = input /\ UNCHANGED <<answered, last>>
    BY <1>2 DEF Write
  <2>2. pending' = pending \cup {sent} /\ sent' = sent
    BY <1>2 DEF Write
  <2>3. \A n \in pending' : answered < n
    BY <1>2, <2>2 DEF Write, InOrder, Unsent
  <2>4. pending' \subseteq 1..sent
    BY <1>2, <2>2 DEF Write, TypeOK, Unsent
  <2> QED BY <1>0, <1>2, <2>1, <2>2, <2>3, <2>4 DEF Write, TypeOK, InOrder
<1>3. CASE FirstByte
  <2>1. gap' \in {"none", "broken"}
    BY <1>3 DEF FirstByte
  <2> QED BY <1>3, <2>1, FirstByteInOrder DEF FirstByte, line, TypeOK
<1>4. CASE Timeout
  <2>1. InOrder' /\ input' \in Seq(Pieces) /\ frame' \in Seq(Pieces)
    BY <1>4, EmptyFrameInOrder DEF Timeout, Return, line
  <2> QED BY <1>4, <2>1 DEF Timeout, Return, line, TypeOK
<1>5. CASE NextByte
  BY <1>5, NextByteInOrder DEF NextByte, line, TypeOK
<1>6. CASE Break
  <2>1. InOrder' /\ input' \in Seq(Pieces) /\ frame' \in Seq(Pieces)
    BY <1>6, EmptyFrameInOrder DEF Break, line
  <2>2. gap' \in {"none", "broken"}
    BY <1>6 DEF Break
  <2> QED BY <1>6, <2>1, <2>2 DEF Break, line, TypeOK
<1>7. CASE Discard
  <2>1. InOrder' /\ input' \in Seq(Pieces)
    BY <1>7, Unread DEF Discard, line, InOrder, Before
  <2> QED BY <1>7, <2>1 DEF Discard, line, TypeOK
<1>8. CASE Silent
  BY <1>8, EmptyFrameInOrder DEF Silent, line, TypeOK
<1>9. CASE EndOfFrame
  <2>1. /\ InOrder' /\ input' \in Seq(Pieces) /\ frame' \in Seq(Pieces)
        /\ last' \in 0..sent /\ response' \in 0..sent /\ failed' \in Nat
    BY <1>9, EndOfFrameInOrder DEF EndOfFrame, Return, TypeOK
  <2> QED BY <1>9, <2>1 DEF EndOfFrame, Return, line, TypeOK
<1>10. CASE Reconnect
  <2>1. InOrder' /\ input' \in Seq(Pieces) /\ frame' \in Seq(Pieces)
    BY <1>10, EmptyFrameInOrder DEF Reconnect, Return, line
  <2>2. gap' \in {"none", "broken"}
    BY <1>10 DEF Reconnect
  <2> QED BY <1>10, <2>1, <2>2 DEF Reconnect, Return, line, TypeOK
<1>11. CASE ReconnectFails
  BY <1>0, <1>11, EmptyFrameInOrder DEF ReconnectFails, Fault, line, TypeOK
<1>12. CASE Exit
  BY <1>12, EmptyFrameInOrder DEF Exit, line, TypeOK
<1>13. CASE DeviceFails
  BY <1>0, <1>13, EmptyFrameInOrder DEF DeviceFails, Fault, line, TypeOK
<1> QED
  BY <1>1, <1>2, <1>3, <1>4, <1>5, <1>6, <1>7, <1>8, <1>9, <1>10, <1>11, <1>12,
     <1>13 DEF Caller, Receive

\* Each request that returns has failed or has used up a newer answer.
LEMMA CountedStep ==
  ASSUME TypeOK, InOrder, Counted, Next
  PROVE  Counted'
<1>0. sent \in Nat /\ last \in Nat /\ failed \in Nat
  BY MasterAssumption DEF TypeOK
<1>1. CASE Call
  BY <1>0, <1>1 DEF Call, Counted
<1>2. CASE EndOfFrame
  <2>1. /\ UNCHANGED sent /\ pc' = "idle" /\ pc # "idle" /\ response' = Checked(frame)
        /\ Checked(frame) = 0 => failed' = failed + 1
        /\ Checked(frame) # 0 => failed' = failed
    BY <1>2 DEF EndOfFrame, Return
  <2>2. CASE Checked(frame) = 0
    BY <1>0, <1>2, <2>1, <2>2, EndOfFrameInOrder DEF Counted
  <2>3. CASE Checked(frame) # 0
    <3>1. last' = Checked(frame) /\ last' \in (last + 1)..sent
      BY <1>2, <2>3, EndOfFrameInOrder
    <3> QED BY <1>0, <2>1, <2>3, <3>1 DEF Counted
  <2> QED BY <2>2, <2>3
<1>3. CASE Timeout \/ Reconnect
  BY <1>0, <1>3 DEF Timeout, Reconnect, Return, Counted
<1>4. CASE Write \/ FirstByte \/ NextByte \/ Break \/ Discard \/ Silent
  BY <1>4 DEF Write, FirstByte, NextByte, Break, Discard, Silent, line, Counted
<1>5. CASE ReconnectFails \/ Exit \/ DeviceFails
  BY <1>5 DEF ReconnectFails, Exit, DeviceFails, line, Counted
<1>6. CASE Answer \/ AnswerRest \/ Noise
  BY <1>6 DEF Answer, AnswerRest, Noise, Arrive, Counted
<1> QED BY <1>1, <1>2, <1>3, <1>4, <1>5, <1>6 DEF Next, Caller, Receive

\* No step makes the controller know a request that was not written.
LEMMA UnsentStep ==
  ASSUME TypeOK, Unsent, Next
  PROVE  Unsent'
<1>0. sent \in Nat /\ answered \in 0..sent /\ pending \subseteq 1..sent
  BY MasterAssumption DEF TypeOK
<1>1. CASE Call
  BY <1>0, <1>1 DEF Call, line, Unsent
<1>2. CASE Caller \/ DeviceFails
  <2>1. pc' # "write" \/ UNCHANGED <<pc, sent, pending, answered>>
    BY <1>2 DEF Caller, Receive, Write, FirstByte, Timeout, NextByte, Break, Discard,
                Silent, EndOfFrame, Reconnect, ReconnectFails, Exit, DeviceFails,
                Return, line
  <2> QED BY <2>1 DEF Unsent
<1>3. CASE Answer
  <2>1. PICK n \in pending : answered' = n /\ pending' = {m \in pending : m > n}
    BY <1>3 DEF Answer
  <2>2. UNCHANGED <<pc, sent>>
    BY <1>3 DEF Answer, Arrive
  <2> QED BY <1>0, <2>1, <2>2 DEF Unsent
<1>4. CASE AnswerRest \/ Noise
  BY <1>4 DEF AnswerRest, Noise, Arrive, line, Unsent
<1> QED BY <1>1, <1>2, <1>3, <1>4 DEF Next

\* IInv is inductive and holds initially.
LEMMA Invariance == Spec => []IInv
<1>1. Init => IInv
  <2> SUFFICES ASSUME Init PROVE IInv
    OBVIOUS
  <2>1. <<>> \in Seq(Pieces)
    OBVIOUS
  <2>2. TypeOK
    BY <2>1, MasterAssumption DEF Init, TypeOK
  <2>3. InOrder
    <3>1. frame = <<>> /\ input = <<>> /\ pending = {} /\ last = 0 /\ answered = 0
      BY DEF Init
    <3>2. Sorted(<<>>) /\ Within(<<>>, 0, 0) /\ Before(<<>>, <<>>)
      BY Short
    <3> QED BY <3>1, <3>2 DEF InOrder
  <2>4. Counted
    BY DEF Init, Counted
  <2>5. Unsent
    BY DEF Init, Unsent
  <2> QED BY <2>2, <2>3, <2>4, <2>5 DEF IInv
<1>2. IInv /\ [Next]_vars => IInv'
  <2> SUFFICES ASSUME IInv, [Next]_vars PROVE IInv'
    OBVIOUS
  <2>1. CASE Next
    BY <2>1, LineStep, CallerStep, CountedStep, UnsentStep DEF Next, IInv
  <2>2. CASE UNCHANGED vars
    BY <2>2 DEF vars, line, IInv, TypeOK, InOrder, Counted, Unsent
  <2> QED BY <2>1, <2>2
<1> QED BY <1>1, <1>2, PTL DEF Spec

-----------------------------------------------------------------------------
(* The theorems.                                                           *)

\* Types.
THEOREM TypeCorrect == Spec => []TypeOK
<1>1. IInv => TypeOK
  BY DEF IInv
<1> QED BY <1>1, Invariance, PTL

\* A returned answer lags behind its request by at most the failed requests.
THEOREM LagIsBounded == Spec => []LagBounded
<1>1. IInv => LagBounded
  BY MasterAssumption DEF IInv, TypeOK, Counted, LagBounded
<1> QED BY <1>1, Invariance, PTL

\* The master delivers answers like a lossy first-in first-out channel.
THEOREM Ordered == Spec => AnswersInOrder
<1>1. Init => Answers!Init
  BY DEF Init, Answers!Init, Returned
<1>2. IInv /\ [Next]_vars => [Answers!Next]_<<sent + 1, last, Returned>>
  <2> SUFFICES ASSUME IInv, [Next]_vars PROVE [Answers!Next]_<<sent + 1, last, Returned>>
    OBVIOUS
  <2>0. sent \in Nat /\ last \in Nat /\ failed \in Nat /\ TypeOK /\ InOrder
    BY MasterAssumption DEF IInv, TypeOK
  <2>1. CASE Call
    <3>1. Returned' = Returned
      BY <2>0, <2>1 DEF Call, Returned
    <3> QED BY <2>1, <3>1 DEF Call, Answers!Next, Answers!HandOver
  <2>2. CASE EndOfFrame
    <3>1. UNCHANGED sent /\ pc # "idle" /\ pc' = "idle"
      BY <2>2 DEF EndOfFrame, Return
    <3>2. CASE Checked(frame) = 0
      <4>1. failed' = failed + 1 /\ UNCHANGED last
        BY <2>2, <3>2 DEF EndOfFrame, Return
      <4>2. Returned' = Returned
        BY <2>0, <3>1, <4>1 DEF Returned
      <4> QED BY <3>1, <4>1, <4>2
    <3>3. CASE Checked(frame) # 0
      <4>1. last' \in (last + 1)..((sent + 1) - 1)
        BY <2>0, <2>2, <3>3, EndOfFrameInOrder
      <4>2. UNCHANGED failed
        BY <2>2, <3>3 DEF EndOfFrame, Return
      <4>3. Returned' = Returned + 1
        BY <2>0, <3>1, <4>2 DEF Returned
      <4> QED BY <3>1, <4>1, <4>3 DEF Answers!Next, Answers!Deliver
    <3> QED BY <3>2, <3>3
  <2>3. CASE Timeout \/ Reconnect
    <3>1. UNCHANGED <<sent, last>> /\ failed' = failed + 1 /\ pc # "idle" /\ pc' = "idle"
      BY <2>3 DEF Timeout, Reconnect, Return
    <3>2. Returned' = Returned
      BY <2>0, <3>1 DEF Returned
    <3> QED BY <3>1, <3>2
  <2>4. CASE Write \/ FirstByte \/ NextByte \/ Break \/ Discard \/ Silent
    BY <2>4 DEF Write, FirstByte, NextByte, Break, Discard, Silent, Returned
  <2>5. CASE ReconnectFails \/ Exit \/ DeviceFails
    BY <2>5 DEF ReconnectFails, Exit, DeviceFails, Returned
  <2>6. CASE Answer \/ AnswerRest \/ Noise
    BY <2>6 DEF Answer, AnswerRest, Noise, Arrive, Returned
  <2>7. CASE UNCHANGED vars
    BY <2>7 DEF vars, Returned
  <2> QED BY <2>1, <2>2, <2>3, <2>4, <2>5, <2>6, <2>7 DEF Next, Caller, Receive
<1> QED BY <1>1, <1>2, Invariance, PTL DEF Spec, AnswersInOrder, Answers!Spec
=============================================================================
