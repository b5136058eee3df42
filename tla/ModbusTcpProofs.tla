----------------------------- MODULE ModbusTcpProofs -----------------------------
(***************************************************************************)
(* Theorems about ModbusTcp, for every number of slots and connections,    *)
(* every table of registers and every set of requests.                     *)
(*                                                                         *)
(* That answers are aligned rests on counting: as many registers as were   *)
(* asked for, with different addresses between the first and the last one  *)
(* asked for, leave no room for a gap.                                     *)
(***************************************************************************)
EXTENDS ModbusTcp, FiniteSetTheorems, TLAPS

LEMMA MaxRegNat == MAX_REG \in Nat
  BY TcpAssumption

-----------------------------------------------------------------------------
(* Counting.                                                               *)

\* Numbers of an interval, in ascending order.
Rising(f, m, n, a, b) ==
  /\ \A k \in m..n : f[k] \in a..b
  /\ \A j, k \in m..n : j < k => f[j] < f[k]

\* Different whole numbers of an interval are not more than its length.
LEMMA IntervalBound ==
  ASSUME NEW a \in Int, NEW b \in Int, NEW m \in Int, NEW n \in Int, m <= n,
         NEW f, Rising(f, m, n, a, b)
  PROVE  n - m <= b - a
<1> USE DEF Rising
<1> DEFINE g == [k \in m..n |-> f[k]]
<1>1. g \in [m..n -> a..b]
  OBVIOUS
<1>2. \A j, k \in m..n : g[j] = g[k] => j = k
  <2> SUFFICES ASSUME NEW j \in m..n, NEW k \in m..n, f[j] = f[k] PROVE j = k
    OBVIOUS
  <2>1. f[j] \in Int /\ f[k] \in Int
    OBVIOUS
  <2> QED
    BY <2>1
<1>3. g \in Injection(m..n, a..b)
  BY <1>1, <1>2 DEF Injection, IsInjective
<1> HIDE DEF g
<1>4. IsFiniteSet(a..b) /\ Cardinality(a..b) = IF a > b THEN 0 ELSE b - a + 1
  BY FS_Interval
<1>5. Cardinality(m..n) <= Cardinality(a..b)
  BY <1>3, <1>4, FS_Injection
<1>6. Cardinality(m..n) = IF m > n THEN 0 ELSE n - m + 1
  BY FS_Interval
<1> QED
  BY <1>4, <1>5, <1>6

\* As many ascending numbers as an interval has are that interval, in order.
LEMMA IntervalFilled ==
  ASSUME NEW a \in Int, NEW n \in Nat, NEW f, Rising(f, 1, n, a, a + n - 1)
  PROVE  \A k \in 1..n : f[k] = a + k - 1
<1> SUFFICES ASSUME NEW k \in 1..n PROVE f[k] = a + k - 1
  OBVIOUS
<1>0. /\ f[k] \in Int /\ f[k] >= a /\ f[k] <= a + n - 1
      /\ k \in Int /\ 1 <= k /\ k <= n /\ n \in Int /\ a + n - 1 \in Int /\ 1 \in Int
  BY DEF Rising
<1>1. k - 1 <= f[k] - a
  <2>1. ASSUME NEW j \in 1..k PROVE f[j] \in a..f[k]
    <3>1. j \in 1..n /\ (j < k \/ j = k)
      BY <1>0
    <3>2. f[j] \in a..(a + n - 1) /\ (f[j] < f[k] \/ j = k)
      BY <3>1 DEF Rising
    <3> QED
      BY <1>0, <3>2
  <2>2. \A j, l \in 1..k : j < l => f[j] < f[l]
    BY <1>0 DEF Rising
  <2>3. Rising(f, 1, k, a, f[k])
    BY <2>1, <2>2 DEF Rising
  <2> QED
    BY <1>0, <2>3, IntervalBound
<1>2. n - k <= a + n - 1 - f[k]
  <2>1. ASSUME NEW j \in k..n PROVE f[j] \in f[k]..(a + n - 1)
    <3>1. j \in 1..n /\ (k < j \/ j = k)
      BY <1>0
    <3>2. f[j] \in a..(a + n - 1) /\ (f[k] < f[j] \/ j = k)
      BY <3>1 DEF Rising
    <3> QED
      BY <1>0, <3>2
  <2>2. \A j, l \in k..n : j < l => f[j] < f[l]
    BY <1>0 DEF Rising
  <2>3. Rising(f, k, n, f[k], a + n - 1)
    BY <2>1, <2>2 DEF Rising
  <2> QED
    BY <1>0, <2>3, IntervalBound
<1> QED
  BY <1>0, <1>1, <1>2

LEMMA AddressesInt == LastAdress \in Int /\ 0..LastAdress \subseteq Nat
  BY DEF LastAdress

-----------------------------------------------------------------------------
(* Memory's tables are in ascending order.                                 *)

Ascending(list) ==
  /\ list \in Seq(0..LastAdress)
  /\ \A j, k \in DOMAIN list : j < k => list[j] < list[k]

LEMMA SeqElements ==
  ASSUME NEW S, NEW s \in Seq(S)
  PROVE  Len(s) \in Nat /\ DOMAIN s = 1..Len(s) /\ \A k \in DOMAIN s : s[k] \in S
  OBVIOUS

LEMMA SeqWider ==
  ASSUME NEW S, NEW T, S \subseteq T, NEW s \in Seq(S)
  PROVE  s \in Seq(T)
  OBVIOUS

\* The entries up to an address are the first ones: the end GetRegister's loop finds.
LEMMA LastExists ==
  ASSUME NEW list, Ascending(list), NEW to \in Int
  PROVE  \E count \in 0..Len(list) : \A k \in DOMAIN list : k <= count <=> list[k] <= to
<1>1. /\ Len(list) \in Nat /\ DOMAIN list = 1..Len(list)
      /\ \A k \in DOMAIN list : list[k] \in Int
  <2>1. list \in Seq(0..LastAdress)
    BY DEF Ascending
  <2>2. \A k \in DOMAIN list : list[k] \in 0..LastAdress
    BY <2>1, SeqElements
  <2> QED
    BY <2>1, <2>2, SeqElements
<1> DEFINE D == {k \in DOMAIN list : list[k] <= to}
           count == Cardinality(D)
<1>2. IsFiniteSet(1..Len(list)) /\ Cardinality(1..Len(list)) = Len(list)
  <2>1. IsFiniteSet(1..Len(list)) /\
        Cardinality(1..Len(list)) = IF 1 > Len(list) THEN 0 ELSE Len(list) - 1 + 1
    BY <1>1, FS_Interval
  <2> QED
    BY <1>1, <2>1
<1>3. D \in SUBSET (1..Len(list))
  BY <1>1
<1>4. IsFiniteSet(D) /\ count <= Len(list)
  BY <1>2, <1>3, FS_Subset
<1>5. count \in Nat
  BY <1>4, FS_CardinalityType
<1>6. ASSUME NEW k \in D
      PROVE  k <= count
  <2>1. (1..k) \in SUBSET D
    BY <1>1 DEF Ascending
  <2>2. Cardinality(1..k) <= Cardinality(D)
    BY <1>4, <2>1, FS_Subset
  <2>3. Cardinality(1..k) = IF 1 > k THEN 0 ELSE k - 1 + 1
    <3>1. k \in Int
      BY <1>1
    <3> QED
      BY <3>1, FS_Interval
  <2> QED
    BY <1>1, <1>5, <2>2, <2>3
<1>7. D \in SUBSET (1..count)
  BY <1>1, <1>6
<1>8. IsFiniteSet(1..count) /\ Cardinality(1..count) = count
  <2>1. IsFiniteSet(1..count) /\ Cardinality(1..count) = IF 1 > count THEN 0 ELSE count - 1 + 1
    BY <1>5, FS_Interval
  <2> QED
    BY <1>5, <2>1
<1>9. D = 1..count
  BY <1>7, <1>8, FS_Subset
<1>10. count \in 0..Len(list) /\ \A k \in DOMAIN list : k <= count <=> list[k] <= to
  <2>1. \A k \in DOMAIN list : k <= count <=> k \in D
    BY <1>1, <1>5, <1>9
  <2> QED
    BY <1>1, <1>4, <1>5, <2>1
<1> HIDE DEF count, D
<1> QED
  BY <1>10

-----------------------------------------------------------------------------
(* GetRegister.                                                            *)

\* Between which entries the addresses of a range lie.
Bounds(list, from, to, first, last) ==
  /\ first \in Nat \ {0} /\ last \in 0..Len(list)
  /\ first = StartIndex(list, from)
  /\ from # 0 => first \in DOMAIN list /\ list[first] = from
  /\ \A k \in DOMAIN list : k <= last <=> list[k] <= to

\* The last entry up to an address.
LastIndex(list, to) == CHOOSE count \in 0..Len(list) : \A k \in DOMAIN list : k <= count <=> list[k] <= to

\* What Span takes from an ascending table: from the entry of the first address
\* (or the first entry, for address 0) those up to the last address.
LEMMA SpanTakes ==
  ASSUME NEW list, Ascending(list), NEW values, NEW from \in Nat, NEW to \in Int,
         StartIndex(list, from) # NotFound
  PROVE  /\ Bounds(list, from, to, StartIndex(list, from), LastIndex(list, to))
         /\ Span(list, values, from, to) =
              SubSeq(values, StartIndex(list, from), LastIndex(list, to))
<1> DEFINE first == StartIndex(list, from)
           last == LastIndex(list, to)
<1>1. Len(list) \in Nat /\ DOMAIN list = 1..Len(list)
  BY DEF Ascending
<1>2. last \in 0..Len(list) /\ \A k \in DOMAIN list : k <= last <=> list[k] <= to
  BY LastExists DEF LastIndex
<1>3. first \in Nat \ {0} /\ (from # 0 => first \in DOMAIN list /\ list[first] = from)
  <2>1. CASE from = 0
    BY <2>1 DEF StartIndex
  <2>2. CASE from # 0
    <3>1. \E k \in DOMAIN list : list[k] = from
      BY <2>2 DEF StartIndex, NotFound
    <3>2. first = CHOOSE k \in DOMAIN list : list[k] = from
      BY <2>2, <3>1 DEF StartIndex
    <3>3. first \in DOMAIN list /\ list[first] = from
      BY <3>1, <3>2
    <3> QED
      BY <1>1, <3>3
  <2> QED
    BY <2>1, <2>2
<1>4. Span(list, values, from, to) = SubSeq(values, first, last)
  BY DEF Span, LastIndex
<1>5. first = StartIndex(list, from)
  OBVIOUS
<1> HIDE DEF first, last
<1>6. Bounds(list, from, to, first, last)
  BY <1>2, <1>3, <1>5 DEF Bounds
<1> QED
  BY <1>4, <1>6 DEF first, last

\* A span as long as the number asked for has the registers asked for, in order, if the
\* last address is the right one, or lies before the first.
LEMMA SpanAligned ==
  ASSUME NEW list, Ascending(list), NEW max \in Nat, \A k \in DOMAIN list : list[k] > max,
         NEW address \in Nat, NEW number \in Nat, number <= max, NEW to \in Int,
         number # 0 => to = address + number - 1 \/ to < address,
         StartIndex(list, address) # NotFound
  PROVE  LET found == Span(list, list, address, to)
         IN  /\ found \in Seq(0..LastAdress)
             /\ Len(found) = number => \A k \in DOMAIN found : found[k] = address + k - 1
<1> DEFINE first == StartIndex(list, address)
           last == LastIndex(list, to)
<1>0. Bounds(list, address, to, first, last) /\ Span(list, list, address, to) = SubSeq(list, first, last)
  BY SpanTakes
<1> HIDE DEF first, last
<1>1. /\ first \in Nat \ {0} /\ last \in 0..Len(list)
      /\ address # 0 => first \in DOMAIN list /\ list[first] = address
      /\ \A k \in DOMAIN list : k <= last <=> list[k] <= to
      /\ Span(list, list, address, to) = SubSeq(list, first, last)
  BY <1>0 DEF Bounds
<1>10. first \in Nat \ {0} /\ last \in 0..Len(list)
  BY <1>1
<1> USE <1>10
<1> DEFINE found == SubSeq(list, first, last)
<1>2. list \in Seq(0..LastAdress) /\ \A j, k \in DOMAIN list : j < k => list[j] < list[k]
  BY DEF Ascending
<1>3. /\ Len(list) \in Nat /\ DOMAIN list = 1..Len(list)
      /\ \A k \in DOMAIN list : list[k] \in 0..LastAdress
  BY <1>2, SeqElements
<1>4. \A k \in DOMAIN list : list[k] \in Int
  <2>1. \A e \in 0..LastAdress : e \in Int
    BY AddressesInt
  <2> QED
    BY <1>3, <2>1
<1>5. found \in Seq(0..LastAdress)
  BY <1>2, <1>3
<1>6. /\ Len(found) = IF first <= last THEN last - first + 1 ELSE 0
      /\ DOMAIN found = 1..Len(found)
      /\ \A k \in 1..(last - first + 1) : found[k] = list[first + k - 1]
  BY <1>2, <1>3
<1> HIDE DEF found
<1>7. ASSUME Len(found) = number, NEW k \in DOMAIN found
      PROVE  found[k] = address + k - 1
  <2>1. /\ number # 0 /\ first <= last /\ last \in DOMAIN list /\ first \in DOMAIN list
        /\ number = last - first + 1
    BY <1>3, <1>6, <1>7
  <2>2. list[last] <= to /\ list[last] \in Int /\ list[first] \in Int
    BY <1>1, <1>4, <2>1
  <2>3. list[first] <= list[last]
    <3>1. CASE first = last
      BY <2>2, <3>1
    <3>2. CASE first < last
      <4>1. list[first] < list[last]
        BY <1>2, <2>1, <3>2
      <4> QED
        BY <2>2, <4>1
    <3> QED
      BY <2>1, <3>1, <3>2
  <2>4. address # 0
    <3>1. list[first] > max /\ number <= max
      BY <2>1
    <3>2. ~(list[first] <= to) \/ ~(number # 0 /\ address = 0)
      <4>1. number # 0 => to = address + number - 1 \/ to < address
        OBVIOUS
      <4> QED
        BY <2>2, <3>1, <4>1
    <3> QED
      BY <2>1, <2>2, <2>3, <3>2
  <2>5. list[first] = address /\ to = address + number - 1
    BY <1>1, <2>1, <2>2, <2>3, <2>4
  <2>6. ASSUME NEW j \in 1..number
        PROVE  found[j] \in address..(address + number - 1)
    <3>1. /\ first + j - 1 \in DOMAIN list /\ first + j - 1 <= last
          /\ found[j] = list[first + j - 1]
      BY <1>3, <1>6, <2>1
    <3>2. list[first + j - 1] <= to
      BY <1>1, <3>1
    <3>3. first + j - 1 = first \/ list[first] < list[first + j - 1]
      BY <1>2, <2>1, <3>1
    <3>4. list[first + j - 1] \in Int
      BY <1>4, <3>1
    <3>5. address <= list[first + j - 1]
      BY <2>5, <3>3, <3>4
    <3> QED
      BY <2>5, <3>1, <3>2, <3>4, <3>5
  <2>7. ASSUME NEW j \in 1..number, NEW l \in 1..number, j < l
        PROVE  found[j] < found[l]
    <3>1. /\ first + j - 1 \in DOMAIN list /\ found[j] = list[first + j - 1]
          /\ first + l - 1 \in DOMAIN list /\ found[l] = list[first + l - 1]
      BY <1>3, <1>6, <2>1
    <3>2. first + j - 1 < first + l - 1
      BY <2>7
    <3> QED
      BY <1>2, <3>1, <3>2
  <2>8. Rising(found, 1, number, address, address + number - 1)
    BY <2>6, <2>7 DEF Rising
  <2> QED
    BY <1>6, <1>7, <2>8, IntervalFilled
<1> QED
  BY <1>1, <1>5, <1>7 DEF found

LEMMA RegistersAscend == Ascending(Registers)
<1>1. MAX_REG \in Nat
  BY MaxRegNat
<1>2. (MAX_REG + 1)..(LastAdress - 1) \subseteq 0..LastAdress
  <2> SUFFICES ASSUME NEW k \in (MAX_REG + 1)..(LastAdress - 1) PROVE k \in 0..LastAdress
    OBVIOUS
  <2> QED
    BY <1>1, AddressesInt
<1>3. Registers \in Seq(0..LastAdress)
  BY <1>2, RegistersAssumption, SeqWider
<1> QED
  BY <1>3, RegistersAssumption DEF Ascending

\* The registers of an answer: not too many, and if as many as asked for, those.
AlignedAnswer(found, address, number) ==
  /\ found \in Seq(0..LastAdress) /\ Len(found) <= MAX_REG
  /\ Len(found) = number => \A k \in DOMAIN found : found[k] = address + k - 1

LEMMA RegistersHigh == \A k \in DOMAIN Registers : Registers[k] > MAX_REG
<1>1. \A k \in DOMAIN Registers : Registers[k] \in (MAX_REG + 1)..(LastAdress - 1)
  BY RegistersAssumption, SeqElements
<1>2. MAX_REG \in Nat /\ LastAdress \in Int
  BY MaxRegNat, AddressesInt
<1> QED
  BY <1>1, <1>2

\* A number below the width is itself in it, one not far above it what is above.
LEMMA Modulo ==
  ASSUME NEW w \in Nat, w > 0, NEW z \in Int
  PROVE  /\ z % w \in 0..(w - 1)
         /\ 0 <= z /\ z < w => z % w = z
         /\ w <= z /\ z < w + w => z % w = z - w
  OBVIOUS

\* The last address in 16 bits is the one after the others, or a low one.
LEMMA LastAddress ==
  ASSUME NEW x \in 0..LastAdress, NEW y \in 0..LastAdress
  PROVE  /\ (x + y - 1) % Width \in Int
         /\ y # 0 => (x + y - 1) % Width = x + y - 1 \/ (x + y - 1) % Width < x
<1>1. PICK z \in Int : z = x + y - 1
  BY AddressesInt
<1>2. LastAdress \in Nat
  BY AddressesInt
<1>3. /\ z % (LastAdress + 1) \in 0..LastAdress
      /\ 0 <= z /\ z < LastAdress + 1 => z % (LastAdress + 1) = z
      /\ LastAdress + 1 <= z /\ z < LastAdress + 1 + LastAdress + 1
           => z % (LastAdress + 1) = z - (LastAdress + 1)
  BY <1>2, Modulo
<1> QED
  BY <1>1, <1>2, <1>3 DEF Width

LEMMA AnswerAligned ==
  ASSUME NEW address \in 0..LastAdress, NEW number \in 0..LastAdress,
         Answer(address, number) # <<"error">>
  PROVE  \E found : /\ Answer(address, number) = <<"registers", found>>
                    /\ AlignedAnswer(found, address, number)
<1> DEFINE to == (address + number - 1) % Width
           found == Span(Registers, Registers, address, to)
<1>1. /\ ~(number > MAX_REG)
      /\ ~(Len(found) > MAX_REG) /\ Answer(address, number) = <<"registers", found>>
  BY DEF Answer
<1>2. address \in Nat /\ number \in Nat /\ MAX_REG \in Nat
  BY MaxRegNat, AddressesInt
<1>3. to \in Int /\ (number # 0 => to = address + number - 1 \/ to < address)
  BY LastAddress
<1> HIDE DEF to
<1>4. /\ found \in Seq(0..LastAdress)
      /\ Len(found) = number => \A k \in DOMAIN found : found[k] = address + k - 1
  <2>1. number <= MAX_REG
    BY <1>1, <1>2
  <2>2. CASE StartIndex(Registers, address) = NotFound
    <3>1. found = <<>>
      BY <2>2 DEF Span
    <3> QED
      BY <3>1
  <2>3. CASE StartIndex(Registers, address) # NotFound
    BY <1>1, <1>2, <1>3, <2>1, <2>3, SpanAligned, RegistersAscend, RegistersHigh
  <2> QED
    BY <2>2, <2>3
<1>5. Len(found) <= MAX_REG
  BY <1>1, <1>2, <1>4
<1> QED
  BY <1>1, <1>4, <1>5 DEF AlignedAnswer

-----------------------------------------------------------------------------
(* Records of connections.                                                 *)

Ends == {"none", "queued", "held", "closed"}
Peers == {"none", "open", "closed", "reset", "broken", "vanished", "lost"}
Answers == {Nothing, <<"error">>} \cup ({"registers"} \X Seq(0..LastAdress))

Conn == [end : Ends, peer : Peers, asked : Requests \cup {Nothing}, sent : {"none", "yes"},
         answer : Answers]

\* A connection's part of Aligned.
RightAnswer(r) ==
  r.answer # Nothing /\ r.answer[1] = "registers" =>
    LET found == r.answer[2]
    IN /\ Len(found) <= MAX_REG
       /\ Len(found) = r.asked[2] => \A k \in DOMAIN found : found[k] = r.asked[1] + k - 1

\* What is sent has been asked for; an answer is for what is asked, and nobody but a
\* caller who is there has one.
Sound(r) ==
  /\ r.sent = "yes" => r.asked # Nothing
  /\ r.answer # Nothing => r.asked # Nothing /\ r.peer = "open" /\ r.sent = "none"
  /\ RightAnswer(r)

\* Soundness of a record without an answer.
LEMMA NoAnswer ==
  ASSUME NEW r, r.answer = Nothing, r.sent = "yes" => r.asked # Nothing
  PROVE  Sound(r)
  BY DEF Sound, RightAnswer

\* Soundness depends on the request and its answer.
LEMMA SameAnswer ==
  ASSUME NEW r, NEW s, Sound(r), s.asked = r.asked, s.answer = r.answer,
         s.answer # Nothing => s.peer = "open", s.sent = r.sent \/ s.sent = "none"
  PROVE  Sound(s)
  BY DEF Sound, RightAnswer

LEMMA AbsentSound == Absent \in Conn /\ Sound(Absent)
<1>1. Absent \in Conn
  BY DEF Absent, Conn, Ends, Peers, Answers
<1>2. Absent.answer = Nothing /\ Absent.sent = "none"
  BY DEF Absent
<1> QED
  BY <1>1, <1>2, NoAnswer

\* A connection closed by the host (modbusserver.c:152, 175, 288).
LEMMA ClosedSound ==
  ASSUME NEW r \in Conn, Sound(r)
  PROVE  /\ HostClosed(r) \in Conn /\ Sound(HostClosed(r))
         /\ HostClosed(r).end \in {"none", "closed"}
<1> DEFINE s == [r EXCEPT !.end = "closed", !.sent = "none"]
<1>1. /\ s \in Conn /\ s.end = "closed" /\ s.sent = "none" /\ s.asked = r.asked
      /\ s.answer = r.answer /\ s.peer = r.peer
  BY DEF Conn, Ends
<1>2. HostClosed(r) = IF s.peer # "open" /\ s.end \notin {"queued", "held"} THEN Absent ELSE s
  BY DEF HostClosed, Settled
<1> HIDE DEF s
<1>3. Sound(s)
  BY <1>1, SameAnswer DEF Sound
<1>4. Absent.end = "none"
  BY DEF Absent
<1> QED
  BY <1>1, <1>2, <1>3, <1>4, AbsentSound

\* A caller who leaves (Leave) does not change what the host has.
LEMMA LeftSound ==
  ASSUME NEW r \in Conn, Sound(r), NEW peer \in {"closed", "reset", "vanished"}
  PROVE  /\ Left(r, peer) \in Conn /\ Sound(Left(r, peer))
         /\ Left(r, peer).end = r.end
            \/ (r.end \notin {"queued", "held"} /\ Left(r, peer).end = "none")
<1> DEFINE s == [r EXCEPT !.peer = peer, !.answer = Nothing,
                          !.asked = IF r.sent = "yes" THEN @ ELSE Nothing]
<1>1. /\ s \in Conn /\ s.end = r.end /\ s.answer = Nothing /\ s.sent = r.sent
      /\ s.sent = "yes" => s.asked = r.asked
  BY DEF Conn, Peers, Answers
<1>2. Left(r, peer) = IF s.peer # "open" /\ s.end \notin {"queued", "held"} THEN Absent ELSE s
  BY DEF Left, Settled
<1> HIDE DEF s
<1>3. Sound(s)
  <2>1. s.sent = "yes" => s.asked # Nothing
    BY <1>1 DEF Sound
  <2> QED
    BY <1>1, <2>1, NoAnswer
<1>4. Absent.end = "none"
  BY DEF Absent
<1>5. CASE s.peer # "open" /\ s.end \notin {"queued", "held"}
  <2>1. Left(r, peer) = Absent
    BY <1>2, <1>5
  <2>2. r.end \notin {"queued", "held"}
    BY <1>1, <1>5
  <2> QED
    BY <1>4, <2>1, <2>2, AbsentSound
<1>6. CASE ~(s.peer # "open" /\ s.end \notin {"queued", "held"})
  <2>1. Left(r, peer) = s
    BY <1>2, <1>6
  <2> QED
    BY <1>1, <1>3, <2>1
<1> QED
  BY <1>5, <1>6

\* An answered request.
LEMMA AnsweredSound ==
  ASSUME NEW r \in Conn, Sound(r), r.sent = "yes", r.peer = "open",
         NEW s, s = Processed(r, "open")
  PROVE  s \in Conn /\ Sound(s) /\ s.end = r.end
<1> DEFINE a == Answer(r.asked[1], r.asked[2])
<1>1. r.asked \in Requests
  BY DEF Sound, Conn
<1>2. /\ r.asked[1] \in 0..LastAdress /\ r.asked[2] \in 0..LastAdress /\ r.asked # Nothing
  <2>1. r.asked \in (0..LastAdress) \X (0..LastAdress)
    <3>1. Requests \subseteq (0..LastAdress) \X (0..LastAdress)
      BY TcpAssumption
    <3> QED
      BY <1>1, <3>1
  <2> QED
    BY <2>1 DEF Sound
<1>3. \/ a = <<"error">>
      \/ \E found : a = <<"registers", found>> /\ AlignedAnswer(found, r.asked[1], r.asked[2])
  BY <1>2, AnswerAligned
<1>0. s = [r EXCEPT !.sent = "none", !.answer = a]
  BY DEF Processed
<1> HIDE DEF a
<1>4. a \in Answers
  BY <1>3 DEF Answers, AlignedAnswer
<1>5. s \in Conn /\ s.end = r.end /\ s.peer = "open" /\ s.asked = r.asked /\ s.sent = "none"
      /\ s.answer = a
  BY <1>0, <1>4 DEF Conn
<1>6. RightAnswer(s)
  <2>1. CASE a = <<"error">>
    BY <1>5, <2>1 DEF RightAnswer
  <2>2. CASE a # <<"error">>
    <3>1. PICK found : a = <<"registers", found>> /\ AlignedAnswer(found, r.asked[1], r.asked[2])
      BY <1>3, <2>2
    <3>2. s.answer[2] = found
      BY <1>5, <3>1
    <3> QED
      BY <1>5, <3>1, <3>2 DEF RightAnswer, AlignedAnswer
  <2> QED
    BY <2>1, <2>2
<1>7. Sound(s)
  BY <1>2, <1>5, <1>6 DEF Sound
<1> QED
  BY <1>5, <1>7

-----------------------------------------------------------------------------
(* The connections of a state.                                             *)

AllSound == conn \in [Conns -> Conn] /\ \A c \in Conns : Sound(conn[c])

LEMMA OneChanges ==
  ASSUME AllSound, NEW d \in Conns, NEW r \in Conn, Sound(r), conn' = [conn EXCEPT ![d] = r]
  PROVE  /\ AllSound' /\ conn'[d] = r
         /\ \A c \in Conns : c # d => conn'[c] = conn[c]
<1>1. /\ conn' \in [Conns -> Conn] /\ conn'[d] = r
      /\ \A c \in Conns : c # d => conn'[c] = conn[c]
  BY DEF AllSound
<1>2. ASSUME NEW c \in Conns PROVE Sound(conn'[c])
  <2>1. CASE c = d
    BY <1>1, <2>1
  <2>2. CASE c # d
    <3>1. conn'[c] = conn[c]
      BY <1>1, <2>2
    <3> QED
      BY <3>1 DEF AllSound
  <2> QED
    BY <2>1, <2>2
<1> QED
  BY <1>1, <1>2 DEF AllSound

\* The parts of OneSlot.
HasSlot == \A c \in Conns : conn[c].end = "held" <=> \E k \in Slots : slots[k] = c
OwnSlot == \A j, k \in Slots : slots[j] = slots[k] /\ slots[j] # NoConn => j = k
InQueue == \A c \in Conns : conn[c].end = "queued" <=> \E k \in DOMAIN queue : queue[k] = c
Once == \A j, k \in DOMAIN queue : queue[j] = queue[k] => j = k
Owners == HasSlot /\ OwnSlot /\ InQueue /\ Once

SlotsTyped == slots \in [Slots -> Conns \cup {NoConn}] /\ queue \in Seq(Conns)

LEMMA NoConnIsNone == NoConn \notin Conns
  BY TcpAssumption

\* Steps that accept and close nothing.
LEMMA SameOwners ==
  ASSUME Owners, slots' = slots, queue' = queue,
         \A c \in Conns : /\ conn'[c].end = "held" <=> conn[c].end = "held"
                          /\ conn'[c].end = "queued" <=> conn[c].end = "queued"
  PROVE  Owners'
  BY DEF Owners, HasSlot, OwnSlot, InQueue, Once

\* A client is closed and its slot emptied (modbusserver.c:175-178, 287-290).
LEMMA OwnerCloses ==
  ASSUME SlotsTyped, Owners, NEW k \in Slots, slots[k] \in Conns, queue' = queue,
         slots' = [slots EXCEPT ![k] = NoConn],
         \A c \in Conns : c # slots[k] => conn'[c] = conn[c],
         conn'[slots[k]].end \in {"none", "closed"}
  PROVE  Owners'
<1>1. \A j \in Slots : slots'[j] = IF j = k THEN NoConn ELSE slots[j]
  BY DEF SlotsTyped
<1>2. conn[slots[k]].end = "held"
  BY DEF Owners, HasSlot
<1>3. HasSlot'
  <2> SUFFICES ASSUME NEW c \in Conns
               PROVE  conn'[c].end = "held" <=> \E j \in Slots : slots'[j] = c
    BY DEF HasSlot
  <2>1. CASE c = slots[k]
    <3>1. \A j \in Slots : slots'[j] # c
      BY <1>1, <2>1, NoConnIsNone DEF Owners, OwnSlot
    <3> QED
      BY <2>1, <3>1
  <2>2. CASE c # slots[k]
    <3>1. (\E j \in Slots : slots'[j] = c) <=> \E j \in Slots : slots[j] = c
      BY <1>1, <2>2, NoConnIsNone
    <3>2. conn'[c] = conn[c]
      BY <2>2
    <3> QED
      BY <3>1, <3>2 DEF Owners, HasSlot
  <2> QED
    BY <2>1, <2>2
<1>4. OwnSlot'
  BY <1>1 DEF Owners, OwnSlot
<1>5. InQueue'
  <2> SUFFICES ASSUME NEW c \in Conns
               PROVE  conn'[c].end = "queued" <=> \E j \in DOMAIN queue : queue[j] = c
    BY DEF InQueue
  <2>1. conn[c].end = "queued" <=> \E j \in DOMAIN queue : queue[j] = c
    BY DEF Owners, InQueue
  <2>2. conn'[c].end = "queued" <=> conn[c].end = "queued"
    BY <1>2
  <2> QED
    BY <2>1, <2>2
<1> QED
  BY <1>3, <1>4, <1>5 DEF Owners, Once

\* The first of the listen queue leaves it.
LEMMA FirstLeaves ==
  ASSUME SlotsTyped, Owners, queue # <<>>, queue' = Tail(queue),
         \A c \in Conns : c # Head(queue) => conn'[c] = conn[c],
         conn'[Head(queue)].end # "queued"
  PROVE  InQueue' /\ Once' /\ Head(queue) \in Conns /\ conn[Head(queue)].end = "queued"
<1>1. /\ queue \in Seq(Conns) /\ Len(queue) \in Nat \ {0} /\ Head(queue) = queue[1]
      /\ DOMAIN queue = 1..Len(queue) /\ Head(queue) \in Conns
  BY DEF SlotsTyped
<1>2. DOMAIN queue' = 1..(Len(queue) - 1) /\ \A k \in DOMAIN queue' : queue'[k] = queue[k + 1]
  BY <1>1
<1>3. Once'
  BY <1>1, <1>2 DEF Owners, Once
<1>4. \A k \in DOMAIN queue' : queue'[k] # Head(queue)
  BY <1>1, <1>2 DEF Owners, Once
<1>5. ASSUME NEW c \in Conns, c # Head(queue)
      PROVE  (\E k \in DOMAIN queue : queue[k] = c) <=> \E k \in DOMAIN queue' : queue'[k] = c
  <2>1. ASSUME NEW k \in DOMAIN queue, queue[k] = c
        PROVE  \E j \in DOMAIN queue' : queue'[j] = c
    <3>1. k - 1 \in DOMAIN queue' /\ queue'[k - 1] = c
      BY <1>1, <1>2, <1>5, <2>1
    <3> QED
      BY <3>1
  <2>2. ASSUME NEW k \in DOMAIN queue', queue'[k] = c
        PROVE  \E j \in DOMAIN queue : queue[j] = c
    <3>1. k + 1 \in DOMAIN queue /\ queue[k + 1] = c
      BY <1>1, <1>2, <2>2
    <3> QED
      BY <3>1
  <2> QED
    BY <2>1, <2>2
<1>6. InQueue'
  <2> SUFFICES ASSUME NEW c \in Conns
               PROVE  conn'[c].end = "queued" <=> \E k \in DOMAIN queue' : queue'[k] = c
    BY DEF InQueue
  <2>1. CASE c = Head(queue)
    BY <1>4, <2>1
  <2>2. CASE c # Head(queue)
    BY <1>5, <2>2 DEF Owners, InQueue
  <2> QED
    BY <2>1, <2>2
<1>7. conn[Head(queue)].end = "queued"
  BY <1>1 DEF Owners, InQueue
<1> QED
  BY <1>1, <1>3, <1>6, <1>7

\* The host is gone: all it had is closed (modbusserver.c:68-81).
LEMMA HostGone ==
  ASSUME AllSound, queue' = <<>>, slots' = [k \in Slots |-> NoConn],
         conn' = [c \in Conns |-> IF conn[c].end \in {"queued", "held"}
                                   THEN HostClosed(conn[c]) ELSE conn[c]]
  PROVE  AllSound' /\ Owners'
<1>1. ASSUME NEW c \in Conns
      PROVE  conn'[c] \in Conn /\ Sound(conn'[c]) /\ conn'[c].end \notin {"queued", "held"}
  <2>1. conn[c] \in Conn /\ Sound(conn[c])
    BY DEF AllSound
  <2>2. CASE conn[c].end \in {"queued", "held"}
    <3>1. conn'[c] = HostClosed(conn[c])
      BY <2>2
    <3>2. /\ HostClosed(conn[c]) \in Conn /\ Sound(HostClosed(conn[c]))
          /\ HostClosed(conn[c]).end \in {"none", "closed"}
      BY <2>1, ClosedSound
    <3> QED
      BY <3>1, <3>2
  <2>3. CASE conn[c].end \notin {"queued", "held"}
    <3>1. conn'[c] = conn[c]
      BY <2>3
    <3> QED
      BY <2>1, <2>3, <3>1
  <2> QED
    BY <2>2, <2>3
<1>2. AllSound'
  BY <1>1 DEF AllSound
<1>3. \A k \in Slots : slots'[k] = NoConn
  OBVIOUS
<1>4. HasSlot' /\ OwnSlot'
  BY <1>1, <1>3, NoConnIsNone DEF HasSlot, OwnSlot
<1>5. InQueue' /\ Once'
  BY <1>1 DEF InQueue, Once
<1> QED
  BY <1>2, <1>4, <1>5 DEF Owners

-----------------------------------------------------------------------------
(* What the steps do to the connections, the table and the queue.          *)

Kept == AllSound /\ SlotsTyped /\ Owners

\* A connection changes that keeps its place.
LEMMA OneKept ==
  ASSUME Kept, NEW d \in Conns, NEW r \in Conn, Sound(r), r.end = conn[d].end,
         conn' = [conn EXCEPT ![d] = r], slots' = slots, queue' = queue
  PROVE  Kept'
<1>1. /\ AllSound' /\ conn'[d] = r
      /\ \A c \in Conns : c # d => conn'[c] = conn[c]
  BY OneChanges DEF Kept
<1>2. \A c \in Conns : conn'[c].end = conn[c].end
  BY <1>1
<1>3. Owners'
  BY <1>2, SameOwners DEF Kept
<1> QED
  BY <1>1, <1>3 DEF Kept, SlotsTyped

\* A client loses its slot.
LEMMA SlotClosed ==
  ASSUME Kept, NEW k \in Slots, slots[k] \in Conns,
         conn' = [conn EXCEPT ![slots[k]] = HostClosed(@)],
         slots' = [slots EXCEPT ![k] = NoConn], queue' = queue
  PROVE  Kept'
<1>1. PICK r : r = HostClosed(conn[slots[k]])
  OBVIOUS
<1>2. r \in Conn /\ Sound(r) /\ r.end \in {"none", "closed"}
  <2>1. conn[slots[k]] \in Conn /\ Sound(conn[slots[k]])
    BY DEF Kept, AllSound
  <2> QED
    BY <1>1, <2>1, ClosedSound
<1>3. conn' = [conn EXCEPT ![slots[k]] = r]
  BY <1>1
<1>4. /\ AllSound' /\ conn'[slots[k]] = r
      /\ \A c \in Conns : c # slots[k] => conn'[c] = conn[c]
  BY <1>2, <1>3, OneChanges DEF Kept
<1>5. Owners'
  BY <1>2, <1>4, OwnerCloses DEF Kept
<1>6. SlotsTyped'
  BY DEF Kept, SlotsTyped
<1> QED
  BY <1>4, <1>5, <1>6 DEF Kept

\* The first that waits is closed.
LEMMA FirstClosed ==
  ASSUME Kept, queue # <<>>, conn' = [conn EXCEPT ![Head(queue)] = HostClosed(@)],
         queue' = Tail(queue), slots' = slots
  PROVE  Kept'
<1>1. queue \in Seq(Conns) /\ Head(queue) \in Conns /\ queue' \in Seq(Conns)
  BY DEF Kept, SlotsTyped
<1>2. PICK r : r = HostClosed(conn[Head(queue)])
  OBVIOUS
<1>3. r \in Conn /\ Sound(r) /\ r.end \in {"none", "closed"}
  <2>1. conn[Head(queue)] \in Conn /\ Sound(conn[Head(queue)])
    BY <1>1 DEF Kept, AllSound
  <2> QED
    BY <1>2, <2>1, ClosedSound
<1>4. conn' = [conn EXCEPT ![Head(queue)] = r]
  BY <1>2
<1>5. /\ AllSound' /\ conn'[Head(queue)] = r
      /\ \A c \in Conns : c # Head(queue) => conn'[c] = conn[c]
  BY <1>1, <1>3, <1>4, OneChanges DEF Kept
<1>6. InQueue' /\ Once' /\ conn[Head(queue)].end = "queued"
  BY <1>3, <1>5, FirstLeaves DEF Kept
<1>7. \A c \in Conns : conn'[c].end = "held" <=> conn[c].end = "held"
  BY <1>3, <1>5, <1>6
<1>8. HasSlot' /\ OwnSlot'
  BY <1>7 DEF Kept, Owners, HasSlot, OwnSlot
<1> QED
  BY <1>1, <1>5, <1>6, <1>8 DEF Kept, Owners, SlotsTyped

\* The first that waits gets a free slot.
LEMMA FirstAccepted ==
  ASSUME Kept, queue # <<>>, NEW k \in Slots, slots[k] = NoConn,
         conn' = [conn EXCEPT ![Head(queue)].end = "held"],
         queue' = Tail(queue), slots' = [slots EXCEPT ![k] = Head(queue)]
  PROVE  Kept'
<1>1. queue \in Seq(Conns) /\ Head(queue) \in Conns /\ queue' \in Seq(Conns)
  BY DEF Kept, SlotsTyped
<1>2. PICK r : r = [conn[Head(queue)] EXCEPT !.end = "held"]
  OBVIOUS
<1>3. r \in Conn /\ Sound(r) /\ r.end = "held"
  <2>1. conn[Head(queue)] \in Conn /\ Sound(conn[Head(queue)])
    BY <1>1 DEF Kept, AllSound
  <2>2. /\ r \in Conn /\ r.end = "held" /\ r.asked = conn[Head(queue)].asked
        /\ r.answer = conn[Head(queue)].answer /\ r.peer = conn[Head(queue)].peer
        /\ r.sent = conn[Head(queue)].sent
    BY <1>2, <2>1 DEF Conn, Ends
  <2> QED
    BY <2>1, <2>2, SameAnswer DEF Sound
<1>4. conn' = [conn EXCEPT ![Head(queue)] = r]
  BY <1>2
<1>5. /\ AllSound' /\ conn'[Head(queue)] = r
      /\ \A c \in Conns : c # Head(queue) => conn'[c] = conn[c]
  BY <1>1, <1>3, <1>4, OneChanges DEF Kept
<1>6. InQueue' /\ Once' /\ conn[Head(queue)].end = "queued"
  BY <1>3, <1>5, FirstLeaves DEF Kept
<1>7. \A j \in Slots : /\ slots'[j] = IF j = k THEN Head(queue) ELSE slots[j]
                      /\ slots[j] # Head(queue)
  BY <1>1, <1>6 DEF Kept, Owners, HasSlot, SlotsTyped
<1>8. OwnSlot'
  BY <1>7 DEF Kept, Owners, OwnSlot
<1>9. HasSlot'
  <2> SUFFICES ASSUME NEW c \in Conns
               PROVE  conn'[c].end = "held" <=> \E j \in Slots : slots'[j] = c
    BY DEF HasSlot
  <2>1. CASE c = Head(queue)
    BY <1>3, <1>5, <1>7, <2>1
  <2>2. CASE c # Head(queue)
    <3>1. (\E j \in Slots : slots'[j] = c) <=> \E j \in Slots : slots[j] = c
      BY <1>7, <2>2, NoConnIsNone
    <3>2. conn'[c] = conn[c]
      BY <1>5, <2>2
    <3> QED
      BY <3>1, <3>2 DEF Kept, Owners, HasSlot
  <2> QED
    BY <2>1, <2>2
<1>10. SlotsTyped'
  BY <1>1 DEF Kept, SlotsTyped
<1> QED
  BY <1>5, <1>6, <1>8, <1>9, <1>10 DEF Kept, Owners

-----------------------------------------------------------------------------
(* The invariant.                                                          *)

Places ==
  /\ pc \in {"sync", "accept", "check", "drop", "scan", "exited", "killed"}
  /\ i \in Slots /\ ready \subseteq Conns
  /\ stop \in {"yes", "no"} /\ faults \in 0..MaxFaults

\* Between select and the end of what it found, somebody waits.
Pending == pc \in {"accept", "check", "drop"} => queue # <<>>

IInv == Kept /\ Places /\ Pending

LEMMA SlotsExist == Slots \subseteq Nat /\ 1 \in Slots /\ MAX_MODBUS_CLIENTS \in Nat
<1>1. MAX_MODBUS_CLIENTS \in Nat \ {0}
  BY TcpAssumption
<1> QED
  BY <1>1 DEF Slots

LEMMA NextSlotPlaces ==
  ASSUME Places, NEW where \in {"check", "scan"}, NextSlot(where)
  PROVE  i' \in Slots /\ pc' \in {where, IF where = "check" THEN "drop" ELSE "sync"}
  BY SlotsExist DEF Places, NextSlot, Slots

LEMMA InitIInv == Init => IInv
<1> SUFFICES ASSUME Init PROVE IInv
  OBVIOUS
<1>1. AllSound
  BY AbsentSound DEF Init, AllSound
<1>2. SlotsTyped
  BY DEF Init, SlotsTyped
<1>3. Absent.end = "none"
  BY DEF Absent
<1>4. HasSlot /\ OwnSlot
  BY <1>3, NoConnIsNone DEF Init, HasSlot, OwnSlot
<1>5. InQueue /\ Once
  BY <1>3 DEF Init, InQueue, Once
<1>6. 0 \in 0..MaxFaults
  BY TcpAssumption
<1>7. Places /\ Pending
  BY <1>6, SlotsExist DEF Init, Places, Pending
<1> QED
  BY <1>1, <1>2, <1>4, <1>5, <1>7 DEF IInv, Kept, Owners

\* The process ends, by itself or by SIGPIPE.
LEMMA GoneKept ==
  ASSUME Kept, queue' = <<>>, slots' = [k \in Slots |-> NoConn],
         conn' = [c \in Conns |-> IF conn[c].end \in {"queued", "held"}
                                   THEN HostClosed(conn[c]) ELSE conn[c]]
  PROVE  Kept'
<1>1. AllSound' /\ Owners'
  BY HostGone DEF Kept
<1>2. SlotsTyped'
  BY DEF SlotsTyped
<1> QED
  BY <1>1, <1>2 DEF Kept

\* A send changes only what the kernel knows of the caller.
LEMMA PeerKept ==
  ASSUME Kept, NEW c \in Conns, NEW peer \in SentTo(conn[c].peer),
         conn' = [conn EXCEPT ![c].peer = peer], slots' = slots, queue' = queue
  PROVE  Kept'
<1>1. conn[c] \in Conn /\ Sound(conn[c])
  BY DEF Kept, AllSound
<1>2. PICK r : r = [conn[c] EXCEPT !.peer = peer]
  OBVIOUS
<1>3. peer \in Peers /\ (conn[c].peer = "open" => peer = "open")
  BY <1>1 DEF SentTo, Peers, Conn
<1>4. /\ r \in Conn /\ r.end = conn[c].end /\ r.asked = conn[c].asked
      /\ r.answer = conn[c].answer /\ r.peer = peer /\ r.sent = conn[c].sent
  BY <1>1, <1>2, <1>3 DEF Conn
<1>5. Sound(r)
  BY <1>1, <1>3, <1>4, SameAnswer DEF Sound
<1>6. conn' = [conn EXCEPT ![c] = r]
  BY <1>2
<1> QED
  BY <1>4, <1>5, <1>6, OneKept

\* checkclients (modbusserver.c:274-294).
LEMMA CheckStep ==
  ASSUME IInv, CheckSlot
  PROVE  IInv'
<1>0. Kept /\ Places /\ Pending /\ pc = "check"
  BY DEF IInv, CheckSlot, At
<1>1. CASE slots[i] = NoConn
  <2>1. NextSlot("check") /\ conn' = conn /\ queue' = queue /\ slots' = slots
    BY <1>1 DEF CheckSlot
  <2>2. i' \in Slots /\ pc' \in {"check", "drop"}
    BY <1>0, <2>1, NextSlotPlaces
  <2>3. Kept'
    BY <1>0, <2>1 DEF Kept, AllSound, SlotsTyped, Owners, HasSlot, OwnSlot, InQueue, Once
  <2> QED
    BY <1>0, <2>1, <2>2, <2>3 DEF IInv, Places, Pending, CheckSlot
<1>2. CASE slots[i] # NoConn
  <2>1. slots[i] \in Conns /\ i \in Slots
    BY <1>0, <1>2 DEF Kept, SlotsTyped, Places
  <2>2. Check(slots[i])
    BY <1>2 DEF CheckSlot
  <2>3. CASE NextSlot("check")
    <3>1. i' \in Slots /\ pc' \in {"check", "drop"}
      BY <1>0, <2>3, NextSlotPlaces
    <3>2. queue' = queue /\ Kept'
      <4>1. CASE conn[slots[i]].peer \notin {"reset", "broken"}
        <5>1. queue' = queue /\ slots' = slots
          BY <2>2, <4>1 DEF Check
        <5>2. PICK peer \in SentTo(conn[slots[i]].peer) :
                conn' = [conn EXCEPT ![slots[i]].peer = peer]
          BY <2>2, <4>1 DEF Check
        <5> QED
          BY <1>0, <2>1, <5>1, <5>2, PeerKept
      <4>2. CASE conn[slots[i]].peer = "reset"
        <5>1. /\ conn' = [conn EXCEPT ![slots[i]] = HostClosed(@)]
              /\ slots' = [slots EXCEPT ![i] = NoConn] /\ queue' = queue
          BY <2>2, <4>2 DEF Check
        <5> QED
          BY <1>0, <2>1, <5>1, SlotClosed
      <4>3. CASE conn[slots[i]].peer = "broken"
        <5>1. Kill
          BY <2>2, <4>3 DEF Check
        <5>2. FALSE
          BY <3>1, <5>1 DEF Kill
        <5> QED
          BY <5>2
      <4> QED
        BY <4>1, <4>2, <4>3
    <3> QED
      BY <1>0, <3>1, <3>2 DEF IInv, Places, Pending, CheckSlot
  <2>4. CASE Kill /\ i' = i
    <3>1. Kept'
      BY <1>0, <2>4, GoneKept DEF Kill
    <3> QED
      BY <1>0, <2>4, <3>1 DEF IInv, Places, Pending, CheckSlot, Kill
  <2> QED
    BY <2>2, <2>3, <2>4 DEF Check
<1> QED
  BY <1>1, <1>2

\* process, with an answer (modbusserver.c:195-273).
LEMMA ProcessKept ==
  ASSUME Kept, NEW c \in Conns, Process(c), queue' = queue
  PROVE  Kept'
<1>1. conn[c] \in Conn /\ Sound(conn[c])
  BY DEF Kept, AllSound
<1>2. conn[c].sent = "yes" /\ slots' = slots
  BY DEF Process
<1>3. PICK peer \in SentTo(conn[c].peer) :
        conn' = [conn EXCEPT ![c] = Processed(conn[c], peer)]
  BY DEF Process
<1>4. peer \in Peers /\ (peer = "open" <=> conn[c].peer = "open")
  BY <1>1 DEF SentTo, Peers, Conn
<1>5. CASE peer = "open"
  <2>1. PICK r : r = Processed(conn[c], "open")
    OBVIOUS
  <2>2. r \in Conn /\ Sound(r) /\ r.end = conn[c].end
    BY <1>1, <1>2, <1>4, <1>5, <2>1, AnsweredSound
  <2>3. conn' = [conn EXCEPT ![c] = r]
    BY <1>3, <1>5, <2>1
  <2> QED
    BY <1>2, <2>2, <2>3, OneKept
<1>6. CASE peer # "open"
  <2>1. PICK r : r = [conn[c] EXCEPT !.sent = "none", !.peer = peer, !.asked = Nothing]
    OBVIOUS
  <2>2. r \in Conn /\ r.end = conn[c].end /\ r.sent = "none" /\ r.answer = conn[c].answer
    BY <1>1, <1>4, <2>1 DEF Conn
  <2>3. r.answer = Nothing
    BY <1>1, <1>4, <1>6, <2>2 DEF Sound
  <2>4. Sound(r)
    BY <2>2, <2>3, NoAnswer
  <2>5. conn' = [conn EXCEPT ![c] = r]
    BY <1>3, <1>6, <2>1 DEF Processed
  <2> QED
    BY <1>2, <2>2, <2>4, <2>5, OneKept
<1> QED
  BY <1>5, <1>6

LEMMA ReadFailsKept ==
  ASSUME Kept, NEW c \in Conns, ReadFails(c), queue' = queue
  PROVE  Kept'
<1>1. conn[c] \in Conn /\ Sound(conn[c]) /\ conn[c].peer = "reset" /\ slots' = slots
  BY DEF Kept, AllSound, ReadFails
<1>2. PICK r : r = [conn[c] EXCEPT !.peer = "broken", !.sent = "none", !.asked = Nothing]
  OBVIOUS
<1>3. r \in Conn /\ r.end = conn[c].end /\ r.sent = "none" /\ r.answer = conn[c].answer
  BY <1>1, <1>2 DEF Conn, Peers
<1>4. Sound(r)
  <2>1. r.answer = Nothing
    BY <1>1, <1>3 DEF Sound
  <2> QED
    BY <1>3, <2>1, NoAnswer
<1>5. conn' = [conn EXCEPT ![c] = r]
  BY <1>2 DEF ReadFails
<1> QED
  BY <1>1, <1>3, <1>4, <1>5, OneKept

\* The slots that select found (modbusserver.c:161-190).
LEMMA ScanStep ==
  ASSUME IInv, ScanSlot
  PROVE  IInv'
<1>0. Kept /\ Places /\ pc = "scan" /\ ready' = ready /\ stop' = stop /\ faults' = faults
  BY DEF IInv, ScanSlot, At
<1>1. ASSUME NextSlot("scan"), queue' = queue, Kept' PROVE IInv'
  <2>1. i' \in Slots /\ pc' \in {"scan", "sync"}
    BY <1>0, <1>1, NextSlotPlaces
  <2> QED
    BY <1>0, <1>1, <2>1 DEF IInv, Places, Pending
<1>2. CASE slots[i] \notin ready
  <2>1. NextSlot("scan") /\ conn' = conn /\ queue' = queue /\ slots' = slots
    BY <1>2 DEF ScanSlot
  <2>2. Kept'
    BY <1>0, <2>1 DEF Kept, AllSound, SlotsTyped, Owners, HasSlot, OwnSlot, InQueue, Once
  <2> QED
    BY <1>1, <2>1, <2>2
<1>3. CASE slots[i] \in ready
  <2>0. slots[i] \in Conns /\ i \in Slots
    BY <1>0, <1>3 DEF Places
  <2>1. CASE EndClient(slots[i]) /\ queue' = queue /\ NextSlot("scan")
    <3>1. Kept'
      BY <1>0, <2>0, <2>1, SlotClosed DEF EndClient
    <3> QED
      BY <1>1, <2>1, <3>1
  <2>2. CASE ReadFails(slots[i]) /\ queue' = queue /\ NextSlot("scan")
    BY <1>0, <1>1, <2>0, <2>2, ReadFailsKept
  <2>3. CASE Process(slots[i]) /\ queue' = queue /\ NextSlot("scan")
    BY <1>0, <1>1, <2>0, <2>3, ProcessKept
  <2>4. CASE ProcessBroken(slots[i])
    <3>1. Kept'
      BY <1>0, <2>4, GoneKept DEF ProcessBroken, Kill
    <3> QED
      BY <1>0, <2>4, <3>1 DEF IInv, Places, Pending, ProcessBroken, Kill
  <2> QED
    BY <1>3, <2>1, <2>2, <2>3, <2>4 DEF ScanSlot
<1> QED
  BY <1>2, <1>3

LEMMA BodyStep ==
  ASSUME IInv, Body
  PROVE  IInv'
<1>0. Kept /\ Places /\ Pending
  BY DEF IInv
<1>1. CASE Select \/ Full
  <2>1. conn' = conn /\ queue' = queue /\ slots' = slots /\ stop' = stop /\ faults' = faults
    BY <1>1 DEF Select, Full
  <2>2. Kept'
    BY <1>0, <2>1 DEF Kept, AllSound, SlotsTyped, Owners, HasSlot, OwnSlot, InQueue, Once
  <2>3. i' \in Slots /\ ready' \subseteq Conns /\ pc' \in {"accept", "scan", "check"}
    BY <1>0, <1>1, SlotsExist DEF Select, Full, Places, Held
  <2>4. Pending'
    BY <1>0, <1>1, <2>1 DEF Pending, Select, Full, At
  <2> QED
    BY <1>0, <2>1, <2>2, <2>3, <2>4 DEF IInv, Places
<1>2. CASE AcceptFails \/ Drop
  <2>1. queue # <<>>
    BY <1>0, <1>2 DEF Pending, AcceptFails, Drop, At
  <2>2. Kept'
    <3>1. CASE conn' = conn /\ queue' = queue
      BY <1>0, <1>2, <3>1
         DEF AcceptFails, Drop, Kept, AllSound, SlotsTyped, Owners, HasSlot, OwnSlot, InQueue, Once
    <3>2. CASE conn' = [conn EXCEPT ![Head(queue)] = HostClosed(@)] /\ queue' = Tail(queue)
      BY <1>0, <1>2, <2>1, <3>2, FirstClosed DEF AcceptFails, Drop
    <3> QED
      BY <1>2, <3>1, <3>2 DEF AcceptFails, Drop
  <2>3. faults' \in 0..MaxFaults
    <3>1. MaxFaults \in Nat
      BY TcpAssumption
    <3> QED
      BY <1>0, <1>2, <3>1 DEF AcceptFails, Drop, Places
  <2> QED
    BY <1>0, <1>2, <2>2, <2>3 DEF AcceptFails, Drop, IInv, Places, Pending
<1>3. CASE Accept
  <2>1. queue # <<>>
    BY <1>0, <1>3 DEF Pending, Accept, At
  <2>2. PICK k \in Slots : slots[k] = NoConn /\ slots' = [slots EXCEPT ![k] = Head(queue)]
    BY <1>3 DEF Accept, Free
  <2>3. Kept'
    BY <1>0, <1>3, <2>1, <2>2, FirstAccepted DEF Accept
  <2> QED
    BY <1>0, <1>3, <2>3 DEF Accept, IInv, Places, Pending
<1>4. CASE Shutdown
  <2>1. Kept'
    BY <1>0, <1>4, GoneKept DEF Shutdown
  <2> QED
    BY <1>0, <1>4, <2>1 DEF Shutdown, IInv, Places, Pending
<1> QED
  BY <1>1, <1>2, <1>3, <1>4, CheckStep, ScanStep DEF Body

Caller(c) == Connect(c) \/ Ask(c) \/ ReadAnswer(c) \/ Leave(c) \/ GiveUp(c)

\* A new caller is the last of the queue.
LEMMA ConnectKept ==
  ASSUME Kept, NEW c \in Conns, Connect(c)
  PROVE  Kept'
<1>1. slots' = slots /\ queue' = Append(queue, c) /\ conn[c].end = "none"
  BY DEF Connect, Absent
<1>2. PICK r : r = [Absent EXCEPT !.end = "queued", !.peer = "open"]
  OBVIOUS
<1>3. r \in Conn /\ Sound(r) /\ r.end = "queued"
  <2>1. r \in Conn /\ r.end = "queued" /\ r.answer = Nothing /\ r.sent = "none"
    BY <1>2, AbsentSound DEF Conn, Ends, Peers, Absent
  <2> QED
    BY <2>1, NoAnswer
<1>4. conn' = [conn EXCEPT ![c] = r]
  BY <1>2 DEF Connect
<1>5. /\ AllSound' /\ conn'[c] = r /\ \A d \in Conns : d # c => conn'[d] = conn[d]
  BY <1>3, <1>4, OneChanges DEF Kept
<1>6. queue \in Seq(Conns) /\ Len(queue) \in Nat /\ DOMAIN queue = 1..Len(queue)
  BY DEF Kept, SlotsTyped
<1>7. /\ DOMAIN queue' = 1..(Len(queue) + 1) /\ queue'[Len(queue) + 1] = c
      /\ \A k \in DOMAIN queue : queue'[k] = queue[k]
      /\ queue' \in Seq(Conns)
  BY <1>1, <1>6
<1>8. \A k \in DOMAIN queue : queue[k] # c
  BY <1>1 DEF Kept, Owners, InQueue
<1>9. Once'
  BY <1>6, <1>7, <1>8 DEF Kept, Owners, Once
<1>10. InQueue'
  <2> SUFFICES ASSUME NEW d \in Conns
               PROVE  conn'[d].end = "queued" <=> \E k \in DOMAIN queue' : queue'[k] = d
    BY DEF InQueue
  <2>1. CASE d = c
    <3>1. Len(queue) + 1 \in DOMAIN queue'
      BY <1>6, <1>7
    <3> QED
      BY <1>3, <1>5, <1>7, <2>1, <3>1
  <2>2. CASE d # c
    <3>1. (\E k \in DOMAIN queue : queue[k] = d) <=> \E k \in DOMAIN queue' : queue'[k] = d
      BY <1>6, <1>7, <2>2
    <3>2. conn'[d] = conn[d]
      BY <1>5, <2>2
    <3> QED
      BY <3>1, <3>2 DEF Kept, Owners, InQueue
  <2> QED
    BY <2>1, <2>2
<1>11. \A d \in Conns : conn'[d].end = "held" <=> conn[d].end = "held"
  BY <1>1, <1>3, <1>5
<1>12. HasSlot' /\ OwnSlot'
  BY <1>1, <1>11 DEF Kept, Owners, HasSlot, OwnSlot
<1> QED
  BY <1>1, <1>5, <1>7, <1>9, <1>10, <1>12 DEF Kept, Owners, SlotsTyped

LEMMA CallerKept ==
  ASSUME Kept, NEW c \in Conns, Caller(c)
  PROVE  Kept'
<1>0. conn[c] \in Conn /\ Sound(conn[c])
  BY DEF Kept, AllSound
<1>1. CASE Connect(c)
  BY <1>1, ConnectKept
<1>2. CASE Ask(c)
  <2>1. slots' = slots /\ queue' = queue /\ conn[c].asked = Nothing
    BY <1>2 DEF Ask
  <2>2. PICK request \in Requests :
          conn' = [conn EXCEPT ![c].asked = request, ![c].sent = "yes"]
    BY <1>2 DEF Ask
  <2>3. PICK r : r = [conn[c] EXCEPT !.asked = request, !.sent = "yes"]
    OBVIOUS
  <2>4. /\ r \in Conn /\ r.end = conn[c].end /\ r.answer = conn[c].answer
        /\ r.asked = request
    BY <1>0, <2>3 DEF Conn
  <2>5. request # Nothing
    <3>1. Requests \subseteq (0..LastAdress) \X (0..LastAdress)
      BY TcpAssumption
    <3>2. request \in (0..LastAdress) \X (0..LastAdress)
      BY <3>1
    <3> QED
      BY <3>2 DEF Nothing
  <2>6. Sound(r)
    <3>1. r.answer = Nothing
      BY <1>0, <2>1, <2>4 DEF Sound
    <3> QED
      BY <2>4, <2>5, <3>1, NoAnswer
  <2>7. conn' = [conn EXCEPT ![c] = r]
    BY <2>2, <2>3 DEF Kept, AllSound
  <2> QED
    BY <2>1, <2>4, <2>6, <2>7, OneKept
<1>3. CASE ReadAnswer(c)
  <2>1. slots' = slots /\ queue' = queue
    BY <1>3 DEF ReadAnswer
  <2>2. PICK r : r = [conn[c] EXCEPT !.asked = Nothing, !.answer = Nothing]
    OBVIOUS
  <2>3. r \in Conn /\ r.end = conn[c].end /\ r.answer = Nothing /\ r.sent = conn[c].sent
    BY <1>0, <2>2 DEF Conn, Answers
  <2>4. Sound(r)
    <3>1. r.sent = "none"
      BY <1>0, <1>3, <2>3 DEF Sound, ReadAnswer
    <3> QED
      BY <2>3, <3>1, NoAnswer
  <2>5. conn' = [conn EXCEPT ![c] = r]
    BY <1>3, <2>2 DEF ReadAnswer, Kept, AllSound
  <2> QED
    BY <2>1, <2>3, <2>4, <2>5, OneKept
<1>4. CASE Leave(c)
  <2>1. slots' = slots /\ queue' = queue
    BY <1>4 DEF Leave
  <2>2. PICK peer \in {"closed", "reset", "vanished"} :
          conn' = [conn EXCEPT ![c] = Left(conn[c], peer)]
    BY <1>4 DEF Leave
  <2>3. PICK r : r = Left(conn[c], peer)
    OBVIOUS
  <2>4. /\ r \in Conn /\ Sound(r)
        /\ r.end = conn[c].end \/ (conn[c].end \notin {"queued", "held"} /\ r.end = "none")
    BY <1>0, <2>3, LeftSound
  <2>5. conn' = [conn EXCEPT ![c] = r]
    BY <2>2, <2>3
  <2>6. AllSound' /\ conn'[c] = r /\ \A d \in Conns : d # c => conn'[d] = conn[d]
    BY <2>4, <2>5, OneChanges DEF Kept
  <2>7. \A d \in Conns : /\ conn'[d].end = "held" <=> conn[d].end = "held"
                         /\ conn'[d].end = "queued" <=> conn[d].end = "queued"
    BY <2>4, <2>6
  <2>8. Owners'
    BY <2>1, <2>7, SameOwners DEF Kept
  <2> QED
    BY <2>1, <2>6, <2>8 DEF Kept, SlotsTyped
<1>5. CASE GiveUp(c)
  <2>1. slots' = slots /\ queue' = queue /\ conn[c].peer = "lost"
    BY <1>5 DEF GiveUp
  <2>2. PICK r : r = [conn[c] EXCEPT !.peer = "reset"]
    OBVIOUS
  <2>3. /\ r \in Conn /\ r.end = conn[c].end /\ r.answer = conn[c].answer
        /\ r.sent = conn[c].sent /\ r.asked = conn[c].asked
    BY <1>0, <2>2 DEF Conn, Peers
  <2>4. Sound(r)
    <3>1. r.answer = Nothing
      BY <1>0, <2>1, <2>3 DEF Sound
    <3>2. r.sent = "yes" => r.asked # Nothing
      BY <1>0, <2>3 DEF Sound
    <3> QED
      BY <3>1, <3>2, NoAnswer
  <2>5. conn' = [conn EXCEPT ![c] = r]
    BY <1>5, <2>2 DEF GiveUp
  <2> QED
    BY <1>5, <2>1, <2>3, <2>4, <2>5, OneKept DEF GiveUp
<1> QED
  BY <1>1, <1>2, <1>3, <1>4, <1>5 DEF Caller

\* Every step preserves the invariant.
LEMMA StepIInv == IInv /\ [Next]_vars => IInv'
<1> SUFFICES ASSUME IInv, [Next]_vars PROVE IInv'
  OBVIOUS
<1>0. Kept /\ Places /\ Pending
  BY DEF IInv
<1>1. CASE Body
  BY <1>1, BodyStep
<1>2. ASSUME NEW c \in Conns, Caller(c)
      PROVE  IInv'
  <2>1. Kept'
    BY <1>0, <1>2, CallerKept
  <2>2. /\ pc' = pc /\ i' = i /\ ready' = ready /\ stop' = stop /\ faults' = faults
        /\ queue' = queue \/ queue' = Append(queue, c)
    BY <1>2 DEF Caller, Connect, Ask, ReadAnswer, Leave, GiveUp, thread
  <2>3. queue # <<>> => queue' # <<>>
    BY <1>0, <2>2 DEF Kept, SlotsTyped
  <2> QED
    BY <1>0, <2>1, <2>2, <2>3 DEF IInv, Places, Pending
<1>3. CASE Stop
  BY <1>0, <1>3 DEF Stop, IInv, Kept, AllSound, SlotsTyped, Owners, HasSlot, OwnSlot, InQueue,
                    Once, Places, Pending, thread
<1>4. CASE UNCHANGED vars
  BY <1>0, <1>4 DEF vars, IInv, Kept, AllSound, SlotsTyped, Owners, HasSlot, OwnSlot, InQueue,
                    Once, Places, Pending, thread
<1> QED
  BY <1>1, <1>2, <1>3, <1>4 DEF Next, Caller

\* The invariant holds in every reachable state.
LEMMA Invariance == Spec => []IInv
  BY InitIInv, StepIInv, PTL DEF Spec

-----------------------------------------------------------------------------

\* Every reachable state of the Modbus TCP server has the right types (modbusserver.c).
THEOREM TypeCorrect == Spec => []TypeOK
<1>1. IInv => TypeOK
  BY DEF IInv, Kept, AllSound, SlotsTyped, Places, TypeOK, Conn, Ends, Peers, Answers
<1> QED
  BY <1>1, Invariance, PTL

\* However clients come, leave, vanish and are thrown out, those the host has open are
\* those with one slot, and the others wait once or are closed
\* (modbusserver.c:117-190, 274-294).
THEOREM OneSlotCorrect == Spec => []OneSlot
<1>1. IInv => OneSlot
  BY DEF IInv, Kept, Owners, HasSlot, OwnSlot, InQueue, Once, OneSlot
<1> QED
  BY <1>1, Invariance, PTL

\* For every table of registers with whatever gaps, and every request: an answer with
\* the number of registers asked for has those asked for (modbusserver.c:236-266,
\* memory.c:612-632, 1446-1476).
THEOREM AlignedCorrect == Spec => []Aligned
<1>1. IInv => Aligned
  BY DEF IInv, Kept, AllSound, Sound, RightAnswer, Aligned
<1> QED
  BY <1>1, Invariance, PTL
=============================================================================
