------------------------------ MODULE MttpProofs ------------------------------
(***************************************************************************)
(* Proofs about the transport protocol: what MessageBuffer writes,         *)
(* AddMessage reads, for messages of any length and any bytes, and what    *)
(* that means for the server's link.                                       *)
(***************************************************************************)
EXTENDS MessageBuffer, ServerLink, WellFoundedInduction, TLAPS

-----------------------------------------------------------------------------
(* Induction over the natural numbers: there is no least counterexample.   *)

LEMMA Induction ==
  ASSUME NEW S \in SUBSET Nat, 0 \in S, \A n \in S : n + 1 \in S
  PROVE  \A n \in Nat : n \in S
<1> DEFINE T == Nat \ S
           R == OpToRel(<, Nat)
<1> SUFFICES ASSUME T # {} PROVE FALSE
  OBVIOUS
<1>1. IsWellFoundedOn(R, Nat)
  BY NatLessThanWellFounded
<1>2. PICK x \in T : \A y \in T : ~ (<<y, x>> \in R)
  <2> HIDE DEF R
  <2>1. T \subseteq Nat
    OBVIOUS
  <2> HIDE DEF T
  <2> QED
    BY <1>1, <2>1, WFMin
<1>3. x \in Nat /\ x # 0
  OBVIOUS
<1>4. x - 1 \in Nat /\ x - 1 \notin S
  BY <1>3
<1>5. <<x - 1, x>> \in R
  BY <1>3 DEF OpToRel
<1> QED
  BY <1>2, <1>4, <1>5

-----------------------------------------------------------------------------
(* FlattenSeq.                                                             *)

\* The function FlattenSeq defines, on the first m elements.
Flat(ss, m) ==
  CHOOSE f : f = [i \in 1..m |-> IF i = 1 THEN ss[i] ELSE f[i - 1] \o ss[i]]

IsFlat(ss, m, f) == f = [i \in 1..m |-> IF i = 1 THEN ss[i] ELSE f[i - 1] \o ss[i]]

LEMMA FlatExtended ==
  ASSUME NEW ss, NEW k \in Nat, NEW f, IsFlat(ss, k, f)
  PROVE  \E g : IsFlat(ss, k + 1, g)
<1> DEFINE last == IF k = 0 THEN ss[1] ELSE f[k] \o ss[k + 1]
           g == [i \in 1..(k + 1) |-> IF i = k + 1 THEN last ELSE f[i]]
<1>1. ASSUME NEW i \in 1..(k + 1)
      PROVE  g[i] = IF i = 1 THEN ss[i] ELSE g[i - 1] \o ss[i]
  <2>1. CASE i = k + 1
    <3>1. g[i] = last
      BY <2>1
    <3>2. k # 0 => i # 1 /\ i - 1 \in 1..(k + 1) /\ i - 1 # k + 1 /\ i - 1 = k
      BY <2>1
    <3>3. k # 0 => g[i - 1] = f[k]
      BY <3>2
    <3> HIDE DEF g
    <3> QED
      BY <2>1, <3>1, <3>2, <3>3
  <2>2. CASE i # k + 1
    <3>1. g[i] = f[i] /\ i \in 1..k
      BY <2>2
    <3>2. i # 1 => i - 1 \in 1..(k + 1) /\ i - 1 # k + 1
      BY <2>2
    <3>3. i # 1 => g[i - 1] = f[i - 1]
      BY <3>2
    <3>4. f[i] = IF i = 1 THEN ss[i] ELSE f[i - 1] \o ss[i]
      BY <3>1 DEF IsFlat
    <3> HIDE DEF g
    <3> QED
      BY <3>1, <3>3, <3>4
  <2> QED
    BY <2>1, <2>2
<1>2. g = [i \in 1..(k + 1) |-> g[i]]
  OBVIOUS
<1> HIDE DEF g
<1>3. IsFlat(ss, k + 1, g)
  BY <1>1, <1>2 DEF IsFlat
<1> QED
  BY <1>3

LEMMA FlatDefined ==
  ASSUME NEW ss, NEW m \in Nat
  PROVE  IsFlat(ss, m, Flat(ss, m))
<1> DEFINE S == {k \in Nat : \E f : IsFlat(ss, k, f)}
<1>1. 0 \in S
  <2> DEFINE f == [i \in 1..0 |-> ss[i]]
  <2>1. f = [i \in 1..0 |-> IF i = 1 THEN ss[i] ELSE f[i - 1] \o ss[i]]
    <3>1. 1..0 = {}
      OBVIOUS
    <3> QED
      BY <3>1
  <2> HIDE DEF f
  <2> QED
    BY <2>1 DEF IsFlat
<1>2. \A k \in S : k + 1 \in S
  BY FlatExtended
<1>3. S \in SUBSET Nat
  OBVIOUS
<1> HIDE DEF S
<1>4. m \in S
  BY <1>1, <1>2, <1>3, Induction
<1> QED
  BY <1>4 DEF S, Flat, IsFlat

LEMMA FlattenIsFlat ==
  ASSUME NEW ss
  PROVE  FlattenSeq(ss) = IF Len(ss) = 0 THEN ss ELSE Flat(ss, Len(ss))[Len(ss)]
  BY DEF FlattenSeq, Flat

LEMMA Concatenation ==
  ASSUME NEW S, NEW s \in Seq(S), NEW t \in Seq(S)
  PROVE  /\ s \o t \in Seq(S)
         /\ Len(s) \in Nat /\ Len(t) \in Nat
         /\ Len(s \o t) = Len(s) + Len(t)
         /\ \A i \in 1..Len(s) : (s \o t)[i] = s[i]
         /\ \A i \in 1..Len(t) : (s \o t)[Len(s) + i] = t[i]
  OBVIOUS

\* A function is given another value at one point.
FunctionWith(f, D, x, v) == [y \in D \cup {x} |-> IF y = x THEN v ELSE f[y]]

LEMMA Extension ==
  ASSUME NEW f, NEW D, NEW x, NEW v
  PROVE  /\ FunctionWith(f, D, x, v)[x] = v
         /\ \A y \in D : y # x => FunctionWith(f, D, x, v)[y] = f[y]
  BY DEF FunctionWith

\* Where the elements of the first m sequences lie: behind o[k] those of number k + 1.
LaidOut(ss, m, s, o) ==
  /\ o[0] = 0
  /\ \A k \in 0..m : o[k] \in Nat /\ o[k] <= Len(s)
  /\ \A k \in 0..(m - 1) : Len(ss[k + 1]) \in Nat /\ o[k + 1] = o[k] + Len(ss[k + 1])
  /\ Len(s) = o[m]
  /\ \A k \in 0..(m - 1) : \A i \in 1..Len(ss[k + 1]) : s[o[k] + i] = ss[k + 1][i]

LEMMA LaidOutFirst ==
  ASSUME NEW S, NEW ss, ss[1] \in Seq(S)
  PROVE  \E o : LaidOut(ss, 1, ss[1], o)
<1> DEFINE o == [k \in 0..1 |-> IF k = 0 THEN 0 ELSE Len(ss[1])]
<1>2. o[0] = 0 /\ o[1] = Len(ss[1]) /\ Len(ss[1]) \in Nat
  OBVIOUS
<1> HIDE DEF o
<1>3. LaidOut(ss, 1, ss[1], o)
  BY <1>2 DEF LaidOut
<1> QED
  BY <1>3

LEMMA LaidOutNext ==
  ASSUME NEW S, NEW ss, NEW l \in Nat, NEW s \in Seq(S), ss[l + 1] \in Seq(S),
         NEW o, LaidOut(ss, l, s, o)
  PROVE  \E p : LaidOut(ss, l + 1, s \o ss[l + 1], p)
<1> DEFINE t == ss[l + 1]
<1>1. PICK u : u = s \o t
  OBVIOUS
<1>2. /\ Len(u) = Len(s) + Len(t) /\ Len(s) \in Nat /\ Len(t) \in Nat
      /\ \A i \in 1..Len(s) : u[i] = s[i]
      /\ \A i \in 1..Len(t) : u[Len(s) + i] = t[i]
  BY <1>1, Concatenation
<1>3. PICK p : p = FunctionWith(o, 0..l, l + 1, Len(u))
  OBVIOUS
<1>4. /\ o[0] = 0 /\ Len(s) = o[l]
      /\ \A k \in 0..l : o[k] \in Nat /\ o[k] <= Len(s)
      /\ \A k \in 0..(l - 1) : Len(ss[k + 1]) \in Nat /\ o[k + 1] = o[k] + Len(ss[k + 1])
      /\ \A k \in 0..(l - 1) : \A i \in 1..Len(ss[k + 1]) : s[o[k] + i] = ss[k + 1][i]
  BY DEF LaidOut
<1>5. p[l + 1] = Len(u) /\ p[l] = Len(s) /\ \A y \in 0..l : p[y] = o[y]
  <2>1. \A y \in 0..l : y # l + 1
    OBVIOUS
  <2>2. p[l + 1] = Len(u) /\ \A y \in 0..l : p[y] = o[y]
    BY <1>3, <2>1, Extension
  <2> QED
    BY <1>4, <2>2
<1> HIDE DEF t
<1>6. p[0] = 0
  BY <1>4, <1>5
<1>7. ASSUME NEW k \in 0..(l + 1)
      PROVE  p[k] \in Nat /\ p[k] <= Len(u)
  <2>1. CASE k = l + 1
    BY <1>2, <1>5, <2>1
  <2>2. CASE k # l + 1
    <3>1. k \in 0..l
      BY <2>2
    <3>2. p[k] \in Nat /\ p[k] <= Len(s)
      BY <1>4, <1>5, <3>1
    <3> QED
      BY <1>2, <3>2
  <2> QED
    BY <2>1, <2>2
<1>8. ASSUME NEW k \in 0..(l + 1 - 1)
      PROVE  /\ Len(ss[k + 1]) \in Nat /\ p[k + 1] = p[k] + Len(ss[k + 1])
             /\ \A i \in 1..Len(ss[k + 1]) : u[p[k] + i] = ss[k + 1][i]
  <2>1. CASE k = l
    BY <1>2, <1>5, <2>1 DEF t
  <2>2. CASE k # l
    <3>1. k \in 0..(l - 1) /\ k \in 0..l /\ k + 1 \in 0..l
      BY <2>2
    <3>2. /\ p[k] = o[k] /\ p[k + 1] = o[k + 1]
          /\ Len(ss[k + 1]) \in Nat /\ o[k + 1] = o[k] + Len(ss[k + 1])
      BY <1>4, <1>5, <3>1
    <3>3. o[k] \in Nat /\ o[k + 1] \in Nat /\ o[k + 1] <= Len(s)
      BY <1>4, <3>1
    <3>4. ASSUME NEW i \in 1..Len(ss[k + 1])
          PROVE  u[p[k] + i] = ss[k + 1][i]
      <4>1. s[o[k] + i] = ss[k + 1][i]
        BY <1>4, <3>1
      <4>2. PICK n : n = Len(ss[k + 1])
        OBVIOUS
      <4>3. n \in Nat /\ i \in 1..n /\ o[k + 1] = o[k] + n
        BY <3>2, <4>2
      <4>4. PICK from, to : from = o[k] /\ to = o[k + 1]
        OBVIOUS
      <4>5. o[k] + i \in 1..Len(s)
        <5>1. /\ from \in Nat /\ to \in Nat /\ to = from + n /\ to <= Len(s)
              /\ n \in Nat /\ Len(s) \in Nat
          BY <1>2, <3>3, <4>3, <4>4
        <5>2. from + i \in 1..Len(s)
          BY ONLY <4>3, <5>1
        <5> QED
          BY <4>4, <5>2
      <4> QED
        BY <1>2, <3>2, <4>1, <4>5
    <3> QED
      BY <3>2, <3>4
  <2> QED
    BY <2>1, <2>2
<1>9. LaidOut(ss, l + 1, u, p)
  BY <1>5, <1>6, <1>7, <1>8 DEF LaidOut
<1> QED
  BY <1>1, <1>9 DEF t

LEMMA FlatLaidOut ==
  ASSUME NEW S, NEW ss \in Seq(Seq(S)), NEW m \in Nat, m + 1 <= Len(ss)
  PROVE  /\ Flat(ss, Len(ss))[m + 1] \in Seq(S)
         /\ \E o : LaidOut(ss, m + 1, Flat(ss, Len(ss))[m + 1], o)
<1>1. PICK f : f = Flat(ss, Len(ss))
  OBVIOUS
<1>2. /\ Len(ss) \in Nat
      /\ \A i \in 1..Len(ss) : ss[i] \in Seq(S)
      /\ \A i \in 1..Len(ss) : f[i] = IF i = 1 THEN ss[i] ELSE f[i - 1] \o ss[i]
  <2>1. Len(ss) \in Nat /\ \A i \in 1..Len(ss) : ss[i] \in Seq(S)
    OBVIOUS
  <2>2. IsFlat(ss, Len(ss), f)
    BY <1>1, <2>1, FlatDefined
  <2>3. f = [i \in 1..Len(ss) |-> IF i = 1 THEN ss[i] ELSE f[i - 1] \o ss[i]]
    BY <2>2 DEF IsFlat
  <2> QED
    BY <2>1, <2>3
<1> DEFINE T == {k \in Nat : k + 1 <= Len(ss) =>
                   f[k + 1] \in Seq(S) /\ \E o : LaidOut(ss, k + 1, f[k + 1], o)}
<1>3. 0 \in T
  <2> SUFFICES ASSUME 1 <= Len(ss)
               PROVE  f[1] \in Seq(S) /\ \E o : LaidOut(ss, 1, f[1], o)
    OBVIOUS
  <2>1. f[1] = ss[1] /\ ss[1] \in Seq(S)
    BY <1>2
  <2> QED
    BY <2>1, LaidOutFirst
<1>4. ASSUME NEW k \in Nat, NEW l, l = k + 1, l + 1 <= Len(ss),
             f[l] \in Seq(S), NEW o, LaidOut(ss, l, f[l], o)
      PROVE  f[l + 1] \in Seq(S) /\ \E p : LaidOut(ss, l + 1, f[l + 1], p)
  <2>1. /\ l \in Nat /\ l + 1 # 1 /\ (l + 1) - 1 = l
        /\ l + 1 \in 1..Len(ss)
    BY <1>2, <1>4
  <2>2. f[l + 1] = f[l] \o ss[l + 1] /\ ss[l + 1] \in Seq(S)
    BY <1>2, <2>1
  <2>3. \E p : LaidOut(ss, l + 1, f[l] \o ss[l + 1], p)
    BY <1>4, <2>1, <2>2, LaidOutNext
  <2>4. f[l] \o ss[l + 1] \in Seq(S)
    BY <1>4, <2>2, Concatenation
  <2> QED
    BY <2>2, <2>3, <2>4
<1>5. ASSUME NEW k \in T
      PROVE  k + 1 \in T
  <2>1. k \in Nat /\ k + 1 \in Nat
    OBVIOUS
  <2> SUFFICES ASSUME k + 1 + 1 <= Len(ss)
               PROVE  /\ f[k + 1 + 1] \in Seq(S)
                      /\ \E o : LaidOut(ss, k + 1 + 1, f[k + 1 + 1], o)
    BY <2>1
  <2>2. k + 1 <= Len(ss)
    BY <1>2, <2>1
  <2>3. f[k + 1] \in Seq(S) /\ \E o : LaidOut(ss, k + 1, f[k + 1], o)
    BY <2>2
  <2> HIDE DEF T
  <2> QED
    BY <1>4, <2>1, <2>3
<1>6. T \in SUBSET Nat
  OBVIOUS
<1> HIDE DEF T
<1>7. m \in T
  BY <1>3, <1>5, <1>6, Induction
<1> QED
  BY <1>1, <1>7 DEF T

\* FlattenSeq puts the sequences one behind the other.
LEMMA Flattened ==
  ASSUME NEW S, NEW ss \in Seq(Seq(S))
  PROVE  /\ FlattenSeq(ss) \in Seq(S)
         /\ \E o : LaidOut(ss, Len(ss), FlattenSeq(ss), o)
<1>1. CASE Len(ss) = 0
  <2>1. FlattenSeq(ss) = ss /\ ss = <<>>
    BY <1>1, FlattenIsFlat
  <2>2. FlattenSeq(ss) \in Seq(S) /\ Len(FlattenSeq(ss)) = 0
    BY <2>1
  <2> DEFINE o == [k \in 0..0 |-> 0]
  <2>3. o[0] = 0
    OBVIOUS
  <2> HIDE DEF o
  <2>4. LaidOut(ss, Len(ss), FlattenSeq(ss), o)
    BY <1>1, <2>2, <2>3 DEF LaidOut
  <2> QED
    BY <2>2, <2>4
<1>2. CASE Len(ss) # 0
  <2>1. PICK m : m = Len(ss) - 1
    OBVIOUS
  <2>2. m \in Nat /\ m + 1 = Len(ss) /\ m + 1 <= Len(ss)
    BY <1>2, <2>1
  <2>3. FlattenSeq(ss) = Flat(ss, Len(ss))[m + 1]
    BY <1>2, <2>2, FlattenIsFlat
  <2>4. /\ Flat(ss, Len(ss))[m + 1] \in Seq(S)
        /\ \E o : LaidOut(ss, m + 1, Flat(ss, Len(ss))[m + 1], o)
    BY <2>2, FlatLaidOut
  <2> QED
    BY <2>2, <2>3, <2>4
<1> QED
  BY <1>1, <1>2

-----------------------------------------------------------------------------
(* What stands where in a sequence.                                        *)

\* t stands in s behind the first n elements.
Stands(t, s, n) ==
  /\ n \in Nat /\ Len(t) \in Nat /\ n + Len(t) <= Len(s)
  /\ \A i \in 1..Len(t) : s[n + i] = t[i]

LEMMA Joined ==
  ASSUME NEW s \in Seq(Byte), NEW t \in Seq(Byte)
  PROVE  /\ s \o t \in Seq(Byte) /\ Len(s \o t) = Len(s) + Len(t)
         /\ Len(s) \in Nat /\ Len(t) \in Nat
  BY Concatenation

LEMMA StandsFirst ==
  ASSUME NEW s \in Seq(Byte)
  PROVE  Stands(s, s, 0)
  BY DEF Stands

LEMMA StandsLast ==
  ASSUME NEW s \in Seq(Byte), NEW t \in Seq(Byte)
  PROVE  Stands(t, s \o t, Len(s))
  BY Concatenation DEF Stands

LEMMA StandsKept ==
  ASSUME NEW s \in Seq(Byte), NEW r \in Seq(Byte), NEW t, NEW n, Stands(t, s, n)
  PROVE  Stands(t, s \o r, n)
<1>1. /\ Len(s \o r) = Len(s) + Len(r) /\ Len(s) \in Nat /\ Len(r) \in Nat
      /\ \A i \in 1..Len(s) : (s \o r)[i] = s[i]
  BY Concatenation
<1>2. /\ n \in Nat /\ Len(t) \in Nat /\ n + Len(t) <= Len(s)
      /\ \A i \in 1..Len(t) : s[n + i] = t[i]
  BY DEF Stands
<1>3. \A i \in 1..Len(t) : n + i \in 1..Len(s)
  BY <1>1, <1>2
<1> QED
  BY <1>1, <1>2, <1>3 DEF Stands

LEMMA StandsWithin ==
  ASSUME NEW s, Len(s) \in Nat, NEW t, NEW u, NEW n, NEW m, Stands(t, s, n), Stands(u, t, m)
  PROVE  Stands(u, s, n + m)
<1>1. /\ n \in Nat /\ Len(t) \in Nat /\ n + Len(t) <= Len(s)
      /\ \A i \in 1..Len(t) : s[n + i] = t[i]
      /\ m \in Nat /\ Len(u) \in Nat /\ m + Len(u) <= Len(t)
      /\ \A i \in 1..Len(u) : t[m + i] = u[i]
  BY DEF Stands
<1>2. ASSUME NEW i \in 1..Len(u)
      PROVE  s[n + m + i] = u[i]
  <2>1. m + i \in 1..Len(t) /\ n + (m + i) = n + m + i
    BY <1>1
  <2> QED
    BY <1>1, <2>1
<1> QED
  BY <1>1, <1>2 DEF Stands

-----------------------------------------------------------------------------
(* The bytes of a command.                                                 *)

LEMMA ControlBytes ==
  /\ DLE \in Byte /\ STX \in Byte /\ ETX \in Byte /\ SCD \in Byte /\ ECD \in Byte
  /\ STX # DLE /\ ETX # DLE /\ SCD # DLE /\ ECD # DLE
  /\ STX # ETX /\ STX # SCD /\ STX # ECD /\ ETX # SCD /\ ETX # ECD /\ SCD # ECD
  BY DEF DLE, STX, ETX, SCD, ECD, Byte

Width(b) == IF b = DLE THEN 2 ELSE 1

LEMMA EscapedByte ==
  ASSUME NEW b \in Byte
  PROVE  /\ Escaped(b) \in Seq(Byte) /\ Len(Escaped(b)) = Width(b)
         /\ Escaped(b)[1] = b /\ (b = DLE => Escaped(b)[2] = DLE)
         /\ Width(b) \in Nat
<1>1. CASE b = DLE
  <2>1. Escaped(b) = <<b, b>>
    BY <1>1 DEF Escaped
  <2> QED
    BY <1>1, <2>1 DEF Width
<1>2. CASE b # DLE
  <2>1. Escaped(b) = <<b>>
    BY <1>2 DEF Escaped
  <2> QED
    BY <1>2, <2>1 DEF Width
<1> QED
  BY <1>1, <1>2

\* The escaped bytes lie in e one behind the other, number k + 1 behind o[k].
EscapedAt(bytes, e, o) ==
  /\ o[0] = 0
  /\ \A k \in 0..Len(bytes) : o[k] \in Nat /\ o[k] <= Len(e)
  /\ Len(e) = o[Len(bytes)]
  /\ \A k \in 0..(Len(bytes) - 1) :
       /\ o[k + 1] = o[k] + Width(bytes[k + 1])
       /\ Stands(Escaped(bytes[k + 1]), e, o[k])

LEMMA EscapeAllAt ==
  ASSUME NEW bytes \in Seq(Byte)
  PROVE  /\ EscapeAll(bytes) \in Seq(Byte)
         /\ \E o : EscapedAt(bytes, EscapeAll(bytes), o)
<1>1. Len(bytes) \in Nat /\ DOMAIN bytes = 1..Len(bytes)
      /\ \A n \in 1..Len(bytes) : bytes[n] \in Byte
  OBVIOUS
<1>2. PICK ss : ss = [n \in 1..Len(bytes) |-> Escaped(bytes[n])]
  OBVIOUS
<1>3. /\ Len(ss) = Len(bytes) /\ ss \in Seq(Seq(Byte))
      /\ \A n \in 1..Len(bytes) : ss[n] = Escaped(bytes[n])
  <2>1. \A n \in 1..Len(bytes) : Escaped(bytes[n]) \in Seq(Byte)
    BY <1>1, EscapedByte
  <2> QED
    BY <1>1, <1>2, <2>1
<1>4. PICK e : e = EscapeAll(bytes)
  OBVIOUS
<1>5. e = FlattenSeq(ss)
  BY <1>1, <1>2, <1>4 DEF EscapeAll
<1>6. e \in Seq(Byte) /\ \E o : LaidOut(ss, Len(ss), e, o)
  BY <1>3, <1>5, Flattened
<1>7. PICK o : LaidOut(ss, Len(bytes), e, o)
  BY <1>3, <1>6
<1>8. ASSUME NEW k \in 0..(Len(bytes) - 1)
      PROVE  /\ o[k + 1] = o[k] + Width(bytes[k + 1])
             /\ Stands(Escaped(bytes[k + 1]), e, o[k])
  <2>1. k \in 0..Len(bytes) /\ k + 1 \in 0..Len(bytes) /\ k + 1 \in 1..Len(bytes)
    BY <1>1
  <2>2. /\ ss[k + 1] = Escaped(bytes[k + 1])
        /\ Len(ss[k + 1]) = Width(bytes[k + 1]) /\ Width(bytes[k + 1]) \in Nat
    BY <1>1, <1>3, <2>1, EscapedByte
  <2>3. /\ o[k + 1] = o[k] + Len(ss[k + 1])
        /\ \A i \in 1..Len(ss[k + 1]) : e[o[k] + i] = ss[k + 1][i]
        /\ o[k + 1] <= Len(e) /\ o[k] \in Nat
    BY <1>7, <2>1 DEF LaidOut
  <2>4. PICK t, w : t = Escaped(bytes[k + 1]) /\ w = Width(bytes[k + 1])
    OBVIOUS
  <2>5. Len(t) = w /\ w \in Nat
    BY <2>2, <2>4
  <2>6. o[k + 1] = o[k] + w
    BY <2>2, <2>3, <2>4
  <2>7. \A i \in 1..Len(t) : e[o[k] + i] = t[i]
    BY <2>2, <2>3, <2>4
  <2>8. o[k] \in Nat /\ Len(t) \in Nat /\ o[k] + Len(t) <= Len(e)
    BY <2>3, <2>5, <2>6
  <2>9. Stands(t, e, o[k])
    BY <2>7, <2>8 DEF Stands
  <2> QED
    BY <2>4, <2>6, <2>9
<1>9. EscapedAt(bytes, e, o)
  BY <1>7, <1>8 DEF EscapedAt, LaidOut
<1> QED
  BY <1>4, <1>6, <1>9

\* The values of a command in the order in which they are written.
Size(c) == 3 + Len(c.payload)
Datum(c, k) ==
  CASE k = 1 -> c.type
    [] k = 2 -> c.address \div 256
    [] k = 3 -> c.address % 256
    [] OTHER -> c.payload[k - 3]

\* The escaped values lie in e between the control bytes, number k + 1 behind 2 + o[k].
CommandAt(c, e, o) ==
  /\ o[0] = 0
  /\ \A k \in 0..Size(c) : o[k] \in Nat /\ o[k] <= o[Size(c)]
  /\ \A k \in 0..(Size(c) - 1) :
       /\ o[k + 1] = o[k] + Width(Datum(c, k + 1))
       /\ Stands(Escaped(Datum(c, k + 1)), e, 2 + o[k])
  /\ Len(e) = 4 + o[Size(c)]
  /\ e[1] = DLE /\ e[2] = SCD
  /\ e[3 + o[Size(c)]] = DLE /\ e[4 + o[Size(c)]] = ECD

LEMMA WordBytes ==
  ASSUME NEW a \in Word
  PROVE  /\ a \in Nat /\ a \div 256 \in Byte /\ a % 256 \in Byte
         /\ a = 256 * (a \div 256) + (a % 256)
<1>2. a \in Nat /\ a <= 256 * 256 - 1
  BY SMT DEF Word
<1>3. a = 256 * (a \div 256) + (a % 256)
  BY SMT, <1>2
<1>4. a \div 256 \in Nat /\ a \div 256 <= 255
  BY SMT, <1>2
<1>5. a % 256 \in 0..255
  BY SMT, <1>2
<1>6. a \div 256 \in 0..255
  BY ONLY SMT, <1>4
<1> QED
  BY <1>2, <1>3, <1>5, <1>6 DEF Byte

LEMMA CommandParts ==
  ASSUME NEW c \in Command
  PROVE  /\ c.type \in Byte /\ c.type # DLE
         /\ c.address \in Nat
         /\ c.address \div 256 \in Byte /\ c.address % 256 \in Byte
         /\ c.address = 256 * (c.address \div 256) + (c.address % 256)
         /\ c.payload \in Seq(Byte) /\ Len(c.payload) \in Nat
         /\ c = [type |-> c.type, address |-> c.address, payload |-> c.payload]
<1>1. c.type \in Byte \ {DLE} /\ c.address \in Word /\ c.payload \in Seq(Byte)
  BY DEF Command
<1>2. c = [type |-> c.type, address |-> c.address, payload |-> c.payload]
  BY DEF Command
<1>3. Len(c.payload) \in Nat
  BY <1>1
<1> QED
  BY <1>1, <1>2, <1>3, WordBytes

LEMMA DatumByte ==
  ASSUME NEW c \in Command, NEW k \in 1..Size(c)
  PROVE  Datum(c, k) \in Byte
<1>1. Len(c.payload) \in Nat
  BY CommandParts
<1>2. k \in 1..(3 + Len(c.payload))
  BY DEF Size
<1>3. CASE k > 3
  <2>1. k - 3 \in 1..Len(c.payload) /\ k # 1 /\ k # 2 /\ k # 3
    BY <1>1, <1>2, <1>3
  <2>2. c.payload[k - 3] \in Byte
    BY <2>1, CommandParts
  <2> QED
    BY <2>1, <2>2 DEF Datum
<1>4. CASE ~ (k > 3)
  <2>1. k = 1 \/ k = 2 \/ k = 3
    BY <1>1, <1>2, <1>4
  <2> QED
    BY <2>1, CommandParts DEF Datum
<1> QED
  BY <1>3, <1>4

\* The parts of a command's bytes.
Parts(c, e, h, l, p) ==
  /\ e \in Seq(Byte)
  /\ Len(e) = 5 + Len(h) + Len(l) + Len(p)
  /\ Stands(<<DLE, SCD, c.type>>, e, 0)
  /\ Stands(h, e, 3)
  /\ Stands(l, e, 3 + Len(h))
  /\ Stands(p, e, 3 + Len(h) + Len(l))
  /\ Stands(<<DLE, ECD>>, e, 3 + Len(h) + Len(l) + Len(p))

LEMMA EncodedCommandParts ==
  ASSUME NEW c \in Command,
         NEW h, h = Escaped(c.address \div 256), NEW l, l = Escaped(c.address % 256),
         NEW p, p = EscapeAll(c.payload), NEW e, e = EncodedCommand(c)
  PROVE  Parts(c, e, h, l, p)
<1>1. h \in Seq(Byte) /\ l \in Seq(Byte) /\ p \in Seq(Byte)
  BY CommandParts, EscapedByte, EscapeAllAt
<1>2. PICK s, t : s = <<DLE, SCD, c.type>> /\ t = <<DLE, ECD>>
  OBVIOUS
<1>3. s \in Seq(Byte) /\ t \in Seq(Byte)
  <2>1. DLE \in Byte /\ SCD \in Byte /\ ECD \in Byte /\ c.type \in Byte
    BY ControlBytes, CommandParts
  <2> QED
    BY <1>2, <2>1
<1>4. PICK s1 : s1 = s \o h
  OBVIOUS
<1>5. PICK s2 : s2 = s1 \o l
  OBVIOUS
<1>6. PICK s3 : s3 = s2 \o p
  OBVIOUS
<1>7. e = s3 \o t
  BY <1>2, <1>4, <1>5, <1>6 DEF EncodedCommand
<1>8. s1 \in Seq(Byte) /\ s2 \in Seq(Byte) /\ s3 \in Seq(Byte) /\ e \in Seq(Byte)
  <2>1. s1 \in Seq(Byte)
    BY <1>1, <1>3, <1>4, Joined
  <2>2. s2 \in Seq(Byte)
    BY <1>1, <1>5, <2>1, Joined
  <2>3. s3 \in Seq(Byte)
    BY <1>1, <1>6, <2>2, Joined
  <2>4. e \in Seq(Byte)
    BY <1>3, <1>7, <2>3, Joined
  <2> QED
    BY <2>1, <2>2, <2>3, <2>4
<1>9. Stands(s, e, 0)
  <2>1. Stands(s, s1, 0)
    <3>1. Stands(s, s, 0)
      BY <1>3, StandsFirst
    <3> QED
      BY <1>1, <1>3, <1>4, <3>1, StandsKept
  <2>2. Stands(s, s2, 0)
    BY <1>1, <1>3, <1>5, <1>8, <2>1, StandsKept
  <2>3. Stands(s, s3, 0)
    BY <1>1, <1>3, <1>6, <1>8, <2>2, StandsKept
  <2> QED
    BY <1>3, <1>7, <1>8, <2>3, StandsKept
<1>10. Stands(h, e, Len(s))
  <2>1. Stands(h, s1, Len(s)) /\ Len(s) \in Nat
    BY <1>1, <1>3, <1>4, StandsLast
  <2>2. Stands(h, s2, Len(s))
    BY <1>1, <1>5, <1>8, <2>1, StandsKept
  <2>3. Stands(h, s3, Len(s))
    BY <1>1, <1>6, <1>8, <2>1, <2>2, StandsKept
  <2> QED
    BY <1>1, <1>3, <1>7, <1>8, <2>1, <2>3, StandsKept
<1>11. Stands(l, e, Len(s1))
  <2>1. Stands(l, s2, Len(s1)) /\ Len(s1) \in Nat
    BY <1>1, <1>5, <1>8, StandsLast
  <2>2. Stands(l, s3, Len(s1))
    BY <1>1, <1>6, <1>8, <2>1, StandsKept
  <2> QED
    BY <1>1, <1>3, <1>7, <1>8, <2>1, <2>2, StandsKept
<1>12. Stands(p, e, Len(s2))
  <2>1. Stands(p, s3, Len(s2)) /\ Len(s2) \in Nat
    BY <1>1, <1>6, <1>8, StandsLast
  <2> QED
    BY <1>1, <1>3, <1>7, <1>8, <2>1, StandsKept
<1>13. Stands(t, e, Len(s3))
  BY <1>3, <1>7, <1>8, StandsLast
<1>14. /\ Len(s1) = Len(s) + Len(h) /\ Len(h) \in Nat
       /\ Len(s2) = Len(s1) + Len(l) /\ Len(l) \in Nat
       /\ Len(s3) = Len(s2) + Len(p) /\ Len(p) \in Nat
       /\ Len(e) = Len(s3) + Len(t)
  <2>1. Len(s1) = Len(s) + Len(h) /\ Len(h) \in Nat
    BY <1>1, <1>3, <1>4, <1>8, Joined
  <2>2. Len(s2) = Len(s1) + Len(l) /\ Len(l) \in Nat
    BY <1>1, <1>5, <1>8, Joined
  <2>3. Len(s3) = Len(s2) + Len(p) /\ Len(p) \in Nat
    BY <1>1, <1>6, <1>8, Joined
  <2>4. Len(e) = Len(s3) + Len(t)
    BY <1>3, <1>7, <1>8, Joined
  <2> QED
    BY <2>1, <2>2, <2>3, <2>4
<1>15. Len(s) = 3 /\ Len(t) = 2
  BY <1>2
<1>16. PICK hl, ll, pl : hl = Len(h) /\ ll = Len(l) /\ pl = Len(p)
  OBVIOUS
<1>17. /\ Len(s1) = 3 + hl /\ Len(s2) = 3 + hl + ll /\ Len(s3) = 3 + hl + ll + pl
       /\ Len(e) = 5 + hl + ll + pl
  <2>1. hl \in Nat /\ ll \in Nat /\ pl \in Nat
    BY <1>14, <1>16
  <2> QED
    BY <1>14, <1>15, <1>16, <2>1
<1> QED
  BY <1>2, <1>8, <1>9, <1>10, <1>11, <1>12, <1>13, <1>15, <1>16, <1>17 DEF Parts

\* Where the values of a command lie.
LEMMA CommandLaidOut ==
  ASSUME NEW c \in Command
  PROVE  /\ EncodedCommand(c) \in Seq(Byte)
         /\ \E o : CommandAt(c, EncodedCommand(c), o)
<1>1. PICK h, l, p, e : /\ h = Escaped(c.address \div 256)
                        /\ l = Escaped(c.address % 256)
                        /\ p = EscapeAll(c.payload)
                        /\ e = EncodedCommand(c)
  OBVIOUS
<1>2. /\ e \in Seq(Byte)
      /\ Len(e) = 5 + Len(h) + Len(l) + Len(p)
      /\ Stands(<<DLE, SCD, c.type>>, e, 0)
      /\ Stands(h, e, 3)
      /\ Stands(l, e, 3 + Len(h))
      /\ Stands(p, e, 3 + Len(h) + Len(l))
      /\ Stands(<<DLE, ECD>>, e, 3 + Len(h) + Len(l) + Len(p))
  <2>1. Parts(c, e, h, l, p)
    BY <1>1, EncodedCommandParts
  <2> QED
    BY <2>1 DEF Parts
<1>3. PICK q : EscapedAt(c.payload, p, q)
  BY <1>1, CommandParts, EscapeAllAt
<1>4. PICK n, hl, ll, pl : n = Len(c.payload) /\ hl = Len(h) /\ ll = Len(l) /\ pl = Len(p)
  OBVIOUS
<1>5. n \in Nat /\ hl \in Nat /\ ll \in Nat /\ pl \in Nat /\ Size(c) = 3 + n
  BY <1>2, <1>4, CommandParts DEF Stands, Size
<1>6. /\ hl = Width(Datum(c, 2)) /\ ll = Width(Datum(c, 3)) /\ Width(Datum(c, 1)) = 1
      /\ h = Escaped(Datum(c, 2)) /\ l = Escaped(Datum(c, 3))
      /\ Escaped(Datum(c, 1)) = <<c.type>>
  <2>1. /\ Datum(c, 1) = c.type /\ Datum(c, 2) = c.address \div 256
        /\ Datum(c, 3) = c.address % 256
    BY DEF Datum
  <2>2. Width(c.type) = 1 /\ Escaped(c.type) = <<c.type>>
    BY CommandParts DEF Width, Escaped
  <2>3. /\ Len(Escaped(c.address \div 256)) = Width(c.address \div 256)
        /\ Len(Escaped(c.address % 256)) = Width(c.address % 256)
    BY CommandParts, EscapedByte
  <2> QED
    BY <1>1, <1>4, <2>1, <2>2, <2>3
<1>7. /\ q[0] = 0 /\ pl = q[n]
      /\ \A k \in 0..n : q[k] \in Nat /\ q[k] <= pl
      /\ \A k \in 0..(n - 1) : /\ q[k + 1] = q[k] + Width(c.payload[k + 1])
                               /\ Stands(Escaped(c.payload[k + 1]), p, q[k])
  BY <1>3, <1>4 DEF EscapedAt
<1> DEFINE o == [k \in 0..(3 + n) |-> CASE k = 0 -> 0
                                        [] k = 1 -> 1
                                        [] k = 2 -> 1 + hl
                                        [] OTHER -> 1 + hl + ll + q[k - 3]]
<1>8. /\ o[0] = 0 /\ o[1] = 1 /\ o[2] = 1 + hl
      /\ \A k \in 0..n : o[3 + k] = 1 + hl + ll + q[k]
  <2>1. o[0] = 0 /\ o[1] = 1 /\ o[2] = 1 + hl
    BY <1>5
  <2>2. ASSUME NEW k \in 0..n
        PROVE  o[3 + k] = 1 + hl + ll + q[k]
    <3>1. /\ 3 + k \in 0..(3 + n) /\ 3 + k # 0 /\ 3 + k # 1 /\ 3 + k # 2
          /\ (3 + k) - 3 = k
      BY <1>5
    <3> QED
      BY <3>1
  <2> QED
    BY <2>1, <2>2
<1> HIDE DEF o
<1>9. o[3 + n] = 1 + hl + ll + pl /\ Len(e) = 4 + o[3 + n]
  <2>1. n \in 0..n
    BY <1>5
  <2>2. o[3 + n] = 1 + hl + ll + pl
    BY <1>7, <1>8, <2>1
  <2>3. Len(e) = 5 + hl + ll + pl
    BY <1>2, <1>4
  <2> QED
    BY <1>5, <2>2, <2>3
<1>10. ASSUME NEW k \in 0..(3 + n)
       PROVE  o[k] \in Nat /\ o[k] <= o[3 + n]
  <2>1. CASE k \in 0..2
    <3>1. k = 0 \/ k = 1 \/ k = 2
      BY <2>1
    <3>2. o[k] \in Nat /\ o[k] <= 1 + hl
      BY <1>5, <1>8, <3>1
    <3> QED
      BY <1>5, <1>9, <3>2
  <2>2. CASE k \notin 0..2
    <3>1. PICK i \in 0..n : k = 3 + i
      <4>1. k - 3 \in 0..n /\ k = 3 + (k - 3)
        BY <1>5, <2>2
      <4> QED
        BY <4>1
    <3>2. q[i] \in Nat /\ q[i] <= pl /\ o[k] = 1 + hl + ll + q[i]
      BY <1>7, <1>8, <3>1
    <3> QED
      BY <1>5, <1>9, <3>2
  <2> QED
    BY <2>1, <2>2
<1>11. ASSUME NEW k \in 0..(3 + n - 1)
       PROVE  /\ o[k + 1] = o[k] + Width(Datum(c, k + 1))
              /\ Stands(Escaped(Datum(c, k + 1)), e, 2 + o[k])
  <2>1. CASE k = 0
    <3>1. e[3] = c.type /\ Len(e) \in Nat /\ 3 <= Len(e)
      BY <1>2 DEF Stands
    <3>2. Stands(<<c.type>>, e, 2)
      BY <3>1 DEF Stands
    <3> QED
      BY <1>6, <1>8, <2>1, <3>2
  <2>2. CASE k = 1
    BY <1>2, <1>5, <1>6, <1>8, <2>2
  <2>3. CASE k = 2
    <3>1. 0 \in 0..n
      BY <1>5
    <3>2. o[3] = 1 + hl + ll
      BY <1>5, <1>7, <1>8, <3>1
    <3>3. Stands(Escaped(Datum(c, 3)), e, 3 + hl) /\ 3 + hl = 2 + o[2]
      BY <1>2, <1>4, <1>5, <1>6, <1>8
    <3> QED
      BY <1>6, <1>8, <2>3, <3>2, <3>3
  <2>4. CASE k \notin 0..2
    <3>1. PICK i : i = k - 3
      OBVIOUS
    <3>2. i \in 0..(n - 1) /\ i \in 0..n /\ i + 1 \in 0..n /\ k = 3 + i /\ k + 1 = 3 + (i + 1)
      BY <1>5, <2>4, <3>1
    <3>3. Datum(c, k + 1) = c.payload[i + 1]
      <4>1. k + 1 # 1 /\ k + 1 # 2 /\ k + 1 # 3 /\ (k + 1) - 3 = i + 1
        BY <3>2
      <4> QED
        BY <4>1 DEF Datum
    <3>4. PICK w : w = Width(c.payload[i + 1])
      OBVIOUS
    <3>5. /\ o[k] = 1 + hl + ll + q[i] /\ o[k + 1] = 1 + hl + ll + q[i + 1]
          /\ q[i + 1] = q[i] + w /\ q[i] \in Nat /\ q[i + 1] \in Nat
          /\ Stands(Escaped(c.payload[i + 1]), p, q[i])
      BY <1>7, <1>8, <3>2, <3>4
    <3>6. w \in Nat
      BY <3>4 DEF Width
    <3>7. Len(e) \in Nat /\ Stands(p, e, 3 + hl + ll)
      BY <1>2, <1>4
    <3>8. Stands(Escaped(c.payload[i + 1]), e, 3 + hl + ll + q[i])
      BY <3>5, <3>7, StandsWithin
    <3>9. 3 + hl + ll + q[i] = 2 + o[k] /\ o[k + 1] = o[k] + w
      BY <1>5, <3>5, <3>6
    <3> QED
      BY <3>3, <3>4, <3>8, <3>9
  <2> QED
    BY <2>1, <2>2, <2>3, <2>4
<1>12. e[1] = DLE /\ e[2] = SCD
  BY <1>2 DEF Stands
<1>13. e[3 + o[3 + n]] = DLE /\ e[4 + o[3 + n]] = ECD
  <2>1. PICK m : m = 3 + hl + ll + pl
    OBVIOUS
  <2>2. m \in Nat /\ m + 1 = 3 + o[3 + n] /\ m + 2 = 4 + o[3 + n]
    BY <1>5, <1>9, <2>1
  <2>3. e[m + 1] = DLE /\ e[m + 2] = ECD
    BY <1>2, <1>4, <2>1 DEF Stands
  <2> QED
    BY <2>2, <2>3
<1>14. CommandAt(c, e, o)
  BY <1>5, <1>8, <1>9, <1>10, <1>11, <1>12, <1>13 DEF CommandAt
<1> QED
  BY <1>1, <1>2, <1>14

-----------------------------------------------------------------------------
(* The bytes of a message.                                                 *)

\* The commands lie in b behind its header, number j + 1 behind pos[j].
MessageAt(b, cs, pos) ==
  /\ b \in Seq(Byte) /\ cs \in Seq(Command)
  /\ b[1] = DLE /\ b[2] = STX
  /\ pos[0] = 5
  /\ \A j \in 0..Len(cs) : pos[j] \in Nat /\ 5 <= pos[j] /\ pos[j] <= pos[Len(cs)]
  /\ pos[Len(cs)] <= Len(b)
  /\ \A j \in 0..(Len(cs) - 1) :
       /\ Stands(EncodedCommand(cs[j + 1]), b, pos[j])
       /\ pos[j + 1] = pos[j] + Len(EncodedCommand(cs[j + 1]))

\* A buffer to which commands may be added, and one that has been closed.
OpenBuffer(b, cs) == \E pos : MessageAt(b, cs, pos) /\ Len(b) = pos[Len(cs)]

Ends(b, n) == Len(b) = n + 2 /\ b[n + 1] = DLE /\ b[n + 2] = ETX
ClosedBuffer(b, cs) == \E pos : MessageAt(b, cs, pos) /\ Ends(b, pos[Len(cs)])

LEMMA WordModulo ==
  ASSUME NEW a \in Nat
  PROVE  a % (256 * 256) \in Word
  BY SMT DEF Word

LEMMA ByteNat == \A x \in Byte : x \in Nat
  BY DEF Byte

HasHeader(b) == b \in Seq(Byte) /\ 4 <= Len(b)

\* r is b followed by s, but for the length in the header.
Lengthened(b, s, r) ==
  /\ r \in Seq(Byte)
  /\ Len(r) = Len(b) + Len(s)
  /\ \A i \in 1..Len(b) : i # 3 /\ i # 4 => r[i] = b[i]
  /\ Stands(s, r, Len(b))

LEMMA ExtendedKeeps ==
  ASSUME NEW b, HasHeader(b), NEW s \in Seq(Byte)
  PROVE  Lengthened(b, s, Extended(b, s))
<1> DEFINE r == Extended(b, s)
<1>0. b \in Seq(Byte) /\ 4 <= Len(b)
  BY DEF HasHeader
<1>1. PICK n : n = (256 * b[3] + b[4] + Len(s)) % (256 * 256)
  OBVIOUS
<1>2. n \div 256 \in Byte /\ n % 256 \in Byte
  <2>1. Len(b) \in Nat /\ Len(s) \in Nat /\ \A i \in 1..Len(b) : b[i] \in Byte
    BY <1>0
  <2>2. b[3] \in Nat /\ b[4] \in Nat
    <3>1. 3 \in 1..Len(b) /\ 4 \in 1..Len(b)
      BY <1>0, <2>1
    <3>2. b[3] \in Byte /\ b[4] \in Byte
      BY <2>1, <3>1
    <3> QED
      BY <3>2, ByteNat
  <2>3. 256 * b[3] + b[4] + Len(s) \in Nat
    BY <2>1, <2>2
  <2>4. n \in Word
    BY <1>1, <2>3, WordModulo
  <2> QED
    BY <2>4, WordBytes
<1>3. PICK h : h = [b EXCEPT ![3] = n \div 256, ![4] = n % 256]
  OBVIOUS
<1>4. r = h \o s
  BY <1>1, <1>3 DEF Extended
<1> HIDE DEF r
<1>5. h \in Seq(Byte)
  BY <1>0, <1>2, <1>3
<1>6. Len(h) = Len(b) /\ \A i \in 1..Len(b) : i # 3 /\ i # 4 => h[i] = b[i]
  BY <1>0, <1>3
<1>7. r \in Seq(Byte) /\ Len(r) = Len(h) + Len(s) /\ \A i \in 1..Len(h) : r[i] = h[i]
  BY <1>4, <1>5, Concatenation
<1>8. Stands(s, r, Len(h))
  BY <1>4, <1>5, StandsLast
<1>9. Lengthened(b, s, r)
  BY <1>6, <1>7, <1>8 DEF Lengthened
<1> QED
  BY <1>9 DEF r

LEMMA ExtendedStands ==
  ASSUME NEW b, HasHeader(b), NEW s \in Seq(Byte),
         NEW t, NEW n, Stands(t, b, n), 4 <= n
  PROVE  Stands(t, Extended(b, s), n)
<1>1. PICK r : r = Extended(b, s)
  OBVIOUS
<1>2. /\ n \in Nat /\ Len(t) \in Nat /\ n + Len(t) <= Len(b) /\ Len(b) \in Nat
      /\ \A i \in 1..Len(t) : b[n + i] = t[i]
  <2>1. Len(b) \in Nat
    BY DEF HasHeader
  <2> QED
    BY <2>1 DEF Stands
<1>3. /\ Len(r) = Len(b) + Len(s) /\ Len(s) \in Nat
      /\ \A i \in 1..Len(b) : i # 3 /\ i # 4 => r[i] = b[i]
  <2>1. Lengthened(b, s, r)
    BY <1>1, ExtendedKeeps
  <2> QED
    BY <2>1 DEF Lengthened
<1>4. \A i \in 1..Len(t) : n + i \in 1..Len(b) /\ n + i # 3 /\ n + i # 4
  BY <1>2
<1>5. \A i \in 1..Len(t) : r[n + i] = t[i]
  BY <1>2, <1>3, <1>4
<1>6. n + Len(t) <= Len(r)
  BY <1>2, <1>3
<1> QED
  BY <1>1, <1>2, <1>5, <1>6 DEF Stands

LEMMA ExtendedMessage ==
  ASSUME NEW b, NEW cs, NEW pos, MessageAt(b, cs, pos), NEW s \in Seq(Byte)
  PROVE  MessageAt(Extended(b, s), cs, pos)
<1>1. PICK r : r = Extended(b, s)
  OBVIOUS
<1>2. b \in Seq(Byte) /\ Len(b) \in Nat /\ 5 <= Len(b) /\ Len(cs) \in Nat
  BY DEF MessageAt
<1>3. /\ r \in Seq(Byte) /\ Len(r) = Len(b) + Len(s) /\ Len(s) \in Nat
      /\ \A i \in 1..Len(b) : i # 3 /\ i # 4 => r[i] = b[i]
  <2>1. HasHeader(b)
    BY <1>2 DEF HasHeader
  <2>2. Len(s) \in Nat
    OBVIOUS
  <2>3. Lengthened(b, s, r)
    BY <1>1, <2>1, ExtendedKeeps
  <2> QED
    BY <2>2, <2>3 DEF Lengthened
<1>4. r[1] = DLE /\ r[2] = STX
  <2>1. b[1] = DLE /\ b[2] = STX
    BY DEF MessageAt
  <2>2. 1 \in 1..Len(b) /\ 2 \in 1..Len(b)
    BY <1>2
  <2> QED
    BY <1>3, <2>1, <2>2
<1>5. pos[Len(cs)] \in Nat /\ pos[Len(cs)] <= Len(r)
  BY <1>2, <1>3 DEF MessageAt
<1>6. ASSUME NEW j \in 0..(Len(cs) - 1)
      PROVE  Stands(EncodedCommand(cs[j + 1]), r, pos[j])
  <2>1. Stands(EncodedCommand(cs[j + 1]), b, pos[j]) /\ 4 <= pos[j]
    <3>1. j \in 0..Len(cs)
      BY <1>2
    <3>2. pos[j] \in Nat /\ 5 <= pos[j]
      BY <3>1 DEF MessageAt
    <3> QED
      BY <3>2 DEF MessageAt
  <2>2. HasHeader(b)
    BY <1>2 DEF HasHeader
  <2> QED
    BY <1>1, <2>1, <2>2, ExtendedStands
<1>7. MessageAt(r, cs, pos)
  BY <1>3, <1>4, <1>5, <1>6 DEF MessageAt
<1> QED
  BY <1>1, <1>7

LEMMA OpenedBuffer ==
  ASSUME NEW act \in Byte
  PROVE  OpenBuffer(Opened(act), <<>>)
<1>1. PICK b : b = Opened(act)
  OBVIOUS
<1>2. DLE \in Byte /\ STX \in Byte /\ 0 \in Byte /\ 5 \in Byte
  BY ControlBytes DEF Byte
<1>3. b = <<DLE, STX, 0, 5, act>>
  BY <1>1 DEF Opened
<1>4. b \in Seq(Byte) /\ b[1] = DLE /\ b[2] = STX
  BY <1>2, <1>3
<1>5. Len(b) = 5
  BY <1>3
<1>6. PICK pos : pos = [j \in {0} |-> 5]
  OBVIOUS
<1>7. PICK cs : cs = <<>>
  OBVIOUS
<1>8. cs \in Seq(Command) /\ Len(cs) = 0
  BY <1>7
<1>9. pos[0] = 5
  BY <1>6
<1>10. MessageAt(b, cs, pos)
  BY <1>4, <1>5, <1>8, <1>9 DEF MessageAt
<1> QED
  BY <1>1, <1>5, <1>7, <1>8, <1>9, <1>10 DEF OpenBuffer

LEMMA HeartbeatBuffer == ClosedBuffer(<<DLE, STX, 0, 7, eHeartbeat, DLE, ETX>>, <<>>)
<1>1. PICK b : b = <<DLE, STX, 0, 7, eHeartbeat, DLE, ETX>>
  OBVIOUS
<1>2. DLE \in Byte /\ STX \in Byte /\ ETX \in Byte /\ 0 \in Byte /\ 7 \in Byte /\ eHeartbeat \in Byte
  BY ControlBytes DEF Byte, eHeartbeat
<1>3. b \in Seq(Byte) /\ b[1] = DLE /\ b[2] = STX
  BY <1>1, <1>2
<1>4. Ends(b, 5)
  BY <1>1 DEF Ends
<1>5. PICK pos : pos = [j \in {0} |-> 5]
  OBVIOUS
<1>6. PICK cs : cs = <<>>
  OBVIOUS
<1>7. cs \in Seq(Command) /\ Len(cs) = 0
  BY <1>6
<1>8. pos[0] = 5
  BY <1>5
<1>9. MessageAt(b, cs, pos)
  BY <1>3, <1>4, <1>7, <1>8 DEF MessageAt, Ends
<1> QED
  BY <1>1, <1>4, <1>6, <1>7, <1>8, <1>9 DEF ClosedBuffer

LEMMA ClosedOpenBuffer ==
  ASSUME NEW b, NEW cs, OpenBuffer(b, cs)
  PROVE  ClosedBuffer(Closed(b), cs)
<1>1. PICK pos : MessageAt(b, cs, pos) /\ Len(b) = pos[Len(cs)]
  BY DEF OpenBuffer
<1>2. PICK s : s = <<DLE, ETX>>
  OBVIOUS
<1>3. s \in Seq(Byte)
  BY <1>2, ControlBytes
<1>4. PICK r : r = Extended(b, s)
  OBVIOUS
<1>5. MessageAt(r, cs, pos)
  BY <1>1, <1>3, <1>4, ExtendedMessage
<1>6. b \in Seq(Byte) /\ 4 <= Len(b) /\ Len(b) \in Nat
  BY <1>1 DEF MessageAt
<1>7. Len(r) = Len(b) + Len(s) /\ Stands(s, r, Len(b))
  <2>1. HasHeader(b)
    BY <1>6 DEF HasHeader
  <2>2. Lengthened(b, s, r)
    BY <1>3, <1>4, <2>1, ExtendedKeeps
  <2> QED
    BY <2>2 DEF Lengthened
<1>8. Ends(r, Len(b))
  <2>1. Len(s) = 2 /\ s[1] = DLE /\ s[2] = ETX
    BY <1>2
  <2> QED
    BY <1>6, <1>7, <2>1 DEF Stands, Ends
<1> QED
  BY <1>1, <1>2, <1>4, <1>5, <1>8 DEF ClosedBuffer, Closed

LEMMA ExtendedOpenBuffer ==
  ASSUME NEW b, NEW cs, OpenBuffer(b, cs), NEW c \in Command
  PROVE  OpenBuffer(WithCommand(b, c), Append(cs, c))
<1>1. PICK old : MessageAt(b, cs, old) /\ Len(b) = old[Len(cs)]
  BY DEF OpenBuffer
<1>2. PICK e : e = EncodedCommand(c)
  OBVIOUS
<1>3. e \in Seq(Byte)
  BY <1>2, CommandLaidOut
<1>4. PICK r : r = Extended(b, e)
  OBVIOUS
<1>5. MessageAt(r, cs, old)
  BY <1>1, <1>3, <1>4, ExtendedMessage
<1>6. b \in Seq(Byte) /\ 4 <= Len(b) /\ Len(b) \in Nat /\ cs \in Seq(Command) /\ Len(cs) \in Nat
  BY <1>1 DEF MessageAt
<1>7. Len(r) = Len(b) + Len(e) /\ Len(e) \in Nat /\ Stands(e, r, Len(b))
  <2>1. HasHeader(b)
    BY <1>6 DEF HasHeader
  <2>2. Lengthened(b, e, r)
    BY <1>3, <1>4, <2>1, ExtendedKeeps
  <2> QED
    BY <1>3, <2>2 DEF Lengthened
<1>8. PICK l, ds : l = Len(cs) /\ ds = Append(cs, c)
  OBVIOUS
<1>9. ds \in Seq(Command) /\ Len(ds) = l + 1 /\ ds[l + 1] = c /\ \A j \in 1..l : ds[j] = cs[j]
  BY <1>6, <1>8
<1>10. PICK pos : pos = FunctionWith(old, 0..l, l + 1, Len(r))
  OBVIOUS
<1>11. pos[l + 1] = Len(r) /\ \A j \in 0..l : pos[j] = old[j]
  <2>1. l \in Nat /\ \A j \in 0..l : j # l + 1
    BY <1>6, <1>8
  <2>2. pos[l + 1] = Len(r)
    BY <1>10, Extension
  <2>3. \A j \in 0..l : pos[j] = old[j]
    BY <1>10, <2>1, Extension
  <2> QED
    BY <2>2, <2>3
<1>12. /\ r \in Seq(Byte) /\ r[1] = DLE /\ r[2] = STX
       /\ old[0] = 5 /\ old[l] = Len(b)
       /\ \A j \in 0..l : old[j] \in Nat /\ 5 <= old[j] /\ old[j] <= Len(b)
       /\ \A j \in 0..(l - 1) : /\ Stands(EncodedCommand(cs[j + 1]), r, old[j])
                                /\ old[j + 1] = old[j] + Len(EncodedCommand(cs[j + 1]))
  BY <1>1, <1>5, <1>8 DEF MessageAt
<1>13. l \in Nat
  BY <1>6, <1>8
<1>14. ASSUME NEW j \in 0..(l + 1)
       PROVE  pos[j] \in Nat /\ 5 <= pos[j] /\ pos[j] <= pos[l + 1]
  <2>1. CASE j = l + 1
    BY <1>6, <1>7, <1>11, <1>12, <1>13, <2>1
  <2>2. CASE j # l + 1
    <3>1. j \in 0..l
      BY <1>13, <2>2
    <3>2. pos[j] \in Nat /\ 5 <= pos[j] /\ pos[j] <= Len(b)
      BY <1>11, <1>12, <3>1
    <3> QED
      BY <1>6, <1>7, <1>11, <3>2
  <2> QED
    BY <2>1, <2>2
<1>15. ASSUME NEW j \in 0..l
       PROVE  /\ Stands(EncodedCommand(ds[j + 1]), r, pos[j])
              /\ pos[j + 1] = pos[j] + Len(EncodedCommand(ds[j + 1]))
  <2>1. CASE j = l
    BY <1>2, <1>7, <1>9, <1>11, <1>12, <2>1
  <2>2. CASE j # l
    <3>1. j \in 0..(l - 1) /\ j + 1 \in 1..l /\ j + 1 \in 0..l
      BY <1>13, <2>2
    <3> QED
      BY <1>9, <1>11, <1>12, <3>1
  <2> QED
    BY <2>1, <2>2
<1>16. pos[0] = 5
  BY <1>11, <1>12, <1>13
<1>17. MessageAt(r, ds, pos)
  <2>1. Len(ds) = l + 1 /\ (l + 1) - 1 = l
    BY <1>9, <1>13
  <2>2. pos[Len(ds)] <= Len(r)
    BY <1>3, <1>6, <1>7, <1>11, <2>1
  <2> QED
    BY <1>9, <1>12, <1>14, <1>15, <1>16, <2>1, <2>2 DEF MessageAt
<1> QED
  BY <1>2, <1>4, <1>8, <1>9, <1>11, <1>17 DEF OpenBuffer, WithCommand

-----------------------------------------------------------------------------
(* Decoding.  The states the decoder takes over a message, and its steps.   *)

Yes == TRUE
No == FALSE

Decoder(dle, stx, scd, ecd, header, part, index, s, end) ==
  [dle |-> dle, stx |-> stx, scd |-> scd, ecd |-> ecd,
   header |-> header, part |-> part, index |-> index, slots |-> s, end |-> end]

\* In the header of the message: h bytes of it have been taken.
Opening(h, s) == Decoder(No, Yes, No, No, h, 0, 0, s, 0)

\* Between two commands: j of them have been decoded.
Between(dle, j, s, end) ==
  Decoder(dle, Yes, No, IF j = 0 THEN No ELSE Yes, 3, 0, IF j = 0 THEN 0 ELSE j - 1, s, end)

\* In the command after j others, of which k data bytes have been decoded.
Within(dle, k, j, s) == Decoder(dle, Yes, Yes, No, 3, IF k < 3 THEN k ELSE 3, j, s, 0)

LEMMA StepOver ==
  ASSUME NEW bytes, NEW n, NEW d, d.end # 0
  PROVE  DecodeByte(bytes, d, n) = d
  BY DEF DecodeByte

LEMMA StepDLE ==
  ASSUME NEW bytes, NEW n, bytes[n] = DLE,
         NEW stx, NEW scd, NEW ecd, NEW part, NEW index, NEW s
  PROVE  DecodeByte(bytes, Decoder(No, stx, scd, ecd, 3, part, index, s, 0), n)
           = Decoder(Yes, stx, scd, ecd, 3, part, index, s, 0)
<1>1. PICK d : d = Decoder(No, stx, scd, ecd, 3, part, index, s, 0)
  OBVIOUS
<1>2. d.end = 0 /\ d.dle = No /\ ~(d.header < 3)
  BY <1>1 DEF Decoder
<1>3. DecodeByte(bytes, d, n) = [d EXCEPT !.dle = Yes]
  BY <1>2, ControlBytes DEF DecodeByte, Yes, No
<1> QED
  BY <1>1, <1>3 DEF Decoder

LEMMA StepSTX ==
  ASSUME NEW bytes, NEW n, bytes[n] = STX, NEW s
  PROVE  DecodeByte(bytes, Decoder(Yes, No, No, No, 3, 0, 0, s, 0), n) = Opening(0, s)
<1>1. PICK d : d = Decoder(Yes, No, No, No, 3, 0, 0, s, 0)
  OBVIOUS
<1>2. d.end = 0 /\ d.dle = Yes
  BY <1>1 DEF Decoder
<1>3. DecodeByte(bytes, d, n) = [d EXCEPT !.stx = Yes, !.dle = No, !.header = 0]
  BY <1>2, ControlBytes DEF DecodeByte, Yes, No
<1> QED
  BY <1>1, <1>3 DEF Decoder, Opening

LEMMA StepHeader ==
  ASSUME NEW bytes, NEW n, NEW h \in 0..2, NEW s
  PROVE  DecodeByte(bytes, Opening(h, s), n) = Opening(h + 1, s)
<1>1. PICK d : d = Opening(h, s)
  OBVIOUS
<1>2. d.end = 0 /\ d.dle = No /\ d.stx = Yes /\ d.scd = No /\ d.header = h
  BY <1>1 DEF Decoder, Opening
<1>3. d.header < 3 /\ d.header # 3
  BY <1>2
<1>4. PICK next : DecodeByte(bytes, d, n) = TakeByte(d, bytes[n], next)
  BY <1>2, <1>3 DEF DecodeByte, Yes, No
<1>5. TakeByte(d, bytes[n], next) = [d EXCEPT !.header = @ + 1]
  BY <1>2, <1>3 DEF TakeByte, Yes, No
<1> QED
  BY <1>1, <1>2, <1>4, <1>5 DEF Decoder, Opening

LEMMA StepETX ==
  ASSUME NEW bytes, NEW n, bytes[n] = ETX, NEW j, NEW s
  PROVE  DecodeByte(bytes, Between(Yes, j, s, 0), n) = Between(Yes, j, s, n)
<1>1. PICK d : d = Between(Yes, j, s, 0)
  OBVIOUS
<1>2. d.end = 0 /\ d.dle = Yes /\ d.stx = Yes
  BY <1>1 DEF Decoder, Between
<1>3. DecodeByte(bytes, d, n) = [d EXCEPT !.end = n]
  BY <1>2, ControlBytes DEF DecodeByte, Yes, No
<1> QED
  BY <1>1, <1>3 DEF Decoder, Between

LEMMA StepSCD ==
  ASSUME NEW bytes, NEW n, bytes[n] = SCD, NEW j \in Nat, j < MAX_COMMANDS, NEW s
  PROVE  DecodeByte(bytes, Between(Yes, j, s, 0), n) = Within(No, 0, j, s)
<1>1. PICK d : d = Between(Yes, j, s, 0)
  OBVIOUS
<1>2. d.end = 0 /\ d.dle = Yes /\ d.scd = No
  BY <1>1 DEF Decoder, Between
<1>3. DecodeByte(bytes, d, n) = OpenCommand(d, n)
  BY <1>2, ControlBytes DEF DecodeByte, Yes, No
<1>4. Within(No, 0, j, s) = Decoder(No, Yes, Yes, No, 3, 0, j, s, 0)
  BY DEF Within
<1>5. CASE j = 0
  <2>1. d = Decoder(Yes, Yes, No, No, 3, 0, 0, s, 0)
    BY <1>1, <1>5 DEF Between
  <2>2. d.ecd = No
    BY <2>1 DEF Decoder
  <2>3. OpenCommand(d, n) = [d EXCEPT !.scd = Yes, !.dle = No]
    BY <1>2, <2>2 DEF OpenCommand, Yes, No
  <2>4. OpenCommand(d, n) = Decoder(No, Yes, Yes, No, 3, 0, 0, s, 0)
    BY <2>1, <2>3 DEF Decoder
  <2> QED
    BY <1>1, <1>3, <1>4, <1>5, <2>4
<1>6. CASE j # 0
  <2>1. d = Decoder(Yes, Yes, No, Yes, 3, 0, j - 1, s, 0)
    BY <1>1, <1>6 DEF Between
  <2>2. d.ecd = Yes /\ d.index = j - 1
    BY <2>1 DEF Decoder
  <2>3. d.index + 1 = j /\ d.index + 1 # MAX_COMMANDS
    BY <2>2, MttpAssumption
  <2>4. OpenCommand(d, n) = [d EXCEPT !.scd = Yes, !.dle = No, !.ecd = No, !.index = @ + 1]
    BY <1>2, <2>2, <2>3 DEF OpenCommand, Yes, No
  <2>5. OpenCommand(d, n) = [d EXCEPT !.scd = Yes, !.dle = No, !.ecd = No, !.index = j]
    BY <2>3, <2>4
  <2>6. OpenCommand(d, n) = Decoder(No, Yes, Yes, No, 3, 0, j, s, 0)
    BY <2>1, <2>5 DEF Decoder
  <2> QED
    BY <1>1, <1>3, <1>4, <2>6
<1> QED
  BY <1>5, <1>6

LEMMA StepLastSCD ==
  ASSUME NEW bytes, NEW n, bytes[n] = SCD, NEW s
  PROVE  DecodeByte(bytes, Between(Yes, MAX_COMMANDS, s, 0), n) = Between(Yes, MAX_COMMANDS, s, n)
<1>1. PICK d : d = Between(Yes, MAX_COMMANDS, s, 0)
  OBVIOUS
<1>2. MAX_COMMANDS # 0 /\ (MAX_COMMANDS - 1) + 1 = MAX_COMMANDS
  BY MttpAssumption
<1>3. d.end = 0 /\ d.dle = Yes /\ d.scd = No /\ d.ecd = Yes /\ d.index = MAX_COMMANDS - 1
  BY <1>1, <1>2 DEF Decoder, Between
<1>4. DecodeByte(bytes, d, n) = OpenCommand(d, n)
  BY <1>3, ControlBytes DEF DecodeByte, Yes, No
<1>5. OpenCommand(d, n) = [d EXCEPT !.end = n]
  BY <1>2, <1>3 DEF OpenCommand, Yes, No
<1> QED
  BY <1>1, <1>4, <1>5 DEF Decoder, Between

LEMMA StepECD ==
  ASSUME NEW bytes, NEW n, bytes[n] = ECD, NEW k, NEW j \in Nat, NEW s
  PROVE  DecodeByte(bytes, Within(Yes, k, j, s), n) = Between(No, j + 1, s, 0)
<1>1. PICK d : d = Within(Yes, k, j, s)
  OBVIOUS
<1>2. d.end = 0 /\ d.dle = Yes
  BY <1>1 DEF Decoder, Within
<1>3. DecodeByte(bytes, d, n) = [d EXCEPT !.scd = No, !.ecd = Yes, !.dle = No, !.part = 0]
  BY <1>2, ControlBytes DEF DecodeByte, Yes, No
<1>4. j + 1 # 0 /\ (j + 1) - 1 = j
  OBVIOUS
<1>5. Between(No, j + 1, s, 0) = Decoder(No, Yes, No, Yes, 3, 0, j, s, 0)
  BY <1>4 DEF Between
<1>6. PICK p : p = IF k < 3 THEN k ELSE 3
  OBVIOUS
<1>7. d = Decoder(Yes, Yes, Yes, No, 3, p, j, s, 0)
  BY <1>1, <1>6 DEF Within
<1>8. DecodeByte(bytes, d, n) = Decoder(No, Yes, No, Yes, 3, 0, j, s, 0)
  BY <1>3, <1>7 DEF Decoder
<1> QED
  BY <1>1, <1>5, <1>8

-----------------------------------------------------------------------------
(* The data bytes of a command.                                            *)

Slot == [exist : BOOLEAN, type : Byte, address : Nat, payload : Seq(Byte)]
Slots == [0..(MAX_COMMANDS - 1) -> Slot]

\* The slot of a command after one more of its data bytes.
Filled(x, k, b, next) ==
  CASE k = 0 -> [x EXCEPT !.type = b]
    [] k = 1 -> [x EXCEPT !.address = 256 * b + next]
    [] k = 2 -> [x EXCEPT !.payload = <<>>, !.exist = Yes]
    [] OTHER -> [x EXCEPT !.payload = Append(@, b)]

Put(s, j, x) == [s EXCEPT ![j] = x]

LEMMA StepData ==
  ASSUME NEW b, NEW next, NEW k \in Nat, NEW j \in 0..(MAX_COMMANDS - 1), NEW s \in Slots
  PROVE  TakeByte(Within(No, k, j, s), b, next)
           = Within(No, k + 1, j, Put(s, j, Filled(s[j], k, b, next)))
<1>1. PICK d : d = Within(No, k, j, s)
  OBVIOUS
<1>2. PICK p, q : p = (IF k < 3 THEN k ELSE 3) /\ q = (IF k + 1 < 3 THEN k + 1 ELSE 3)
  OBVIOUS
<1>3. d = Decoder(No, Yes, Yes, No, 3, p, j, s, 0)
  BY <1>1, <1>2 DEF Within
<1>4. d.stx = Yes /\ d.scd = Yes /\ d.part = p /\ d.index = j /\ d.slots = s
  BY <1>3 DEF Decoder
<1>5. PICK t : t = [s EXCEPT ![j] = Filled(s[j], k, b, next)]
  OBVIOUS
<1>6. TakeByte(d, b, next) = [d EXCEPT !.slots = t, !.part = q]
  <2>1. CASE k = 0
    <3>1. d.part = 0 /\ q = 1
      BY <1>2, <1>4, <2>1
    <3>2. TakeByte(d, b, next) = [d EXCEPT !.slots[d.index].type = b, !.part = q]
      BY <1>4, <3>1 DEF TakeByte, Yes, No
    <3>3. Filled(s[j], k, b, next) = [s[j] EXCEPT !.type = b]
      BY <2>1 DEF Filled
    <3> QED
      BY <1>4, <1>5, <3>2, <3>3
  <2>2. CASE k = 1
    <3>1. d.part = 1 /\ q = 2
      BY <1>2, <1>4, <2>2
    <3>2. TakeByte(d, b, next) = [d EXCEPT !.slots[d.index].address = 256 * b + next, !.part = q]
      BY <1>4, <3>1 DEF TakeByte, Yes, No
    <3>3. Filled(s[j], k, b, next) = [s[j] EXCEPT !.address = 256 * b + next]
      BY <2>2 DEF Filled
    <3> QED
      BY <1>4, <1>5, <3>2, <3>3
  <2>3. CASE k = 2
    <3>1. d.part = 2 /\ q = 3
      BY <1>2, <1>4, <2>3
    <3>2. TakeByte(d, b, next) = [d EXCEPT !.slots[d.index].payload = <<>>,
                                           !.slots[d.index].exist = Yes, !.part = q]
      BY <1>4, <3>1 DEF TakeByte, Yes, No
    <3>3. PICK u : u = [s EXCEPT ![j] = [s[j] EXCEPT !.payload = <<>>]]
      OBVIOUS
    <3>4. u[j] = [s[j] EXCEPT !.payload = <<>>]
      BY <3>3 DEF Slots
    <3>5. t = [u EXCEPT ![j] = [u[j] EXCEPT !.exist = Yes]]
      <4>1. t = [s EXCEPT ![j] = [u[j] EXCEPT !.exist = Yes]]
        BY <1>5, <2>3, <3>4 DEF Filled
      <4> QED
        BY <3>3, <4>1 DEF Slots
    <3>6. PICK e : e = [d EXCEPT !.slots = u]
      OBVIOUS
    <3>7. e.slots = u /\ [e EXCEPT !.slots = t] = [d EXCEPT !.slots = t]
      BY <1>3, <3>6 DEF Decoder
    <3>8. TakeByte(d, b, next) = [[e EXCEPT !.slots = [e.slots EXCEPT
                                    ![j] = [e.slots[j] EXCEPT !.exist = Yes]]] EXCEPT !.part = q]
      BY <1>4, <3>2, <3>3, <3>6
    <3> QED
      BY <3>5, <3>7, <3>8
  <2>4. CASE k > 2
    <3>1. d.part = 3 /\ q = 3
      BY <1>2, <1>4, <2>4
    <3>2. TakeByte(d, b, next) = [d EXCEPT !.slots[d.index].payload = Append(@, b)]
      BY <1>4, <3>1 DEF TakeByte, Yes, No
    <3>3. Filled(s[j], k, b, next) = [s[j] EXCEPT !.payload = Append(@, b)]
      BY <2>4 DEF Filled
    <3>4. TakeByte(d, b, next) = [d EXCEPT !.slots = t]
      BY <1>4, <1>5, <3>2, <3>3
    <3> QED
      BY <1>3, <3>1, <3>4 DEF Decoder
  <2> QED
    BY <2>1, <2>2, <2>3, <2>4
<1>7. Within(No, k + 1, j, t) = Decoder(No, Yes, Yes, No, 3, q, j, t, 0)
  BY <1>2 DEF Within
<1>8. TakeByte(d, b, next) = Decoder(No, Yes, Yes, No, 3, q, j, t, 0)
  <2>1. PICK e : e = [d EXCEPT !.slots = t]
    OBVIOUS
  <2>2. e = Decoder(No, Yes, Yes, No, 3, p, j, t, 0)
    BY <1>3, <2>1 DEF Decoder
  <2>3. [e EXCEPT !.part = q] = Decoder(No, Yes, Yes, No, 3, q, j, t, 0)
    BY <2>2 DEF Decoder
  <2> QED
    BY <1>6, <2>1, <2>3
<1> QED
  BY <1>1, <1>5, <1>7, <1>8 DEF Put

LEMMA StepPlain ==
  ASSUME NEW bytes, NEW n, bytes[n] # DLE, NEW k, NEW j, NEW s
  PROVE  DecodeByte(bytes, Within(No, k, j, s), n)
           = TakeByte(Within(No, k, j, s), bytes[n], IF n < Len(bytes) THEN bytes[n + 1] ELSE 0)
<1>1. PICK d : d = Within(No, k, j, s)
  OBVIOUS
<1>2. d.end = 0 /\ d.dle = No
  BY <1>1 DEF Decoder, Within
<1>3. PICK next : next = IF n < Len(bytes) THEN bytes[n + 1] ELSE 0
  OBVIOUS
<1>4. DecodeByte(bytes, d, n) = TakeByte(d, bytes[n], next)
  BY <1>2, <1>3 DEF DecodeByte, Yes, No
<1> QED
  BY <1>1, <1>3, <1>4

LEMMA StepDoubled ==
  ASSUME NEW bytes, NEW n, bytes[n] = DLE, NEW k, NEW j, NEW s
  PROVE  DecodeByte(bytes, Within(Yes, k, j, s), n)
           = TakeByte(Within(No, k, j, s), DLE, IF n < Len(bytes) THEN bytes[n + 1] ELSE 0)
<1>1. PICK d : d = Within(Yes, k, j, s)
  OBVIOUS
<1>2. d.end = 0 /\ d.dle = Yes /\ ~(d.header < 3)
  BY <1>1 DEF Decoder, Within
<1>3. PICK next : next = IF n < Len(bytes) THEN bytes[n + 1] ELSE 0
  OBVIOUS
<1>4. DecodeByte(bytes, d, n) = TakeByte([d EXCEPT !.dle = No], DLE, next)
  BY <1>2, <1>3, ControlBytes DEF DecodeByte, Yes, No
<1>5. [d EXCEPT !.dle = No] = Within(No, k, j, s)
  BY <1>1 DEF Decoder, Within
<1> QED
  BY <1>1, <1>3, <1>4, <1>5

\* The first m bytes of a payload.
First(p, m) == [i \in 1..m |-> p[i]]

LEMMA FirstNext ==
  ASSUME NEW p \in Seq(Byte), NEW m \in Nat, m < Len(p)
  PROVE  /\ First(p, m) \in Seq(Byte)
         /\ Append(First(p, m), p[m + 1]) = First(p, m + 1)
<1>1. Len(p) \in Nat /\ \A i \in 1..Len(p) : p[i] \in Byte
  OBVIOUS
<1>2. \A i \in 1..(m + 1) : p[i] \in Byte
  BY <1>1
<1>3. PICK f : f = First(p, m)
  OBVIOUS
<1>4. f \in [1..m -> Byte]
  BY <1>2, <1>3 DEF First
<1>5. f \in Seq(Byte) /\ Len(f) = m
  BY <1>4
<1>6. PICK g : g = Append(f, p[m + 1])
  OBVIOUS
<1>7. g \in Seq(Byte) /\ Len(g) = m + 1
  BY <1>2, <1>5, <1>6
<1>8. \A i \in 1..(m + 1) : g[i] = p[i]
  BY <1>3, <1>5, <1>6 DEF First
<1>9. g = [i \in 1..(m + 1) |-> g[i]]
  BY <1>7
<1>10. g = First(p, m + 1)
  BY <1>8, <1>9 DEF First
<1> QED
  BY <1>3, <1>5, <1>6, <1>10

LEMMA FirstAll ==
  ASSUME NEW p \in Seq(Byte)
  PROVE  First(p, Len(p)) = p
  BY DEF First

\* What the slot of a command holds after k of its data bytes, n of l bytes decoded: the
\* command exists with its address complete; the address is right if more bytes follow.
PartlyFilled(x, c, k, n, l) ==
  /\ x \in Slot
  /\ k < 3 => x.exist = No
  /\ k > 0 => x.type = c.type
  /\ k = 2 /\ n < l => x.address = c.address
  /\ k > 2 => x = [exist |-> Yes, type |-> c.type, address |-> c.address,
                   payload |-> First(c.payload, k - 3)]

LEMMA FilledNext ==
  ASSUME NEW c \in Command, NEW k \in 0..(Size(c) - 1), NEW n \in Nat, NEW l \in Nat, n < l,
         NEW x, PartlyFilled(x, c, k, n, l),
         NEW next \in Nat, k = 1 /\ n + 1 < l => next = Datum(c, 3)
  PROVE  PartlyFilled(Filled(x, k, Datum(c, k + 1), next), c, k + 1, n + 1, l)
<1>1. PICK b : b = Datum(c, k + 1)
  OBVIOUS
<1>2. PICK y : y = Filled(x, k, b, next)
  OBVIOUS
<1>3. Len(c.payload) \in Nat /\ k \in Nat /\ k < 3 + Len(c.payload)
  BY CommandParts DEF Size
<1>4. x \in Slot
  BY DEF PartlyFilled
<1>5. CASE k = 0
  <2>1. b = c.type /\ b \in Byte
    BY <1>1, <1>5, CommandParts DEF Datum
  <2>2. y = [x EXCEPT !.type = b]
    BY <1>2, <1>5 DEF Filled
  <2>3. y \in Slot /\ y.exist = x.exist /\ y.type = b
    BY <1>4, <2>1, <2>2 DEF Slot
  <2>4. x.exist = No
    BY <1>5 DEF PartlyFilled
  <2> QED
    BY <1>1, <1>2, <1>5, <2>1, <2>3, <2>4 DEF PartlyFilled
<1>6. CASE k = 1
  <2>1. b = c.address \div 256 /\ b \in Byte /\ b \in Nat
    BY <1>1, <1>6, CommandParts, ByteNat DEF Datum
  <2>2. y = [x EXCEPT !.address = 256 * b + next]
    BY <1>2, <1>6 DEF Filled
  <2>3. y \in Slot /\ y.exist = x.exist /\ y.type = x.type /\ y.address = 256 * b + next
    BY <1>4, <2>1, <2>2 DEF Slot
  <2>4. x.exist = No /\ x.type = c.type
    BY <1>6 DEF PartlyFilled
  <2>5. n + 1 < l => y.address = c.address
    BY <1>6, <2>1, <2>3, CommandParts DEF Datum
  <2> QED
    BY <1>1, <1>2, <1>6, <2>1, <2>3, <2>4, <2>5 DEF PartlyFilled
<1>7. CASE k = 2
  <2>1. y = [x EXCEPT !.payload = <<>>, !.exist = Yes]
    BY <1>2, <1>7 DEF Filled
  <2>2. x.type = c.type /\ x.address = c.address
    BY <1>7 DEF PartlyFilled
  <2>3. y = [exist |-> Yes, type |-> c.type, address |-> c.address, payload |-> <<>>]
    BY <1>4, <2>1, <2>2 DEF Slot
  <2>4. First(c.payload, 0) = <<>>
    BY DEF First
  <2>5. y \in Slot
    BY <2>3, CommandParts DEF Slot, Yes
  <2> QED
    BY <1>1, <1>2, <1>7, <2>3, <2>4, <2>5 DEF PartlyFilled
<1>8. CASE k > 2
  <2>1. PICK m : m = k - 3
    OBVIOUS
  <2>2. m \in Nat /\ m < Len(c.payload) /\ k = m + 3 /\ (k + 1) - 3 = m + 1
    BY <1>3, <1>8, <2>1
  <2>3. b = c.payload[m + 1]
    BY <1>1, <1>3, <1>8, <2>1, <2>2 DEF Datum
  <2>4. First(c.payload, m) \in Seq(Byte) /\ Append(First(c.payload, m), b) = First(c.payload, m + 1)
    <3>1. PICK p : p = c.payload
      OBVIOUS
    <3>2. p \in Seq(Byte)
      BY <3>1, CommandParts
    <3>3. m < Len(p) /\ b = p[m + 1]
      BY <2>2, <2>3, <3>1
    <3>4. First(p, m) \in Seq(Byte) /\ Append(First(p, m), p[m + 1]) = First(p, m + 1)
      BY <2>2, <3>2, <3>3, FirstNext
    <3> QED
      BY <3>1, <3>3, <3>4
  <2>5. x = [exist |-> Yes, type |-> c.type, address |-> c.address,
             payload |-> First(c.payload, m)]
    BY <1>8, <2>1 DEF PartlyFilled
  <2>6. y = [x EXCEPT !.payload = Append(@, b)]
    BY <1>2, <1>3, <1>8 DEF Filled
  <2>7. y = [exist |-> Yes, type |-> c.type, address |-> c.address,
             payload |-> First(c.payload, m + 1)]
    BY <2>4, <2>5, <2>6
  <2>8. y \in Slot
    <3>1. b \in Byte
      BY <1>1, <1>3, DatumByte DEF Size
    <3>2. y.payload \in Seq(Byte)
      BY <2>4, <2>5, <2>6, <3>1
    <3> QED
      BY <2>7, <3>2, CommandParts DEF Slot, Yes
  <2> QED
    BY <1>1, <1>2, <1>3, <1>8, <2>2, <2>7, <2>8 DEF PartlyFilled
<1> QED
  BY <1>3, <1>5, <1>6, <1>7, <1>8

DecodedSlot(c) ==
  [exist |-> Yes, type |-> c.type, address |-> c.address, payload |-> c.payload]

\* The slots after j commands, and in the middle of the command that follows them.
FilledSlots(s, cs, j) ==
  /\ s \in Slots
  /\ j <= MAX_COMMANDS
  /\ \A m \in 0..(j - 1) : s[m] = DecodedSlot(cs[m + 1])
  /\ \A m \in j..(MAX_COMMANDS - 1) : s[m].exist = No

FillingSlots(s, cs, j, k, n, l) ==
  /\ s \in Slots
  /\ j < MAX_COMMANDS
  /\ \A m \in 0..(j - 1) : s[m] = DecodedSlot(cs[m + 1])
  /\ PartlyFilled(s[j], cs[j + 1], k, n, l)
  /\ \A m \in (j + 1)..(MAX_COMMANDS - 1) : s[m].exist = No

LEMMA FillingFirst ==
  ASSUME NEW j \in Nat, NEW s, NEW cs, FilledSlots(s, cs, j), j < MAX_COMMANDS, NEW n, NEW l
  PROVE  FillingSlots(s, cs, j, 0, n, l)
<1>1. MAX_COMMANDS \in Nat
  BY MttpAssumption
<1>2. s[j] \in Slot /\ s[j].exist = No
  BY <1>1 DEF FilledSlots, Slots
<1>3. PartlyFilled(s[j], cs[j + 1], 0, n, l)
  BY <1>2 DEF PartlyFilled
<1>4. \A m \in (j + 1)..(MAX_COMMANDS - 1) : m \in j..(MAX_COMMANDS - 1)
  BY <1>1
<1> QED
  BY <1>3, <1>4 DEF FilledSlots, FillingSlots

LEMMA FillingNext ==
  ASSUME NEW j \in Nat, NEW cs, cs[j + 1] \in Command,
         NEW k \in 0..(Size(cs[j + 1]) - 1), NEW n \in Nat, NEW l \in Nat, n < l,
         NEW s, FillingSlots(s, cs, j, k, n, l),
         NEW next \in Nat, k = 1 /\ n + 1 < l => next = Datum(cs[j + 1], 3)
  PROVE  FillingSlots(Put(s, j, Filled(s[j], k, Datum(cs[j + 1], k + 1), next)),
                      cs, j, k + 1, n + 1, l)
<1>1. PICK x : x = Filled(s[j], k, Datum(cs[j + 1], k + 1), next)
  OBVIOUS
<1>2. PICK t : t = [s EXCEPT ![j] = x]
  OBVIOUS
<1>3. MAX_COMMANDS \in Nat /\ j < MAX_COMMANDS
  BY MttpAssumption DEF FillingSlots
<1>4. PartlyFilled(x, cs[j + 1], k + 1, n + 1, l)
  <2>1. PartlyFilled(s[j], cs[j + 1], k, n, l)
    BY DEF FillingSlots
  <2> QED
    BY <1>1, <2>1, FilledNext
<1>5. x \in Slot
  BY <1>4 DEF PartlyFilled
<1>6. t \in Slots /\ t[j] = x /\ \A m \in 0..(MAX_COMMANDS - 1) : m # j => t[m] = s[m]
  BY <1>2, <1>3, <1>5 DEF FillingSlots, Slots
<1>7. \A m \in 0..(j - 1) : t[m] = s[m]
  BY <1>3, <1>6
<1>8. \A m \in (j + 1)..(MAX_COMMANDS - 1) : t[m] = s[m]
  BY <1>3, <1>6
<1>9. FillingSlots(t, cs, j, k + 1, n + 1, l)
  BY <1>3, <1>4, <1>6, <1>7, <1>8 DEF FillingSlots
<1> QED
  BY <1>1, <1>2, <1>9 DEF Put

LEMMA FillingLater ==
  ASSUME NEW j, NEW k, NEW n \in Nat, NEW l \in Nat, n < l, NEW s, NEW cs,
         FillingSlots(s, cs, j, k, n, l)
  PROVE  FillingSlots(s, cs, j, k, n + 1, l)
  BY DEF FillingSlots, PartlyFilled

LEMMA FillingLast ==
  ASSUME NEW j \in Nat, NEW cs, cs[j + 1] \in Command, NEW n, NEW l,
         NEW s, FillingSlots(s, cs, j, Size(cs[j + 1]), n, l)
  PROVE  FilledSlots(s, cs, j + 1)
<1>1. PICK c : c = cs[j + 1]
  OBVIOUS
<1>2. c \in Command /\ PartlyFilled(s[j], c, Size(c), n, l)
  BY <1>1 DEF FillingSlots
<1>3. PICK p, k : p = c.payload /\ k = Size(c)
  OBVIOUS
<1>4. p \in Seq(Byte) /\ Len(p) \in Nat
  BY <1>2, <1>3, CommandParts
<1>5. k = 3 + Len(p) /\ k > 2 /\ k - 3 = Len(p)
  BY <1>3, <1>4 DEF Size
<1>6. s[j] = [exist |-> Yes, type |-> c.type, address |-> c.address, payload |-> First(p, Len(p))]
  BY <1>2, <1>3, <1>5 DEF PartlyFilled
<1>7. s[j] = DecodedSlot(c)
  BY <1>3, <1>4, <1>6, FirstAll DEF DecodedSlot
<1>8. MAX_COMMANDS \in Nat
  BY MttpAssumption
<1>9. \A m \in 0..((j + 1) - 1) : m \in 0..(j - 1) \/ m = j
  OBVIOUS
<1> QED
  BY <1>1, <1>7, <1>8, <1>9 DEF FilledSlots, FillingSlots

-----------------------------------------------------------------------------
(* The recursive functions satisfy their equations.                        *)

IsDecoding(s, bytes, m, f) ==
  f = [n \in 0..m |-> IF n = 0 THEN Fresh(s, FirstFree(s)) ELSE DecodeByte(bytes, f[n - 1], n)]

LEMMA DecodingExtended ==
  ASSUME NEW s, NEW bytes, NEW m \in Nat, NEW f, IsDecoding(s, bytes, m, f)
  PROVE  \E g : IsDecoding(s, bytes, m + 1, g)
<1>1. PICK next : next = DecodeByte(bytes, f[m], m + 1)
  OBVIOUS
<1>2. PICK g : g = [n \in 0..(m + 1) |-> IF n = m + 1 THEN next ELSE f[n]]
  OBVIOUS
<1>3. g[m + 1] = next /\ \A n \in 0..m : g[n] = f[n]
  BY <1>2
<1>4. ASSUME NEW n \in 0..(m + 1)
      PROVE  g[n] = IF n = 0 THEN Fresh(s, FirstFree(s)) ELSE DecodeByte(bytes, g[n - 1], n)
  <2>1. CASE n = m + 1
    <3>1. n # 0 /\ n - 1 = m /\ m \in 0..m
      BY <2>1
    <3> QED
      BY <1>1, <1>3, <2>1, <3>1
  <2>2. CASE n # m + 1
    <3>1. n \in 0..m /\ (n # 0 => n - 1 \in 0..m)
      BY <2>2
    <3>2. f[n] = IF n = 0 THEN Fresh(s, FirstFree(s)) ELSE DecodeByte(bytes, f[n - 1], n)
      BY <3>1 DEF IsDecoding
    <3> QED
      BY <1>3, <3>1, <3>2
  <2> QED
    BY <2>1, <2>2
<1>5. g = [n \in 0..(m + 1) |-> g[n]]
  BY <1>2
<1>6. IsDecoding(s, bytes, m + 1, g)
  BY <1>4, <1>5 DEF IsDecoding
<1> QED
  BY <1>6

LEMMA DecodingDefined ==
  ASSUME NEW s, NEW bytes, Len(bytes) \in Nat
  PROVE  /\ Decoding(s, bytes)[0] = Fresh(s, FirstFree(s))
         /\ \A n \in 0..(Len(bytes) - 1) :
              Decoding(s, bytes)[n + 1] = DecodeByte(bytes, Decoding(s, bytes)[n], n + 1)
<1> DEFINE S == {m \in Nat : \E f : IsDecoding(s, bytes, m, f)}
<1>1. 0 \in S
  <2>1. PICK f : f = [n \in 0..0 |-> Fresh(s, FirstFree(s))]
    OBVIOUS
  <2>2. f = [n \in 0..0 |-> IF n = 0 THEN Fresh(s, FirstFree(s)) ELSE DecodeByte(bytes, f[n - 1], n)]
    <3>1. \A n \in 0..0 : n = 0
      OBVIOUS
    <3> QED
      BY <2>1, <3>1
  <2> QED
    BY <2>2 DEF IsDecoding
<1>2. \A m \in S : m + 1 \in S
  BY DecodingExtended
<1>3. S \in SUBSET Nat
  OBVIOUS
<1> HIDE DEF S
<1>4. Len(bytes) \in S
  BY <1>1, <1>2, <1>3, Induction
<1>5. PICK f : f = Decoding(s, bytes)
  OBVIOUS
<1>6. IsDecoding(s, bytes, Len(bytes), f)
  BY <1>4, <1>5 DEF S, Decoding, IsDecoding
<1>7. f[0] = Fresh(s, FirstFree(s))
  BY <1>6 DEF IsDecoding
<1>8. \A n \in 0..(Len(bytes) - 1) : f[n + 1] = DecodeByte(bytes, f[n], n + 1)
  <2> SUFFICES ASSUME NEW n \in 0..(Len(bytes) - 1)
               PROVE  f[n + 1] = DecodeByte(bytes, f[n], n + 1)
    OBVIOUS
  <2>1. n + 1 \in 0..Len(bytes) /\ n + 1 # 0 /\ (n + 1) - 1 = n
    OBVIOUS
  <2> QED
    BY <1>6, <2>1 DEF IsDecoding
<1> QED
  BY <1>5, <1>7, <1>8

\* The message of the first m commands, before it is closed.
IsBuilt(message, m, f) ==
  f = [n \in 0..m |-> IF n = 0 THEN Opened(ePut) ELSE WithCommand(f[n - 1], message[n])]

LEMMA BuiltExtended ==
  ASSUME NEW message, NEW m \in Nat, NEW f, IsBuilt(message, m, f)
  PROVE  \E g : IsBuilt(message, m + 1, g)
<1>1. PICK next : next = WithCommand(f[m], message[m + 1])
  OBVIOUS
<1>2. PICK g : g = [n \in 0..(m + 1) |-> IF n = m + 1 THEN next ELSE f[n]]
  OBVIOUS
<1>3. g[m + 1] = next /\ \A n \in 0..m : g[n] = f[n]
  BY <1>2
<1>4. ASSUME NEW n \in 0..(m + 1)
      PROVE  g[n] = IF n = 0 THEN Opened(ePut) ELSE WithCommand(g[n - 1], message[n])
  <2>1. CASE n = m + 1
    <3>1. n # 0 /\ n - 1 = m /\ m \in 0..m
      BY <2>1
    <3> QED
      BY <1>1, <1>3, <2>1, <3>1
  <2>2. CASE n # m + 1
    <3>1. n \in 0..m /\ (n # 0 => n - 1 \in 0..m)
      BY <2>2
    <3>2. f[n] = IF n = 0 THEN Opened(ePut) ELSE WithCommand(f[n - 1], message[n])
      BY <3>1 DEF IsBuilt
    <3> QED
      BY <1>3, <3>1, <3>2
  <2> QED
    BY <2>1, <2>2
<1>5. g = [n \in 0..(m + 1) |-> g[n]]
  BY <1>2
<1>6. IsBuilt(message, m + 1, g)
  BY <1>4, <1>5 DEF IsBuilt
<1> QED
  BY <1>6

LEMMA EncodedBuffer ==
  ASSUME NEW message \in Seq(Command)
  PROVE  ClosedBuffer(Encoded(message), message)
<1>1. Len(message) \in Nat
  OBVIOUS
<1>2. \E f : IsBuilt(message, Len(message), f)
  <2> DEFINE S == {m \in Nat : \E f : IsBuilt(message, m, f)}
  <2>1. 0 \in S
    <3>1. PICK f : f = [n \in 0..0 |-> Opened(ePut)]
      OBVIOUS
    <3>2. f = [n \in 0..0 |-> IF n = 0 THEN Opened(ePut) ELSE WithCommand(f[n - 1], message[n])]
      <4>1. \A n \in 0..0 : n = 0
        OBVIOUS
      <4> QED
        BY <3>1, <4>1
    <3> QED
      BY <3>2 DEF IsBuilt
  <2>2. \A m \in S : m + 1 \in S
    BY BuiltExtended
  <2>3. S \in SUBSET Nat
    OBVIOUS
  <2> HIDE DEF S
  <2>4. Len(message) \in S
    BY <1>1, <2>1, <2>2, <2>3, Induction
  <2> QED
    BY <2>4 DEF S
<1>3. PICK f : f = CHOOSE g : IsBuilt(message, Len(message), g)
  OBVIOUS
<1>4. IsBuilt(message, Len(message), f)
  BY <1>2, <1>3
<1>5. Encoded(message) = Closed(f[Len(message)])
  BY <1>3 DEF Encoded, IsBuilt
<1>6. OpenBuffer(f[Len(message)], message)
  <2> DEFINE Prefix(n) == [i \in 1..n |-> message[i]]
             T == {n \in Nat : n <= Len(message) => OpenBuffer(f[n], Prefix(n))}
  <2>1. 0 \in T
    <3>1. f[0] = Opened(ePut)
      BY <1>1, <1>4 DEF IsBuilt
    <3>2. Prefix(0) = <<>>
      OBVIOUS
    <3>3. ePut \in Byte
      BY DEF ePut, Byte
    <3>4. OpenBuffer(f[0], Prefix(0))
      BY <3>1, <3>2, <3>3, OpenedBuffer
    <3> QED
      BY <3>4
  <2>2. ASSUME NEW n \in T, n + 1 <= Len(message)
        PROVE  OpenBuffer(f[n + 1], Prefix(n + 1))
    <3>1. n \in Nat /\ n + 1 \in 1..Len(message) /\ n + 1 \in 0..Len(message)
      BY <1>1, <2>2
    <3>2. OpenBuffer(f[n], Prefix(n))
      BY <1>1, <2>2, <3>1
    <3>3. n + 1 # 0 /\ (n + 1) - 1 = n
      BY <3>1
    <3>4. f[n + 1] = WithCommand(f[n], message[n + 1])
      BY <1>4, <3>1, <3>3 DEF IsBuilt
    <3>5. message[n + 1] \in Command
      BY <3>1
    <3>6. Append(Prefix(n), message[n + 1]) = Prefix(n + 1)
      <4>1. PICK p : p = Prefix(n)
        OBVIOUS
      <4>2. \A i \in 1..n : message[i] \in Command
        BY <1>1, <3>1
      <4>3. p \in [1..n -> Command] /\ \A i \in 1..n : p[i] = message[i]
        BY <4>1, <4>2
      <4>4. p \in Seq(Command) /\ Len(p) = n
        BY <3>1, <4>3
      <4>5. PICK q : q = Append(p, message[n + 1])
        OBVIOUS
      <4>6. q \in Seq(Command) /\ Len(q) = n + 1
        BY <3>5, <4>4, <4>5
      <4>7. \A i \in 1..(n + 1) : q[i] = message[i]
        BY <3>1, <3>5, <4>3, <4>4, <4>5
      <4>8. q = [i \in 1..(n + 1) |-> q[i]]
        BY <4>6
      <4> QED
        BY <4>1, <4>5, <4>7, <4>8
    <3> HIDE DEF Prefix
    <3> QED
      BY <3>2, <3>4, <3>5, <3>6, ExtendedOpenBuffer
  <2>3. \A n \in T : n + 1 \in T
    BY <2>2
  <2>4. T \in SUBSET Nat
    OBVIOUS
  <2>5. Prefix(Len(message)) = message
    OBVIOUS
  <2> HIDE DEF Prefix, T
  <2>6. Len(message) \in T
    BY <1>1, <2>1, <2>3, <2>4, Induction
  <2>7. OpenBuffer(f[Len(message)], Prefix(Len(message)))
    BY <1>1, <2>6 DEF T
  <2> QED
    BY <2>5, <2>7
<1> QED
  BY <1>5, <1>6, ClosedOpenBuffer

-----------------------------------------------------------------------------
(* Where the decoder stands after some bytes of a message.                 *)

Offset(c) == CHOOSE o : CommandAt(c, EncodedCommand(c), o)

\* A message with the places of its commands.
Layout(b, cs, pos) == MessageAt(b, cs, pos) /\ Ends(b, pos[Len(cs)])

\* The bytes between the commands, and behind the last one.
LEMMA BytesBetween ==
  ASSUME NEW b, NEW cs, NEW pos, Layout(b, cs, pos), NEW j \in 0..Len(cs)
  PROVE  /\ Len(cs) \in Nat /\ Len(b) \in Nat
         /\ pos[j] \in Nat /\ 5 <= pos[j] /\ pos[j] + 2 <= Len(b)
         /\ b[pos[j] + 1] = DLE
         /\ j < Len(cs) => b[pos[j] + 2] = SCD
         /\ j = Len(cs) => b[pos[j] + 2] = ETX /\ Len(b) = pos[j] + 2
<1>1. Len(cs) \in Nat /\ b \in Seq(Byte) /\ cs \in Seq(Command)
  BY DEF Layout, MessageAt
<1>2. Len(b) \in Nat
  BY <1>1
<1>3. pos[j] \in Nat /\ 5 <= pos[j] /\ pos[j] <= pos[Len(cs)] /\ pos[Len(cs)] \in Nat
  BY <1>1 DEF Layout, MessageAt
<1>4. /\ Len(b) = pos[Len(cs)] + 2
      /\ b[pos[Len(cs)] + 1] = DLE /\ b[pos[Len(cs)] + 2] = ETX
  BY DEF Layout, Ends
<1>5. CASE j = Len(cs)
  BY <1>1, <1>2, <1>3, <1>4, <1>5
<1>6. CASE j # Len(cs)
  <2>1. j \in 0..(Len(cs) - 1) /\ j + 1 \in 1..Len(cs)
    BY <1>1, <1>6
  <2>2. PICK c, e : c = cs[j + 1] /\ e = EncodedCommand(c)
    OBVIOUS
  <2>3. c \in Command
    BY <1>1, <2>1, <2>2
  <2>4. PICK o : CommandAt(c, e, o)
    BY <2>2, <2>3, CommandLaidOut
  <2>5. e[1] = DLE /\ e[2] = SCD /\ Len(e) \in Nat /\ 2 <= Len(e)
    <3>1. Size(c) \in Nat
      BY <2>3, CommandParts DEF Size
    <3>2. o[Size(c)] \in Nat
      BY <2>4, <3>1 DEF CommandAt
    <3> QED
      BY <2>4, <3>2 DEF CommandAt
  <2>6. Stands(e, b, pos[j])
    BY <2>1, <2>2 DEF Layout, MessageAt
  <2>7. b[pos[j] + 1] = e[1] /\ b[pos[j] + 2] = e[2] /\ pos[j] + 2 <= Len(b)
    <3>1. 1 \in 1..Len(e) /\ 2 \in 1..Len(e)
      BY <2>5
    <3>2. b[pos[j] + 1] = e[1] /\ b[pos[j] + 2] = e[2]
      BY <2>6, <3>1 DEF Stands
    <3>3. pos[j] + Len(e) <= Len(b)
      BY <2>6 DEF Stands
    <3> QED
      BY <1>2, <1>3, <2>5, <3>2, <3>3
  <2> QED
    BY <1>1, <1>2, <1>3, <1>6, <2>5, <2>7
<1> QED
  BY <1>5, <1>6

LEMMA SizeNat ==
  ASSUME NEW c \in Command
  PROVE  Size(c) \in Nat /\ 3 <= Size(c)
<1>1. Len(c.payload) \in Nat
  BY CommandParts
<1> QED
  BY <1>1 DEF Size

\* The bytes of the values of a command from number k + 1 on, and behind the last one.
BytesFrom(b, pos, c, o, j, k, p) ==
  /\ c \in Command /\ Size(c) \in Nat /\ 3 <= Size(c)
  /\ p \in Nat /\ p + 1 < Len(b)
  /\ k < Size(c) => /\ b[p + 1] = Datum(c, k + 1)
                    /\ Datum(c, k + 1) = DLE => b[p + 2] = DLE
                    /\ pos[j] + 2 + o[k + 1] = p + Width(Datum(c, k + 1))
  /\ k = Size(c) => b[p + 1] = DLE /\ b[p + 2] = ECD /\ pos[j + 1] = p + 2

LEMMA BytesWithin ==
  ASSUME NEW b, NEW cs, NEW pos, Layout(b, cs, pos), NEW j \in 0..(Len(cs) - 1),
         NEW c, c = cs[j + 1], NEW o, o = Offset(c), NEW k \in 0..Size(c),
         NEW p, p = pos[j] + 2 + o[k]
  PROVE  BytesFrom(b, pos, c, o, j, k, p)
<1>1. PICK e : e = EncodedCommand(c)
  OBVIOUS
<1>2. /\ Len(cs) \in Nat /\ Len(b) \in Nat /\ pos[j] \in Nat
      /\ j + 1 \in 1..Len(cs) /\ j \in 0..Len(cs)
  <2>1. Len(cs) \in Nat
    BY DEF Layout, MessageAt
  <2>2. j \in 0..Len(cs)
    BY <2>1
  <2> QED
    BY <2>1, <2>2, BytesBetween
<1>3. c \in Command
  BY <1>2 DEF Layout, MessageAt
<1>4. Size(c) \in Nat /\ 3 <= Size(c)
  BY <1>3, SizeNat
<1>5. CommandAt(c, e, o)
  BY <1>1, <1>3, CommandLaidOut DEF Offset
<1>6. o[k] \in Nat /\ o[k] <= o[Size(c)] /\ o[Size(c)] \in Nat /\ o[0] = 0
  BY <1>4, <1>5 DEF CommandAt
<1>7. PICK a, m, l : a = pos[j] /\ m = o[Size(c)] /\ l = Len(e)
  OBVIOUS
<1>8. l = 4 + m
  BY <1>5, <1>7 DEF CommandAt
<1>9. Stands(e, b, a) /\ pos[j + 1] = a + l
  BY <1>1, <1>7 DEF Layout, MessageAt
<1>10. a \in Nat /\ m \in Nat /\ o[k] <= m /\ p = a + 2 + o[k]
  BY <1>2, <1>6, <1>7
<1>11. p \in Nat /\ p + 1 < Len(b)
  <2>1. a + l <= Len(b)
    BY <1>7, <1>9 DEF Stands
  <2>2. PICK q, n : q = o[k] /\ n = Len(b)
    OBVIOUS
  <2>3. q \in Nat /\ q <= m /\ p = a + 2 + q /\ a \in Nat /\ m \in Nat /\ n \in Nat /\ a + l <= n
    BY <1>2, <1>6, <1>10, <2>1, <2>2
  <2>4. p \in Nat /\ p + 1 < n
    BY ONLY <1>8, <2>3
  <2> QED
    BY <2>2, <2>4
<1>12. ASSUME k < Size(c)
       PROVE  /\ b[p + 1] = Datum(c, k + 1)
              /\ Datum(c, k + 1) = DLE => b[p + 2] = DLE
              /\ pos[j] + 2 + o[k + 1] = p + Width(Datum(c, k + 1))
  <2>1. k \in 0..(Size(c) - 1) /\ k + 1 \in 1..Size(c)
    BY <1>4, <1>12
  <2>2. PICK v, t : v = Datum(c, k + 1) /\ t = Escaped(v)
    OBVIOUS
  <2>3. v \in Byte
    BY <1>3, <2>1, <2>2, DatumByte
  <2>4. Len(t) = Width(v) /\ t[1] = v /\ (v = DLE => t[2] = DLE) /\ Width(v) \in Nat
    BY <2>2, <2>3, EscapedByte
  <2>5. Stands(t, e, 2 + o[k]) /\ o[k + 1] = o[k] + Width(v)
    BY <1>5, <2>1, <2>2 DEF CommandAt
  <2>6. Stands(t, b, p)
    <3>1. Stands(t, b, a + (2 + o[k]))
      BY <1>2, <1>9, <2>5, StandsWithin
    <3>2. PICK q : q = o[k]
      OBVIOUS
    <3>3. a \in Nat /\ q \in Nat /\ p = a + 2 + q
      BY <1>6, <1>10, <3>2
    <3>4. a + (2 + q) = p
      BY ONLY <3>3
    <3> QED
      BY <3>1, <3>2, <3>4
  <2>7. b[p + 1] = v
    <3>1. 1 \in 1..Len(t)
      BY <2>4 DEF Width
    <3> QED
      BY <2>4, <2>6, <3>1 DEF Stands
  <2>8. v = DLE => b[p + 2] = DLE
    <3>1. v = DLE => 2 \in 1..Len(t)
      BY <2>4 DEF Width
    <3> QED
      BY <2>4, <2>6, <3>1 DEF Stands
  <2>9. PICK w : w = Width(v)
    OBVIOUS
  <2>10. w \in Nat /\ o[k + 1] = o[k] + w
    BY <2>4, <2>5, <2>9
  <2>11. a + 2 + o[k + 1] = p + w
    BY <1>6, <1>10, <2>10
  <2> QED
    BY <1>7, <2>2, <2>7, <2>8, <2>9, <2>11
<1>13. ASSUME k = Size(c)
       PROVE  b[p + 1] = DLE /\ b[p + 2] = ECD /\ pos[j + 1] = p + 2
  <2>1. e[3 + m] = DLE /\ e[4 + m] = ECD
    BY <1>5, <1>7 DEF CommandAt
  <2>2. p = a + 2 + m
    BY <1>7, <1>10, <1>13
  <2>3. 3 + m \in 1..l /\ 4 + m \in 1..l
    BY <1>8, <1>10
  <2>4. b[a + (3 + m)] = DLE /\ b[a + (4 + m)] = ECD
    BY <1>7, <1>9, <2>1, <2>3 DEF Stands
  <2>5. a + (3 + m) = p + 1 /\ a + (4 + m) = p + 2 /\ a + l = p + 2
    BY <1>8, <1>10, <2>2
  <2> QED
    BY <1>9, <2>4, <2>5
<1> QED
  BY <1>3, <1>4, <1>11, <1>12, <1>13 DEF BytesFrom

\* bytes is what recv has returned of the message b.
Cut(bytes, b) ==
  /\ Len(bytes) \in Nat /\ Len(bytes) <= Len(b)
  /\ \A i \in 1..Len(bytes) : bytes[i] = b[i]

\* After n of l bytes the decoder is in the header of the message, before or behind a
\* DLE between two commands, in a command, or at the end.
InHeader(d, n, s) ==
  \/ n = 0 /\ d = Decoder(No, No, No, No, 3, 0, 0, s, 0)
  \/ n = 1 /\ d = Decoder(Yes, No, No, No, 3, 0, 0, s, 0)
  \/ \E h \in 0..2 : n = 2 + h /\ d = Opening(h, s)

InBetween(d, n, cs, pos, j, s) ==
  /\ FilledSlots(s, cs, j)
  /\ \/ n = pos[j] /\ d = Between(No, j, s, 0)
     \/ n = pos[j] + 1 /\ d = Between(Yes, j, s, 0)

InCommand(d, n, l, cs, pos, j, k, s) ==
  /\ FillingSlots(s, cs, j, k, n, l)
  /\ \/ n = pos[j] + 2 + Offset(cs[j + 1])[k] /\ d = Within(No, k, j, s)
     \/ /\ n = pos[j] + 2 + Offset(cs[j + 1])[k] + 1
        /\ d = Within(Yes, k, j, s)
        /\ k < Size(cs[j + 1]) => Datum(cs[j + 1], k + 1) = DLE

AtEnd(d, b, cs, j, s) ==
  /\ FilledSlots(s, cs, j)
  /\ j < Len(cs) => j = MAX_COMMANDS
  /\ \E e \in Nat \ {0} : d = Between(Yes, j, s, e) /\ (j = Len(cs) => e = Len(b))

Standing(d, n, l, b, cs, pos, start) ==
  \/ InHeader(d, n, start)
  \/ \E j \in 0..Len(cs), s \in Slots : InBetween(d, n, cs, pos, j, s)
  \/ \E j \in 0..(Len(cs) - 1), s \in Slots : \E k \in 0..Size(cs[j + 1]) :
       InCommand(d, n, l, cs, pos, j, k, s)
  \/ \E j \in 0..Len(cs), s \in Slots : AtEnd(d, b, cs, j, s)

LEMMA HeaderStep ==
  ASSUME NEW b, NEW cs, NEW pos, Layout(b, cs, pos), NEW bytes, Cut(bytes, b),
         NEW start, FilledSlots(start, cs, 0),
         NEW n \in 0..(Len(bytes) - 1), NEW d, InHeader(d, n, start)
  PROVE  \/ InHeader(DecodeByte(bytes, d, n + 1), n + 1, start)
         \/ InBetween(DecodeByte(bytes, d, n + 1), n + 1, cs, pos, 0, start)
<1>1. n \in Nat /\ n + 1 \in 1..Len(bytes) /\ bytes[n + 1] = b[n + 1]
  BY DEF Cut
<1>2. PICK m, r : m = n + 1 /\ r = DecodeByte(bytes, d, m)
  OBVIOUS
<1>3. CASE n = 0
  <2>1. bytes[m] = DLE /\ m = 1
    BY <1>1, <1>2, <1>3 DEF Layout, MessageAt
  <2>2. d = Decoder(No, No, No, No, 3, 0, 0, start, 0)
    BY <1>3 DEF InHeader
  <2>3. r = Decoder(Yes, No, No, No, 3, 0, 0, start, 0)
    BY <1>2, <2>1, <2>2, StepDLE
  <2> QED
    BY <1>2, <2>1, <2>3 DEF InHeader
<1>4. CASE n = 1
  <2>1. bytes[m] = STX /\ m = 2
    BY <1>1, <1>2, <1>4 DEF Layout, MessageAt
  <2>2. d = Decoder(Yes, No, No, No, 3, 0, 0, start, 0)
    BY <1>4 DEF InHeader
  <2>3. r = Opening(0, start)
    BY <1>2, <2>1, <2>2, StepSTX
  <2>4. m = 2 + 0 /\ 0 \in 0..2
    BY <2>1
  <2> QED
    BY <1>2, <2>3, <2>4 DEF InHeader
<1>5. CASE n # 0 /\ n # 1
  <2>1. PICK h \in 0..2 : n = 2 + h /\ d = Opening(h, start)
    BY <1>5 DEF InHeader
  <2>2. r = Opening(h + 1, start)
    BY <1>2, <2>1, StepHeader
  <2>3. CASE h = 2
    <3>1. m = pos[0]
      BY <1>2, <2>1, <2>3 DEF Layout, MessageAt
    <3>2. Opening(3, start) = Between(No, 0, start, 0)
      BY DEF Opening, Between
    <3> QED
      BY <1>2, <2>2, <2>3, <3>1, <3>2 DEF InBetween
  <2>4. CASE h # 2
    <3>1. h + 1 \in 0..2 /\ m = 2 + (h + 1)
      BY <1>2, <2>1, <2>4
    <3> QED
      BY <1>2, <2>2, <3>1 DEF InHeader
  <2> QED
    BY <2>3, <2>4
<1> QED
  BY <1>3, <1>4, <1>5

LEMMA BetweenStep ==
  ASSUME NEW b, NEW cs, NEW pos, Layout(b, cs, pos), NEW bytes, Cut(bytes, b),
         NEW n \in 0..(Len(bytes) - 1), NEW d,
         NEW j \in 0..Len(cs), NEW s, InBetween(d, n, cs, pos, j, s)
  PROVE  \/ InBetween(DecodeByte(bytes, d, n + 1), n + 1, cs, pos, j, s)
         \/ /\ j \in 0..(Len(cs) - 1)
            /\ InCommand(DecodeByte(bytes, d, n + 1), n + 1, Len(bytes), cs, pos, j, 0, s)
         \/ AtEnd(DecodeByte(bytes, d, n + 1), b, cs, j, s)
<1>1. n \in Nat /\ n + 1 \in 1..Len(bytes) /\ bytes[n + 1] = b[n + 1]
  BY DEF Cut
<1>2. PICK m, r, l : m = n + 1 /\ r = DecodeByte(bytes, d, m) /\ l = Len(bytes)
  OBVIOUS
<1>3. FilledSlots(s, cs, j) /\ j <= MAX_COMMANDS /\ MAX_COMMANDS \in Nat
  BY MttpAssumption DEF InBetween, FilledSlots
<1>4. /\ Len(cs) \in Nat /\ Len(b) \in Nat /\ j \in Nat
      /\ pos[j] \in Nat
      /\ b[pos[j] + 1] = DLE
      /\ j < Len(cs) => b[pos[j] + 2] = SCD
      /\ j = Len(cs) => b[pos[j] + 2] = ETX /\ Len(b) = pos[j] + 2
  BY BytesBetween
<1>5. CASE n = pos[j] /\ d = Between(No, j, s, 0)
  <2>1. bytes[m] = DLE
    BY <1>1, <1>2, <1>4, <1>5
  <2>2. r = Between(Yes, j, s, 0)
    BY <1>2, <1>5, <2>1, StepDLE DEF Between
  <2> QED
    BY <1>2, <1>3, <1>5, <2>2 DEF InBetween
<1>6. CASE n = pos[j] + 1 /\ d = Between(Yes, j, s, 0)
  <2>1. m = pos[j] + 2 /\ m \in Nat \ {0} /\ bytes[m] = b[m]
    BY <1>1, <1>2, <1>4, <1>6
  <2>2. CASE j = Len(cs)
    <3>1. bytes[m] = ETX /\ m = Len(b)
      BY <1>4, <2>1, <2>2
    <3>2. r = Between(Yes, j, s, m)
      BY <1>2, <1>6, <3>1, StepETX
    <3>3. ~(j < Len(cs))
      BY <1>4, <2>2
    <3> QED
      BY <1>2, <1>3, <2>1, <3>1, <3>2, <3>3 DEF AtEnd
  <2>3. CASE j # Len(cs) /\ j = MAX_COMMANDS
    <3>1. bytes[m] = SCD
      BY <1>4, <2>1, <2>3
    <3>2. r = Between(Yes, j, s, m)
      BY <1>2, <1>6, <2>3, <3>1, StepLastSCD
    <3> QED
      BY <1>2, <1>3, <2>1, <2>3, <3>2 DEF AtEnd
  <2>4. CASE j # Len(cs) /\ j # MAX_COMMANDS
    <3>1. j < MAX_COMMANDS /\ j \in 0..(Len(cs) - 1)
      BY <1>3, <1>4, <2>4
    <3>2. bytes[m] = SCD
      BY <1>4, <2>1, <2>4
    <3>3. r = Within(No, 0, j, s)
      <4>1. r = DecodeByte(bytes, Between(Yes, j, s, 0), m)
        BY <1>2, <1>6
      <4>2. j \in Nat /\ j < MAX_COMMANDS
        BY <1>4, <3>1
      <4> QED
        BY <3>2, <4>1, <4>2, StepSCD
    <3>4. FillingSlots(s, cs, j, 0, m, l)
      BY <1>3, <1>4, <3>1, FillingFirst
    <3>5. PICK c, o : c = cs[j + 1] /\ o = Offset(c)
      OBVIOUS
    <3>6. o[0] = 0
      <4>1. c \in Command
        <5>1. j + 1 \in 1..Len(cs)
          BY <1>4, <3>1
        <5> QED
          BY <3>5, <5>1 DEF Layout, MessageAt
      <4>2. CommandAt(c, EncodedCommand(c), o)
        BY <3>5, <4>1, CommandLaidOut DEF Offset
      <4> QED
        BY <4>2 DEF CommandAt
    <3>7. m = pos[j] + 2 + o[0]
      BY <1>4, <2>1, <3>6
    <3>8. InCommand(r, m, l, cs, pos, j, 0, s)
      BY <3>3, <3>4, <3>5, <3>7 DEF InCommand
    <3> QED
      BY <1>2, <3>1, <3>8
  <2> QED
    BY <2>2, <2>3, <2>4
<1> QED
  BY <1>5, <1>6 DEF InBetween

LEMMA CommandStep ==
  ASSUME NEW b, NEW cs, NEW pos, Layout(b, cs, pos), NEW bytes, Cut(bytes, b),
         NEW n \in 0..(Len(bytes) - 1), NEW d,
         NEW j \in 0..(Len(cs) - 1), NEW k \in 0..Size(cs[j + 1]), NEW s,
         InCommand(d, n, Len(bytes), cs, pos, j, k, s)
  PROVE  \/ InCommand(DecodeByte(bytes, d, n + 1), n + 1, Len(bytes), cs, pos, j, k, s)
         \/ /\ k + 1 \in 0..Size(cs[j + 1])
            /\ \E t : InCommand(DecodeByte(bytes, d, n + 1), n + 1, Len(bytes), cs, pos, j, k + 1, t)
         \/ InBetween(DecodeByte(bytes, d, n + 1), n + 1, cs, pos, j + 1, s)
<1>1. n \in Nat /\ n + 1 \in 1..Len(bytes) /\ bytes[n + 1] = b[n + 1]
  BY DEF Cut
<1>2. PICK m, r, l : m = n + 1 /\ r = DecodeByte(bytes, d, m) /\ l = Len(bytes)
  OBVIOUS
<1>3. m \in Nat /\ bytes[m] = b[m] /\ l \in Nat /\ m <= l /\ n < l
  BY <1>1, <1>2 DEF Cut
<1>4. PICK c, o : c = cs[j + 1] /\ o = Offset(c)
  OBVIOUS
<1>5. PICK p : p = pos[j] + 2 + o[k]
  OBVIOUS
<1>6. /\ c \in Command /\ Size(c) \in Nat /\ 3 <= Size(c)
      /\ p \in Nat
      /\ k < Size(c) => /\ b[p + 1] = Datum(c, k + 1)
                        /\ Datum(c, k + 1) = DLE => b[p + 2] = DLE
                        /\ pos[j] + 2 + o[k + 1] = p + Width(Datum(c, k + 1))
      /\ k = Size(c) => b[p + 1] = DLE /\ b[p + 2] = ECD /\ pos[j + 1] = p + 2
  <2>1. k \in 0..Size(c)
    BY <1>4
  <2>2. BytesFrom(b, pos, c, o, j, k, p)
    BY <1>4, <1>5, <2>1, BytesWithin
  <2> QED
    BY <2>2 DEF BytesFrom
<1>7. k \in Nat /\ k <= Size(c) /\ j \in Nat
  BY <1>4, <1>6
<1>8. FillingSlots(s, cs, j, k, n, l)
  BY <1>2 DEF InCommand
<1>9. PICK next : next = IF m < Len(bytes) THEN bytes[m + 1] ELSE 0
  OBVIOUS
<1>10. next \in Nat
  <2>1. CASE m < Len(bytes)
    <3>1. m + 1 \in 1..Len(bytes) /\ m + 1 \in 1..Len(b) /\ b \in Seq(Byte)
      BY <1>2, <1>3, <2>1 DEF Cut, Layout, MessageAt
    <3>2. bytes[m + 1] = b[m + 1]
      BY <3>1 DEF Cut
    <3>3. b[m + 1] \in Byte
      BY <3>1
    <3> QED
      BY <1>9, <2>1, <3>2, <3>3, ByteNat
  <2>2. CASE ~ (m < Len(bytes))
    BY <1>9, <2>2
  <2> QED
    BY <2>1, <2>2
\* The last byte of a value: the decoder takes it.
<1>11. ASSUME k < Size(c), r = TakeByte(Within(No, k, j, s), Datum(c, k + 1), next),
              m = p + Width(Datum(c, k + 1))
       PROVE  /\ k + 1 \in 0..Size(c)
              /\ \E t : InCommand(r, m, l, cs, pos, j, k + 1, t)
  <2>1. k + 1 \in 0..Size(c) /\ k \in 0..(Size(c) - 1)
    BY <1>6, <1>7, <1>11
  <2>2. PICK t : t = Put(s, j, Filled(s[j], k, Datum(c, k + 1), next))
    OBVIOUS
  <2>3. r = Within(No, k + 1, j, t)
    <3>1. s \in Slots /\ j \in 0..(MAX_COMMANDS - 1)
      BY <1>7, <1>8, MttpAssumption DEF FillingSlots
    <3>2. PICK v : v = Datum(c, k + 1)
      OBVIOUS
    <3>3. k \in Nat /\ t = Put(s, j, Filled(s[j], k, v, next))
      BY <1>7, <2>2, <3>2
    <3>4. TakeByte(Within(No, k, j, s), v, next) = Within(No, k + 1, j, t)
      BY <3>1, <3>3, StepData
    <3> QED
      BY <1>11, <3>2, <3>4
  <2>4. k = 1 /\ m < l => next = Datum(c, 3)
    <3> SUFFICES ASSUME k = 1, m < l
                 PROVE  next = Datum(c, 3)
      OBVIOUS
    <3>1. PICK q : q = pos[j] + 2 + o[2]
      OBVIOUS
    <3>2. 2 \in 0..Size(c) /\ 2 < Size(c)
      BY <1>6
    <3>3. b[q + 1] = Datum(c, 3)
      <4>1. BytesFrom(b, pos, c, o, j, 2, q)
        BY <1>4, <3>1, <3>2, BytesWithin
      <4> QED
        BY <3>2, <4>1 DEF BytesFrom
    <3>4. q = m
      BY <1>6, <1>11, <3>1
    <3>5. bytes[m + 1] = b[m + 1]
      BY <1>2, <1>3 DEF Cut
    <3> QED
      BY <1>2, <1>9, <3>3, <3>4, <3>5
  <2>5. FillingSlots(t, cs, j, k + 1, m, l)
    <3>1. k = 1 /\ n + 1 < l => next = Datum(cs[j + 1], 3)
      BY <1>2, <1>4, <2>4
    <3>2. k \in 0..(Size(cs[j + 1]) - 1) /\ cs[j + 1] \in Command
      BY <1>4, <1>6, <2>1
    <3>3. t = Put(s, j, Filled(s[j], k, Datum(cs[j + 1], k + 1), next))
      BY <1>4, <2>2
    <3>4. FillingSlots(t, cs, j, k + 1, n + 1, l)
      BY <1>1, <1>3, <1>7, <1>8, <1>10, <3>1, <3>2, <3>3, FillingNext
    <3> QED
      BY <1>2, <3>4
  <2>6. m = pos[j] + 2 + o[k + 1]
    BY <1>6, <1>11
  <2>7. InCommand(r, m, l, cs, pos, j, k + 1, t)
    BY <1>4, <2>3, <2>5, <2>6 DEF InCommand
  <2> QED
    BY <2>1, <2>7
<1>12. CASE n = p /\ d = Within(No, k, j, s)
  <2>1. bytes[m] = b[p + 1] /\ m = p + 1
    BY <1>2, <1>3, <1>12
  <2>2. CASE b[p + 1] = DLE
    <3>1. r = Within(Yes, k, j, s)
      BY <1>2, <1>12, <2>1, <2>2, StepDLE DEF Within
    <3>2. FillingSlots(s, cs, j, k, m, l)
      BY <1>1, <1>2, <1>3, <1>8, FillingLater
    <3>3. k < Size(c) => Datum(c, k + 1) = DLE
      BY <1>6, <2>2
    <3>4. InCommand(r, m, l, cs, pos, j, k, s)
      BY <1>4, <1>5, <2>1, <3>1, <3>2, <3>3 DEF InCommand
    <3> QED
      BY <1>2, <3>4
  <2>3. CASE b[p + 1] # DLE
    <3>1. k # Size(c)
      BY <1>6, <2>3
    <3>2. k < Size(c)
      BY <1>6, <1>7, <3>1
    <3>3. Datum(c, k + 1) = b[p + 1]
      BY <1>6, <3>2
    <3>4. r = TakeByte(Within(No, k, j, s), Datum(c, k + 1), next)
      BY <1>2, <1>9, <1>12, <2>1, <2>3, <3>3, StepPlain
    <3>5. m = p + Width(Datum(c, k + 1))
      BY <2>1, <2>3, <3>3 DEF Width
    <3> QED
      BY <1>2, <1>4, <1>11, <3>2, <3>4, <3>5
  <2> QED
    BY <2>2, <2>3
<1>13. CASE n = p + 1 /\ d = Within(Yes, k, j, s) /\ (k < Size(c) => Datum(c, k + 1) = DLE)
  <2>1. bytes[m] = b[p + 2] /\ m = p + 2
    <3>1. m = p + 2
      BY ONLY <1>2, <1>6, <1>13
    <3> QED
      BY <1>3, <3>1
  <2>2. CASE k < Size(c)
    <3>1. Datum(c, k + 1) = DLE /\ bytes[m] = DLE
      BY <1>6, <1>13, <2>1, <2>2
    <3>2. r = TakeByte(Within(No, k, j, s), Datum(c, k + 1), next)
      BY <1>2, <1>9, <1>13, <3>1, StepDoubled
    <3>3. m = p + Width(Datum(c, k + 1))
      BY <2>1, <3>1 DEF Width
    <3> QED
      BY <1>2, <1>4, <1>11, <2>2, <3>2, <3>3
  <2>3. CASE ~ (k < Size(c))
    <3>1. k = Size(c)
      BY <1>6, <1>7, <2>3
    <3>2. bytes[m] = ECD /\ m = pos[j + 1]
      BY <1>6, <2>1, <3>1
    <3>3. r = Between(No, j + 1, s, 0)
      BY <1>2, <1>7, <1>13, <3>2, StepECD
    <3>4. FilledSlots(s, cs, j + 1)
      BY <1>4, <1>6, <1>7, <1>8, <3>1, FillingLast
    <3>5. InBetween(r, m, cs, pos, j + 1, s)
      BY <3>2, <3>3, <3>4 DEF InBetween
    <3> QED
      BY <1>2, <3>5
  <2> QED
    BY <2>2, <2>3
<1>14. \/ n = p /\ d = Within(No, k, j, s)
       \/ n = p + 1 /\ d = Within(Yes, k, j, s) /\ (k < Size(c) => Datum(c, k + 1) = DLE)
  BY <1>4, <1>5 DEF InCommand
<1> QED
  BY <1>12, <1>13, <1>14

LEMMA StandingStep ==
  ASSUME NEW b, NEW cs, NEW pos, Layout(b, cs, pos), NEW bytes, Cut(bytes, b),
         NEW start, FilledSlots(start, cs, 0),
         NEW n \in 0..(Len(bytes) - 1), NEW d, Standing(d, n, Len(bytes), b, cs, pos, start)
  PROVE  Standing(DecodeByte(bytes, d, n + 1), n + 1, Len(bytes), b, cs, pos, start)
<1>1. PICK m, r, l : m = n + 1 /\ r = DecodeByte(bytes, d, m) /\ l = Len(bytes)
  OBVIOUS
<1>2. Len(cs) \in Nat /\ 0 \in 0..Len(cs)
  <2>1. Len(cs) \in Nat
    BY DEF Layout, MessageAt
  <2> QED
    BY <2>1
<1>3. start \in Slots
  BY DEF FilledSlots
<1>4. CASE InHeader(d, n, start)
  <2>1. InHeader(r, m, start) \/ InBetween(r, m, cs, pos, 0, start)
    BY <1>1, <1>4, HeaderStep
  <2> QED
    BY <1>1, <1>2, <1>3, <2>1 DEF Standing
<1>5. ASSUME NEW j \in 0..Len(cs), NEW s \in Slots, InBetween(d, n, cs, pos, j, s)
      PROVE  Standing(r, m, l, b, cs, pos, start)
  <2>1. \/ InBetween(r, m, cs, pos, j, s)
        \/ j \in 0..(Len(cs) - 1) /\ InCommand(r, m, l, cs, pos, j, 0, s)
        \/ AtEnd(r, b, cs, j, s)
    BY <1>1, <1>5, BetweenStep
  <2>2. CASE j \in 0..(Len(cs) - 1) /\ InCommand(r, m, l, cs, pos, j, 0, s)
    <3>1. 0 \in 0..Size(cs[j + 1])
      <4>1. cs[j + 1] \in Command
        <5>1. j + 1 \in 1..Len(cs) /\ cs \in Seq(Command)
          BY <1>2, <2>2 DEF Layout, MessageAt
        <5> QED
          BY <5>1
      <4>2. Size(cs[j + 1]) \in Nat
        BY <4>1, SizeNat
      <4> QED
        BY <4>2
    <3> QED
      BY <2>2, <3>1 DEF Standing
  <2> QED
    BY <2>1, <2>2 DEF Standing
<1>6. ASSUME NEW j \in 0..(Len(cs) - 1), NEW s \in Slots, NEW k \in 0..Size(cs[j + 1]),
             InCommand(d, n, l, cs, pos, j, k, s)
      PROVE  Standing(r, m, l, b, cs, pos, start)
  <2>1. \/ InCommand(r, m, l, cs, pos, j, k, s)
        \/ /\ k + 1 \in 0..Size(cs[j + 1])
           /\ \E t : InCommand(r, m, l, cs, pos, j, k + 1, t)
        \/ InBetween(r, m, cs, pos, j + 1, s)
    BY <1>1, <1>6, CommandStep
  <2>2. CASE k + 1 \in 0..Size(cs[j + 1]) /\ \E t : InCommand(r, m, l, cs, pos, j, k + 1, t)
    <3>1. PICK t : InCommand(r, m, l, cs, pos, j, k + 1, t)
      BY <2>2
    <3>2. t \in Slots
      BY <3>1 DEF InCommand, FillingSlots
    <3> QED
      BY <2>2, <3>1, <3>2 DEF Standing
  <2>3. j + 1 \in 0..Len(cs)
    BY <1>2
  <2> QED
    BY <2>1, <2>2, <2>3 DEF Standing
<1>7. ASSUME NEW j \in 0..Len(cs), NEW s \in Slots, AtEnd(d, b, cs, j, s)
      PROVE  Standing(r, m, l, b, cs, pos, start)
  <2>1. PICK e \in Nat \ {0} : d = Between(Yes, j, s, e)
    BY <1>7 DEF AtEnd
  <2>2. d.end # 0
    BY <2>1 DEF Between, Decoder
  <2>3. r = d
    BY <1>1, <2>2, StepOver
  <2> QED
    BY <1>7, <2>3 DEF Standing
<1>8. Standing(r, m, l, b, cs, pos, start)
  BY <1>1, <1>4, <1>5, <1>6, <1>7 DEF Standing
<1> QED
  BY <1>1, <1>8

LEMMA FirstFreeSlot ==
  ASSUME NEW s, NEW cs, FilledSlots(s, cs, 0)
  PROVE  FreeSlots(s) # {} /\ FirstFree(s) = 0
<1>1. s \in Slots /\ \A m \in 0..(MAX_COMMANDS - 1) : s[m].exist = No
  BY DEF FilledSlots
<1>2. DOMAIN s = 0..(MAX_COMMANDS - 1)
  BY <1>1 DEF Slots
<1>3. FreeSlots(s) = 0..(MAX_COMMANDS - 1)
  BY <1>1, <1>2 DEF FreeSlots, No
<1>4. 0 \in FreeSlots(s) /\ \A m \in FreeSlots(s) : 0 <= m /\ m \in Nat
  BY <1>3, MttpAssumption
<1>5. \A k \in FreeSlots(s) : (\A m \in FreeSlots(s) : k <= m) => k = 0
  BY <1>4
<1> QED
  BY <1>4, <1>5 DEF FirstFree

LEMMA DecodingStands ==
  ASSUME NEW b, NEW cs, NEW pos, Layout(b, cs, pos), NEW bytes, Cut(bytes, b),
         NEW start, FilledSlots(start, cs, 0)
  PROVE  Standing(Decoding(start, bytes)[Len(bytes)], Len(bytes), Len(bytes), b, cs, pos, start)
<1>1. PICK f, l : f = Decoding(start, bytes) /\ l = Len(bytes)
  OBVIOUS
<1>2. l \in Nat
  BY <1>1 DEF Cut
<1>3. f[0] = Fresh(start, 0) /\ \A n \in 0..(l - 1) : f[n + 1] = DecodeByte(bytes, f[n], n + 1)
  BY <1>1, <1>2, FirstFreeSlot, DecodingDefined
<1> DEFINE S == {n \in Nat : n <= l => Standing(f[n], n, l, b, cs, pos, start)}
<1>4. 0 \in S
  <2>1. f[0] = Decoder(No, No, No, No, 3, 0, 0, start, 0)
    BY <1>3 DEF Fresh, Decoder, No
  <2>2. Standing(f[0], 0, l, b, cs, pos, start)
    BY <2>1 DEF Standing, InHeader
  <2> QED
    BY <2>2
<1>5. ASSUME NEW n \in S, n + 1 <= l
      PROVE  Standing(f[n + 1], n + 1, l, b, cs, pos, start)
  <2>1. n \in 0..(l - 1) /\ Standing(f[n], n, l, b, cs, pos, start)
    BY <1>2, <1>5
  <2> HIDE DEF S
  <2>2. f[n + 1] = DecodeByte(bytes, f[n], n + 1)
    BY <1>3, <2>1
  <2>3. Standing(DecodeByte(bytes, f[n], n + 1), n + 1, l, b, cs, pos, start)
    BY <1>1, <2>1, StandingStep
  <2> QED
    BY <2>2, <2>3
<1>6. \A n \in S : n + 1 \in S
  BY <1>5
<1>7. S \in SUBSET Nat
  OBVIOUS
<1> HIDE DEF S
<1>8. l \in S
  BY <1>2, <1>4, <1>6, <1>7, Induction
<1>9. Standing(f[l], l, l, b, cs, pos, start)
  BY <1>2, <1>8 DEF S
<1> QED
  BY <1>1, <1>9

-----------------------------------------------------------------------------
(* What AddMessage and GetCommand make of the bytes.                       *)

\* GetCommand hands out the commands of the slots before the first free one.
LEMMA DecodedAre ==
  ASSUME NEW s, NEW j \in 0..MAX_COMMANDS,
         \A m \in 0..(j - 1) : s[m].exist = Yes, j < MAX_COMMANDS => s[j].exist = No
  PROVE  /\ Len(Decoded(s)) = j
         /\ Decoded(s) = [k \in 1..j |-> [type |-> s[k - 1].type, address |-> s[k - 1].address,
                                          payload |-> s[k - 1].payload]]
<1>1. MAX_COMMANDS \in Nat /\ j \in Nat
  BY MttpAssumption
<1>2. PICK full : full = {k \in 0..MAX_COMMANDS : \A m \in 0..(k - 1) : s[m].exist}
  OBVIOUS
<1>3. ASSUME NEW k \in 0..j
      PROVE  k \in full
  <2>1. k \in 0..MAX_COMMANDS /\ \A m \in 0..(k - 1) : m \in 0..(j - 1)
    BY <1>1
  <2>2. \A m \in 0..(k - 1) : s[m].exist
    BY <2>1 DEF Yes
  <2> QED
    BY <1>2, <2>1, <2>2
<1>4. ASSUME NEW k \in full
      PROVE  k \in Nat /\ k <= j
  <2>1. k \in 0..MAX_COMMANDS /\ \A m \in 0..(k - 1) : s[m].exist
    BY <1>2
  <2>2. ASSUME j < k
        PROVE  FALSE
    <3>1. j \in 0..(k - 1) /\ j < MAX_COMMANDS
      BY <1>1, <2>1, <2>2
    <3>2. s[j].exist
      BY <2>1, <3>1
    <3>3. s[j].exist = No
      BY <3>1
    <3> QED
      BY <3>2, <3>3 DEF No
  <2> QED
    BY <1>1, <2>1, <2>2
<1>5. PICK count : count = CHOOSE k \in full : \A m \in full : m <= k
  OBVIOUS
<1>6. count = j
  <2>1. j \in full /\ \A m \in full : m <= j
    BY <1>1, <1>3, <1>4
  <2>2. \A k \in full : (\A m \in full : m <= k) => k = j
    BY <1>1, <1>4, <2>1
  <2> QED
    BY <1>5, <2>1, <2>2
<1>7. PICK ds : ds = Decoded(s)
  OBVIOUS
<1>8. ds = [k \in 1..j |-> [type |-> s[k - 1].type, address |-> s[k - 1].address,
                            payload |-> s[k - 1].payload]]
  BY <1>2, <1>5, <1>6, <1>7 DEF Decoded
<1>9. Len(ds) = j
  BY <1>1, <1>8
<1> QED
  BY <1>7, <1>8, <1>9

LEMMA DecodedFilled ==
  ASSUME NEW cs \in Seq(Command), NEW j \in 0..Len(cs), NEW s, FilledSlots(s, cs, j)
  PROVE  Decoded(s) = SubSeq(cs, 1, j) /\ Len(Decoded(s)) = j
<1>1. Len(cs) \in Nat /\ j \in Nat /\ MAX_COMMANDS \in Nat /\ j <= MAX_COMMANDS
  BY MttpAssumption DEF FilledSlots
<1>2. ASSUME NEW m \in 0..(j - 1)
      PROVE  s[m].exist = Yes
  <2>1. s[m] = DecodedSlot(cs[m + 1])
    BY DEF FilledSlots
  <2> QED
    BY <2>1 DEF DecodedSlot
<1>3. j < MAX_COMMANDS => s[j].exist = No
  BY <1>1 DEF FilledSlots
<1>4. PICK ds : ds = Decoded(s)
  OBVIOUS
<1>5. /\ Len(ds) = j
      /\ ds = [k \in 1..j |-> [type |-> s[k - 1].type, address |-> s[k - 1].address,
                               payload |-> s[k - 1].payload]]
  <2>1. j \in 0..MAX_COMMANDS
    BY <1>1
  <2> QED
    BY <1>2, <1>3, <1>4, <2>1, DecodedAre
<1>6. ASSUME NEW k \in 1..j
      PROVE  [type |-> s[k - 1].type, address |-> s[k - 1].address,
              payload |-> s[k - 1].payload] = cs[k]
  <2>1. k - 1 \in 0..(j - 1) /\ (k - 1) + 1 = k /\ k \in 1..Len(cs)
    BY <1>1
  <2>2. s[k - 1] = DecodedSlot(cs[k])
    <3>1. s[k - 1] = DecodedSlot(cs[(k - 1) + 1])
      BY <2>1 DEF FilledSlots
    <3> QED
      BY <2>1, <3>1
  <2>3. cs[k] \in Command
    BY <2>1
  <2>4. PICK c : c = cs[k]
    OBVIOUS
  <2>5. c = [type |-> c.type, address |-> c.address, payload |-> c.payload]
    BY <2>3, <2>4, CommandParts
  <2> QED
    BY <2>2, <2>4, <2>5 DEF DecodedSlot
<1>7. ds = [k \in 1..j |-> cs[k]]
  BY <1>5, <1>6
<1>8. SubSeq(cs, 1, j) = [k \in 1..j |-> cs[k]]
  OBVIOUS
<1> QED
  BY <1>4, <1>5, <1>7, <1>8

\* ds is the beginning of cs, but the last payload in it may be shorter.
Beginning(ds, cs) ==
  /\ Len(ds) \in Nat /\ Len(ds) <= Len(cs)
  /\ \A k \in 1..(Len(ds) - 1) : ds[k] = cs[k]
  /\ Len(ds) > 0 => /\ ds[Len(ds)].type = cs[Len(ds)].type
                    /\ ds[Len(ds)].address = cs[Len(ds)].address
                    /\ IsPrefix(ds[Len(ds)].payload, cs[Len(ds)].payload)

LEMMA FirstIsPrefix ==
  ASSUME NEW p \in Seq(Byte), NEW m \in 0..Len(p)
  PROVE  IsPrefix(First(p, m), p)
<1>1. PICK f : f = First(p, m)
  OBVIOUS
<1>2. SubSeq(p, 1, m) = f
  BY <1>1 DEF First
<1>3. SubSeq(p, 1, m) \in Seq(Byte) /\ Len(SubSeq(p, 1, m)) = m
  OBVIOUS
<1>4. f \in Seq(Byte) /\ Len(f) = m
  BY <1>2, <1>3
<1>5. SubSeq(f, 1, Len(f)) = f
  BY <1>4
<1>6. m <= Len(p)
  OBVIOUS
<1> QED
  BY <1>1, <1>2, <1>4, <1>5, <1>6 DEF IsPrefix

LEMMA FilledBeginning ==
  ASSUME NEW cs \in Seq(Command), NEW j \in 0..Len(cs), NEW s, FilledSlots(s, cs, j)
  PROVE  Beginning(Decoded(s), cs)
<1>1. PICK ds : ds = Decoded(s)
  OBVIOUS
<1>2. ds = SubSeq(cs, 1, j) /\ Len(ds) = j
  BY <1>1, DecodedFilled
<1>3. j \in Nat /\ j <= Len(cs) /\ Len(cs) \in Nat
  OBVIOUS
<1>4. \A k \in 1..j : ds[k] = cs[k]
  BY <1>2, <1>3
<1>5. ASSUME j > 0
      PROVE  IsPrefix(cs[j].payload, cs[j].payload)
  <2>1. cs[j] \in Command
    BY <1>3, <1>5
  <2>2. PICK p : p = cs[j].payload
    OBVIOUS
  <2>3. p \in Seq(Byte) /\ Len(p) \in Nat
    BY <2>1, <2>2, CommandParts
  <2>4. First(p, Len(p)) = p /\ Len(p) \in 0..Len(p)
    BY <2>3, FirstAll
  <2> QED
    BY <2>2, <2>3, <2>4, FirstIsPrefix
<1>6. \A k \in 1..(j - 1) : k \in 1..j
  BY <1>3
<1>7. j > 0 => j \in 1..j
  BY <1>3
<1> QED
  BY <1>1, <1>2, <1>3, <1>4, <1>5, <1>6, <1>7 DEF Beginning

LEMMA FillingBeginning ==
  ASSUME NEW cs \in Seq(Command), NEW j \in 0..(Len(cs) - 1), NEW k \in 0..Size(cs[j + 1]),
         NEW s, NEW n, NEW l, FillingSlots(s, cs, j, k, n, l)
  PROVE  Beginning(Decoded(s), cs)
<1>1. /\ Len(cs) \in Nat /\ j \in Nat /\ MAX_COMMANDS \in Nat /\ j < MAX_COMMANDS
      /\ j \in 0..Len(cs) /\ j + 1 <= Len(cs) /\ j + 1 \in 0..MAX_COMMANDS
  <2>1. j < MAX_COMMANDS
    BY DEF FillingSlots
  <2> QED
    BY <2>1, MttpAssumption
<1>2. PICK c : c = cs[j + 1]
  OBVIOUS
<1>3. c \in Command /\ k \in Nat /\ k <= Size(c) /\ PartlyFilled(s[j], c, k, n, l)
  <2>1. c \in Command
    BY <1>1, <1>2
  <2>2. Size(c) \in Nat
    BY <2>1, SizeNat
  <2> QED
    BY <1>2, <2>1, <2>2 DEF FillingSlots
<1>4. CASE k < 3
  <2>1. s[j].exist = No
    BY <1>3, <1>4 DEF PartlyFilled
  <2>2. \A m \in j..(MAX_COMMANDS - 1) : m = j \/ m \in (j + 1)..(MAX_COMMANDS - 1)
    BY <1>1
  <2>3. FilledSlots(s, cs, j)
    BY <1>1, <2>1, <2>2 DEF FillingSlots, FilledSlots
  <2> QED
    BY <1>1, <2>3, FilledBeginning
<1>5. CASE ~ (k < 3)
  <2>1. PICK p, q, m : p = c.payload /\ m = k - 3 /\ q = First(p, m)
    OBVIOUS
  <2>2. p \in Seq(Byte) /\ m \in 0..Len(p) /\ k > 2
    <3>1. p \in Seq(Byte) /\ Len(p) \in Nat
      BY <1>3, <2>1, CommandParts
    <3>2. k <= 3 + Len(p)
      BY <1>3, <2>1 DEF Size
    <3> QED
      BY <1>3, <1>5, <2>1, <3>1, <3>2
  <2>3. s[j] = [exist |-> Yes, type |-> c.type, address |-> c.address, payload |-> q]
    BY <1>3, <2>1, <2>2 DEF PartlyFilled
  <2>4. ASSUME NEW i \in 0..((j + 1) - 1)
        PROVE  s[i].exist = Yes
    <3>1. CASE i = j
      BY <2>3, <3>1
    <3>2. CASE i # j
      <4>1. i \in 0..(j - 1)
        BY <1>1, <3>2
      <4>2. s[i] = DecodedSlot(cs[i + 1])
        BY <4>1 DEF FillingSlots
      <4> QED
        BY <4>2 DEF DecodedSlot
    <3> QED
      BY <3>1, <3>2
  <2>5. j + 1 < MAX_COMMANDS => s[j + 1].exist = No
    BY <1>1 DEF FillingSlots
  <2>6. PICK ds : ds = Decoded(s)
    OBVIOUS
  <2>7. /\ Len(ds) = j + 1
        /\ ds = [i \in 1..(j + 1) |-> [type |-> s[i - 1].type, address |-> s[i - 1].address,
                                       payload |-> s[i - 1].payload]]
    BY <1>1, <2>4, <2>5, <2>6, DecodedAre
  <2>8. ASSUME NEW i \in 1..((j + 1) - 1)
        PROVE  ds[i] = cs[i]
    <3>1. i - 1 \in 0..(j - 1) /\ (i - 1) + 1 = i /\ i \in 1..Len(cs) /\ i \in 1..(j + 1)
      BY <1>1
    <3>2. s[i - 1] = DecodedSlot(cs[i])
      <4>1. s[i - 1] = DecodedSlot(cs[(i - 1) + 1])
        BY <3>1 DEF FillingSlots
      <4> QED
        BY <3>1, <4>1
    <3>3. PICK e : e = cs[i]
      OBVIOUS
    <3>4. e = [type |-> e.type, address |-> e.address, payload |-> e.payload]
      <4>1. e \in Command
        BY <3>1, <3>3
      <4> QED
        BY <4>1, CommandParts
    <3>5. ds[i] = [type |-> s[i - 1].type, address |-> s[i - 1].address, payload |-> s[i - 1].payload]
      BY <2>7, <3>1
    <3> QED
      BY <3>2, <3>3, <3>4, <3>5 DEF DecodedSlot
  <2>9. ds[j + 1] = [type |-> c.type, address |-> c.address, payload |-> q]
    <3>1. j + 1 \in 1..(j + 1) /\ (j + 1) - 1 = j
      BY <1>1
    <3>2. ds[j + 1] = [type |-> s[j].type, address |-> s[j].address, payload |-> s[j].payload]
      BY <2>7, <3>1
    <3> QED
      BY <2>3, <3>2
  <2>10. IsPrefix(q, p)
    BY <2>1, <2>2, FirstIsPrefix
  <2>11. PICK z : z = j + 1
    OBVIOUS
  <2>12. Len(ds) = z /\ z \in Nat /\ z <= Len(cs) /\ cs[z] = c
    BY <1>1, <1>2, <2>7, <2>11
  <2>13. \A i \in 1..(z - 1) : ds[i] = cs[i]
    BY <2>8, <2>11
  <2>14. ds[z].type = c.type /\ ds[z].address = c.address /\ ds[z].payload = q
    BY <2>9, <2>11
  <2>15. IsPrefix(ds[z].payload, c.payload)
    BY <2>1, <2>10, <2>14
  <2>16. Beginning(ds, cs)
    BY ONLY <2>12, <2>13, <2>14, <2>15 DEF Beginning
  <2> QED
    BY <2>6, <2>16
<1> QED
  BY <1>4, <1>5

\* A prefix of a message is decoded to a beginning of its commands.
LEMMA StandingBeginning ==
  ASSUME NEW b, NEW cs, NEW pos, Layout(b, cs, pos), NEW start, FilledSlots(start, cs, 0),
         NEW d, NEW n, NEW l, Standing(d, n, l, b, cs, pos, start)
  PROVE  Beginning(Decoded(d.slots), cs)
<1>1. cs \in Seq(Command) /\ Len(cs) \in Nat /\ 0 \in 0..Len(cs)
  <2>1. cs \in Seq(Command)
    BY DEF Layout, MessageAt
  <2>2. Len(cs) \in Nat
    BY <2>1
  <2> QED
    BY <2>1, <2>2
<1>2. CASE InHeader(d, n, start)
  <2>1. d.slots = start
    BY <1>2 DEF InHeader, Opening, Decoder
  <2> QED
    BY <1>1, <2>1, FilledBeginning
<1>3. ASSUME NEW j \in 0..Len(cs), NEW s, InBetween(d, n, cs, pos, j, s)
      PROVE  Beginning(Decoded(d.slots), cs)
  <2>1. d.slots = s
    BY <1>3 DEF InBetween, Between, Decoder
  <2>2. FilledSlots(s, cs, j)
    BY <1>3 DEF InBetween
  <2> QED
    BY <1>1, <2>1, <2>2, FilledBeginning
<1>4. ASSUME NEW j \in 0..(Len(cs) - 1), NEW s, NEW k \in 0..Size(cs[j + 1]),
             InCommand(d, n, l, cs, pos, j, k, s)
      PROVE  Beginning(Decoded(d.slots), cs)
  <2>1. d.slots = s
    BY <1>4 DEF InCommand, Within, Decoder
  <2>2. FillingSlots(s, cs, j, k, n, l)
    BY <1>4 DEF InCommand
  <2> QED
    BY <1>1, <2>1, <2>2, FillingBeginning
<1>5. ASSUME NEW j \in 0..Len(cs), NEW s, AtEnd(d, b, cs, j, s)
      PROVE  Beginning(Decoded(d.slots), cs)
  <2>1. d.slots = s
    BY <1>5 DEF AtEnd, Between, Decoder
  <2>2. FilledSlots(s, cs, j)
    BY <1>5 DEF AtEnd
  <2> QED
    BY <1>1, <2>1, <2>2, FilledBeginning
<1> QED
  BY <1>2, <1>3, <1>4, <1>5 DEF Standing

\* The whole of a message leads to its end.
LEMMA StandingAtEnd ==
  ASSUME NEW b, NEW cs, NEW pos, Layout(b, cs, pos), NEW start,
         NEW d, NEW n, n = Len(b), NEW l, Standing(d, n, l, b, cs, pos, start)
  PROVE  \E j \in 0..Len(cs), s \in Slots : AtEnd(d, b, cs, j, s)
<1>1. Len(cs) \in Nat /\ Len(b) \in Nat /\ 7 <= Len(b)
  <2>1. Len(cs) \in Nat /\ 0 \in 0..Len(cs)
    BY DEF Layout, MessageAt
  <2>2. Len(b) \in Nat /\ pos[0] \in Nat /\ 5 <= pos[0] /\ pos[0] + 2 <= Len(b)
    BY <2>1, BytesBetween
  <2> QED
    BY <2>1, <2>2
<1>2. ~ InHeader(d, n, start)
  <2>1. n \in Nat /\ 7 <= n
    BY <1>1
  <2> QED
    BY <2>1 DEF InHeader
<1>3. ASSUME NEW j \in 0..Len(cs), NEW s, InBetween(d, n, cs, pos, j, s)
      PROVE  FALSE
  <2>1. pos[j] \in Nat /\ pos[j] + 2 <= Len(b)
    BY BytesBetween
  <2>2. n = pos[j] \/ n = pos[j] + 1
    BY <1>3 DEF InBetween
  <2> QED
    BY <1>1, <2>1, <2>2
<1>4. ASSUME NEW j \in 0..(Len(cs) - 1), NEW s, NEW k \in 0..Size(cs[j + 1]),
             InCommand(d, n, l, cs, pos, j, k, s)
      PROVE  FALSE
  <2>1. PICK c, o : c = cs[j + 1] /\ o = Offset(c)
    OBVIOUS
  <2>2. PICK p : p = pos[j] + 2 + o[k]
    OBVIOUS
  <2>3. n = p \/ n = p + 1
    BY <1>4, <2>1, <2>2 DEF InCommand
  <2>4. p \in Nat /\ p + 1 < Len(b)
    <3>1. k \in 0..Size(c)
      BY <2>1
    <3>2. BytesFrom(b, pos, c, o, j, k, p)
      BY <2>1, <2>2, <3>1, BytesWithin
    <3> QED
      BY <3>2 DEF BytesFrom
  <2> QED
    BY <1>1, <2>3, <2>4
<1> QED
  BY <1>2, <1>3, <1>4 DEF Standing

LEMMA AddCut ==
  ASSUME NEW b, NEW cs, ClosedBuffer(b, cs), NEW bytes, Cut(bytes, b),
         NEW start, FilledSlots(start, cs, 0)
  PROVE  Beginning(Decoded(AddMessage(start, bytes).slots), cs)
<1>1. PICK pos : Layout(b, cs, pos)
  BY DEF ClosedBuffer, Layout
<1>2. PICK d : d = Decoding(start, bytes)[Len(bytes)]
  OBVIOUS
<1>3. Standing(d, Len(bytes), Len(bytes), b, cs, pos, start)
  BY <1>1, <1>2, DecodingStands
<1>4. Beginning(Decoded(d.slots), cs)
  BY <1>1, <1>3, StandingBeginning
<1>5. AddMessage(start, bytes).slots = d.slots
  <2>1. FreeSlots(start) # {}
    BY FirstFreeSlot
  <2> QED
    BY <1>2, <2>1 DEF AddMessage
<1> QED
  BY <1>4, <1>5

LEMMA AddWhole ==
  ASSUME NEW b, NEW cs, ClosedBuffer(b, cs), NEW start, FilledSlots(start, cs, 0)
  PROVE  \E j \in 0..Len(cs) :
           /\ FilledSlots(AddMessage(start, b).slots, cs, j)
           /\ j < Len(cs) => j = MAX_COMMANDS
           /\ j = Len(cs) => AddMessage(start, b).processed = Len(b)
<1>1. PICK pos : Layout(b, cs, pos)
  BY DEF ClosedBuffer, Layout
<1>2. Len(b) \in Nat
  <2>1. b \in Seq(Byte)
    BY <1>1 DEF Layout, MessageAt
  <2> QED
    BY <2>1
<1>3. PICK d : d = Decoding(start, b)[Len(b)]
  OBVIOUS
<1>4. Standing(d, Len(b), Len(b), b, cs, pos, start)
  <2>1. Cut(b, b)
    BY <1>2 DEF Cut
  <2> QED
    BY <1>1, <1>3, <2>1, DecodingStands
<1>5. PICK j \in 0..Len(cs), s \in Slots : AtEnd(d, b, cs, j, s)
  <2>1. PICK l : l = Len(b)
    OBVIOUS
  <2> QED
    BY <1>1, <1>4, <2>1, StandingAtEnd
<1>6. PICK e \in Nat \ {0} : d = Between(Yes, j, s, e) /\ (j = Len(cs) => e = Len(b))
  BY <1>5 DEF AtEnd
<1>7. d.slots = s /\ d.end = e /\ e # 0
  BY <1>6 DEF Between, Decoder
<1>8. PICK r : r = AddMessage(start, b)
  OBVIOUS
<1>9. r.slots = s /\ r.processed = e
  <2>1. FreeSlots(start) # {}
    BY FirstFreeSlot
  <2> QED
    BY <1>3, <1>7, <1>8, <2>1 DEF AddMessage
<1>10. FilledSlots(s, cs, j) /\ (j < Len(cs) => j = MAX_COMMANDS)
  BY <1>5 DEF AtEnd
<1> QED
  BY <1>6, <1>8, <1>9, <1>10

LEMMA NoCommandsFilled ==
  ASSUME NEW cs
  PROVE  FilledSlots(NoCommands, cs, 0)
<1>1. EmptySlot \in Slot /\ EmptySlot.exist = No
  BY DEF EmptySlot, Slot, Byte, No
<1>2. NoCommands \in Slots /\ \A m \in 0..(MAX_COMMANDS - 1) : NoCommands[m].exist = No
  BY <1>1 DEF NoCommands, Slots
<1>3. 0 <= MAX_COMMANDS /\ \A m \in 0..(0 - 1) : FALSE
  BY MttpAssumption
<1> QED
  BY <1>2, <1>3 DEF FilledSlots

-----------------------------------------------------------------------------
(* MessageBuffer: the buffer always holds the commands that were added.    *)

BufferHolds ==
  /\ state \in {"raw", "open", "closed"}
  /\ state = "open" => OpenBuffer(buffer, added)
  /\ state = "closed" => ClosedBuffer(buffer, added)

LEMMA BufferStep ==
  ASSUME BufferHolds, [BufferNext]_bufferVars
  PROVE  BufferHolds'
<1>1. CASE InitBuffer
  <2>1. ePut \in Byte
    BY DEF ePut, Byte
  <2>2. OpenBuffer(buffer', added')
    BY <1>1, <2>1, OpenedBuffer DEF InitBuffer
  <2> QED
    BY <1>1, <2>2 DEF InitBuffer, BufferHolds
<1>2. CASE InitHeartbeat
  <2>1. ClosedBuffer(buffer', added')
    BY <1>2, HeartbeatBuffer DEF InitHeartbeat
  <2> QED
    BY <1>2, <2>1 DEF InitHeartbeat, BufferHolds
<1>3. ASSUME NEW c \in Commands, AddCommand(c)
      PROVE  BufferHolds'
  <2>1. c \in Command
    BY BufferAssumption
  <2>2. OpenBuffer(buffer, added)
    BY <1>3 DEF AddCommand, BufferHolds
  <2>3. OpenBuffer(WithCommand(buffer, c), Append(added, c))
    BY <2>1, <2>2, ExtendedOpenBuffer
  <2>4. OpenBuffer(buffer', added')
    BY <1>3, <2>3 DEF AddCommand
  <2> QED
    BY <1>3, <2>4 DEF AddCommand, BufferHolds
<1>4. CASE GetBuffer
  <2>1. CASE state = "open"
    <3>1. ClosedBuffer(Closed(buffer), added)
      BY <2>1, ClosedOpenBuffer DEF BufferHolds
    <3> QED
      BY <1>4, <2>1, <3>1 DEF GetBuffer, BufferHolds
  <2>2. CASE state # "open"
    BY <1>4, <2>2 DEF GetBuffer, BufferHolds
  <2> QED
    BY <2>1, <2>2
<1>5. CASE UNCHANGED bufferVars
  BY <1>5 DEF bufferVars, BufferHolds
<1> QED
  BY <1>1, <1>2, <1>3, <1>4, <1>5 DEF BufferNext

\* An open buffer holds the commands added so far, one behind the other with their
\* control bytes escaped, and a closed one ends with DLE ETX behind the last of them.
THEOREM BufferInvariant == BufferSpec => []BufferHolds
<1>1. BufferInit => BufferHolds
  BY DEF BufferInit, BufferHolds
<1> QED
  BY <1>1, BufferStep, PTL DEF BufferSpec

LEMMA HoldsRoundTrip ==
  ASSUME BufferHolds
  PROVE  RoundTrip
<1> SUFFICES ASSUME state = "closed"
             PROVE  /\ Decoded(Received(buffer).slots)
                         = SubSeq(added, 1, IF Len(added) < MAX_COMMANDS THEN Len(added)
                                            ELSE MAX_COMMANDS)
                    /\ Len(added) <= MAX_COMMANDS => Received(buffer).processed = Len(buffer)
  BY DEF RoundTrip
<1>1. ClosedBuffer(buffer, added)
  BY DEF BufferHolds
<1>2. PICK r : r = AddMessage(NoCommands, buffer)
  OBVIOUS
<1>3. PICK j \in 0..Len(added) :
        /\ FilledSlots(r.slots, added, j)
        /\ j < Len(added) => j = MAX_COMMANDS
        /\ j = Len(added) => r.processed = Len(buffer)
  BY <1>1, <1>2, NoCommandsFilled, AddWhole
<1>4. added \in Seq(Command)
  BY <1>1 DEF ClosedBuffer, MessageAt
<1>5. Len(added) \in Nat /\ MAX_COMMANDS \in Nat
  BY <1>4, MttpAssumption
<1>6. j <= MAX_COMMANDS
  BY <1>3 DEF FilledSlots
<1>7. j = IF Len(added) < MAX_COMMANDS THEN Len(added) ELSE MAX_COMMANDS
  BY <1>3, <1>5, <1>6
<1>8. Decoded(r.slots) = SubSeq(added, 1, j)
  BY <1>3, <1>4, DecodedFilled
<1>9. Len(added) <= MAX_COMMANDS => j = Len(added)
  BY <1>3, <1>5, <1>6
<1> QED
  BY <1>2, <1>3, <1>7, <1>8, <1>9 DEF Received

\* RoundTrip: whatever has been written, and however many commands, is read back.
THEOREM BufferRoundTrip == BufferSpec => []RoundTrip
  BY BufferInvariant, HoldsRoundTrip, PTL

LEMMA HoldsCutIsPrefix ==
  ASSUME BufferHolds
  PROVE  CutIsPrefix
<1> SUFFICES ASSUME state = "closed", NEW n \in 1..Len(buffer)
             PROVE  LET decoded == Decoded(Received(SubSeq(buffer, 1, n)).slots)
                        last == Len(decoded)
                    IN /\ last <= Len(added)
                       /\ \A k \in 1..(last - 1) : decoded[k] = added[k]
                       /\ last > 0 => /\ decoded[last].type = added[last].type
                                      /\ decoded[last].address = added[last].address
                                      /\ IsPrefix(decoded[last].payload, added[last].payload)
  BY DEF CutIsPrefix
<1>1. ClosedBuffer(buffer, added)
  BY DEF BufferHolds
<1>2. buffer \in Seq(Byte)
  BY <1>1 DEF ClosedBuffer, MessageAt
<1>3. PICK bytes : bytes = SubSeq(buffer, 1, n)
  OBVIOUS
<1>4. Cut(bytes, buffer)
  <2>1. Len(bytes) = n /\ n \in Nat /\ n <= Len(buffer)
    BY <1>2, <1>3
  <2>2. \A i \in 1..n : bytes[i] = buffer[i]
    BY <1>2, <1>3
  <2> QED
    BY <2>1, <2>2 DEF Cut
<1>5. PICK ds : ds = Decoded(Received(bytes).slots)
  OBVIOUS
<1>6. Beginning(ds, added)
  BY <1>1, <1>4, <1>5, NoCommandsFilled, AddCut DEF Received
<1> QED
  BY <1>3, <1>5, <1>6 DEF Beginning

\* CutIsPrefix: wherever recv cuts a message, what is decoded is a beginning of it.
THEOREM BufferCutIsPrefix == BufferSpec => []CutIsPrefix
  BY BufferInvariant, HoldsCutIsPrefix, PTL

-----------------------------------------------------------------------------
(* The server's decoding loop, when recv returns one message.              *)

\* No slot holds a command.
AllFree(s) == s \in Slots /\ \A m \in 0..(MAX_COMMANDS - 1) : s[m].exist = No

LEMMA AllFreeFilled ==
  ASSUME NEW s, AllFree(s), NEW cs
  PROVE  FilledSlots(s, cs, 0)
  BY MttpAssumption DEF AllFree, FilledSlots

LEMMA TakenFree ==
  ASSUME NEW cs \in Seq(Command), NEW j \in 0..Len(cs), NEW s, FilledSlots(s, cs, j)
  PROVE  AllFree(Taken(s))
<1>1. s \in Slots /\ j \in Nat /\ MAX_COMMANDS \in Nat
  BY MttpAssumption DEF FilledSlots
<1>2. Len(Decoded(s)) = j
  BY DecodedFilled
<1>3. PICK t : t = Taken(s)
  OBVIOUS
<1>4. t = [k \in 0..(MAX_COMMANDS - 1) |-> IF k < j THEN [s[k] EXCEPT !.exist = No] ELSE s[k]]
  <2>1. DOMAIN s = 0..(MAX_COMMANDS - 1)
    BY <1>1 DEF Slots
  <2> QED
    BY <1>2, <1>3, <2>1 DEF Taken, No
<1>5. ASSUME NEW k \in 0..(MAX_COMMANDS - 1)
      PROVE  t[k] \in Slot /\ t[k].exist = No
  <2>1. s[k] \in Slot
    BY <1>1 DEF Slots
  <2>2. CASE k < j
    <3>1. t[k] = [s[k] EXCEPT !.exist = No]
      BY <1>4, <2>2
    <3>2. No \in BOOLEAN
      BY DEF No
    <3> QED
      BY <2>1, <3>1, <3>2 DEF Slot
  <2>3. CASE ~ (k < j)
    <3>1. t[k] = s[k] /\ k \in j..(MAX_COMMANDS - 1)
      BY <1>1, <1>4, <2>3
    <3> QED
      BY <2>1, <3>1 DEF FilledSlots
  <2> QED
    BY <2>2, <2>3
<1>6. t \in Slots
  BY <1>4, <1>5 DEF Slots
<1> QED
  BY <1>3, <1>5, <1>6 DEF AllFree

\* One round decodes the whole message, and the further rounds find nothing to do.
LEMMA DecodeMessage ==
  ASSUME NEW commands \in Seq(Command), Len(commands) <= MAX_COMMANDS, AllFree(slots)
  PROVE  /\ AllFree(Decode(Encoded(commands)).slots)
         /\ Decode(Encoded(commands)).mem = SaveAll(mem, commands)
<1>1. PICK b : b = Encoded(commands)
  OBVIOUS
<1>2. ClosedBuffer(b, commands)
  BY <1>1, EncodedBuffer
<1>3. PICK pos : Layout(b, commands, pos)
  BY <1>2 DEF ClosedBuffer, Layout
<1>4. b \in Seq(Byte) /\ Len(b) \in Nat /\ Len(b) > 0 /\ Len(commands) \in Nat
  <2>1. Len(commands) \in Nat /\ 0 \in 0..Len(commands)
    OBVIOUS
  <2>2. Len(b) \in Nat /\ pos[0] \in Nat /\ pos[0] + 2 <= Len(b)
    BY <1>3, <2>1, BytesBetween
  <2> QED
    BY <1>3, <2>1, <2>2 DEF Layout, MessageAt
<1>5. PICK r : r = AddMessage(slots, b)
  OBVIOUS
<1>6. PICK j \in 0..Len(commands) :
        /\ FilledSlots(r.slots, commands, j)
        /\ j < Len(commands) => j = MAX_COMMANDS
        /\ j = Len(commands) => r.processed = Len(b)
  BY <1>2, <1>5, AllFreeFilled, AddWhole
<1>7. j = Len(commands)
  BY <1>4, <1>6, MttpAssumption
<1>8. Decoded(r.slots) = commands
  BY <1>6, <1>7, DecodedFilled
<1>9. PICK first : first = [slots |-> slots, processed |-> 0, mem |-> mem]
  OBVIOUS
<1>10. PICK done : done = [slots |-> Taken(r.slots), processed |-> Len(b), mem |-> SaveAll(mem, commands)]
  OBVIOUS
<1>11. Round(b, first) = done
  <2>1. first.slots = slots /\ first.processed = 0 /\ first.mem = mem
    BY <1>9
  <2>2. SubSeq(b, first.processed + 1, Len(b)) = b
    BY <1>4, <2>1
  <2>3. ~ (first.processed >= Len(b))
    BY <1>4, <2>1
  <2> QED
    BY <1>5, <1>6, <1>7, <1>8, <1>10, <2>1, <2>2, <2>3 DEF Round
<1>12. Round(b, done) = done
  <2>1. done.processed >= Len(b)
    BY <1>4, <1>10
  <2> QED
    BY <2>1 DEF Round
<1>13. MAXDECODINGLOOPS \in Nat \ {0}
  BY ServerAssumption
<1>14. PICK f : f = [n \in 0..MAXDECODINGLOOPS |-> IF n = 0 THEN first ELSE done]
  OBVIOUS
<1>15. f = [n \in 0..MAXDECODINGLOOPS |-> IF n = 0 THEN first ELSE Round(b, f[n - 1])]
  <2>1. ASSUME NEW n \in 0..MAXDECODINGLOOPS, n # 0
        PROVE  Round(b, f[n - 1]) = done
    <3>1. n - 1 \in 0..MAXDECODINGLOOPS
      BY <1>13, <2>1
    <3>2. f[n - 1] = first \/ f[n - 1] = done
      BY <1>14, <3>1
    <3> QED
      BY <1>11, <1>12, <3>2
  <2> QED
    BY <1>14, <2>1
<1>16. PICK g : g = CHOOSE h : h = [n \in 0..MAXDECODINGLOOPS |->
                                      IF n = 0 THEN first ELSE Round(b, h[n - 1])]
  OBVIOUS
<1>17. g = [n \in 0..MAXDECODINGLOOPS |-> IF n = 0 THEN first ELSE Round(b, g[n - 1])]
  BY <1>15, <1>16
<1>18. Decode(b) = g[MAXDECODINGLOOPS]
  BY <1>9, <1>16 DEF Decode
<1>19. g[MAXDECODINGLOOPS] = done
  <2> DEFINE S == {n \in Nat : n < MAXDECODINGLOOPS => g[n + 1] = done}
  <2>1. g[0] = first
    BY <1>13, <1>17
  <2>2. 0 \in S
    <3>1. 1 \in 0..MAXDECODINGLOOPS /\ 1 # 0 /\ 1 - 1 = 0
      BY <1>13
    <3>2. g[1] = Round(b, g[0])
      BY <1>17, <3>1
    <3> QED
      BY <1>11, <2>1, <3>2
  <2>3. ASSUME NEW n \in S, n + 1 < MAXDECODINGLOOPS
        PROVE  g[(n + 1) + 1] = done
    <3>1. n \in Nat /\ g[n + 1] = done
      BY <1>13, <2>3
    <3>2. (n + 1) + 1 \in 0..MAXDECODINGLOOPS /\ (n + 1) + 1 # 0 /\ ((n + 1) + 1) - 1 = n + 1
      BY <1>13, <2>3, <3>1
    <3>3. g[(n + 1) + 1] = Round(b, g[n + 1])
      BY <1>17, <3>2
    <3> QED
      BY <1>12, <3>1, <3>3
  <2>4. \A n \in S : n + 1 \in S
    BY <2>3
  <2>5. S \in SUBSET Nat
    OBVIOUS
  <2> HIDE DEF S
  <2>6. PICK m \in Nat : m + 1 = MAXDECODINGLOOPS
    <3>1. MAXDECODINGLOOPS - 1 \in Nat /\ (MAXDECODINGLOOPS - 1) + 1 = MAXDECODINGLOOPS
      BY <1>13
    <3> QED
      BY <3>1
  <2>7. m \in S
    BY <2>2, <2>4, <2>5, Induction
  <2> QED
    BY <1>13, <2>6, <2>7 DEF S
<1>20. AllFree(Taken(r.slots))
  BY <1>6, TakenFree
<1> QED
  BY <1>1, <1>10, <1>18, <1>19, <1>20

-----------------------------------------------------------------------------
(* ServerLink: what is still to be received.                               *)

Sent == [bytes : Seq(Byte), commands : Seq(Command)]

\* Whole messages, each of as many commands as there are slots for.
SentMessages(ms) ==
  /\ ms \in Seq(Sent)
  /\ \A k \in 1..Len(ms) : /\ ms[k].bytes = Encoded(ms[k].commands)
                           /\ Len(ms[k].commands) <= MAX_COMMANDS

LEMMA EncodedLength ==
  ASSUME NEW commands \in Seq(Command)
  PROVE  Len(Encoded(commands)) > 0
<1>1. PICK b : b = Encoded(commands)
  OBVIOUS
<1>2. PICK pos : Layout(b, commands, pos)
  BY <1>1, EncodedBuffer DEF ClosedBuffer, Layout
<1>3. 0 \in 0..Len(commands)
  OBVIOUS
<1>4. Len(b) \in Nat /\ pos[0] \in Nat /\ pos[0] + 2 <= Len(b)
  BY <1>2, <1>3, BytesBetween
<1> QED
  BY <1>1, <1>4

\* o[k] bytes stand before message k + 1.
MessagesAt(ms, o) ==
  /\ o[0] = 0
  /\ \A k \in 0..Len(ms) : o[k] \in Nat /\ o[k] <= Len(Bytes(ms))
  /\ \A k \in 0..(Len(ms) - 1) : o[k + 1] = o[k] + Len(ms[k + 1].bytes)
  /\ Len(Bytes(ms)) = o[Len(ms)]
  /\ \A k \in 0..(Len(ms) - 1) : \A i \in 1..Len(ms[k + 1].bytes) :
       Bytes(ms)[o[k] + i] = ms[k + 1].bytes[i]

LEMMA BytesLaidOut ==
  ASSUME NEW ms \in Seq(Sent)
  PROVE  Bytes(ms) \in Seq(Byte) /\ \E o : MessagesAt(ms, o)
<1>1. PICK ss : ss = [k \in DOMAIN ms |-> ms[k].bytes]
  OBVIOUS
<1>2. \A k \in 1..Len(ms) : ms[k].bytes \in Seq(Byte)
  <2>1. \A k \in 1..Len(ms) : ms[k] \in Sent
    OBVIOUS
  <2> QED
    BY <2>1 DEF Sent
<1>3. ss = [k \in 1..Len(ms) |-> ms[k].bytes] /\ Len(ms) \in Nat
  BY <1>1
<1>4. ss \in Seq(Seq(Byte)) /\ Len(ss) = Len(ms)
  BY <1>2, <1>3
<1>5. Bytes(ms) = FlattenSeq(ss)
  BY <1>1 DEF Bytes
<1>6. PICK s : s = Bytes(ms)
  OBVIOUS
<1>7. s \in Seq(Byte) /\ \E o : LaidOut(ss, Len(ms), s, o)
  BY <1>4, <1>5, <1>6, Flattened
<1>8. PICK o : LaidOut(ss, Len(ms), s, o)
  BY <1>7
<1>9. \A k \in 0..(Len(ms) - 1) : ss[k + 1] = ms[k + 1].bytes
  BY <1>3
<1>10. MessagesAt(ms, o)
  BY <1>6, <1>8, <1>9 DEF LaidOut, MessagesAt
<1> QED
  BY <1>6, <1>7, <1>10

\* The first message comes first.
LEMMA FirstBytes ==
  ASSUME NEW ms, SentMessages(ms), Len(ms) # 0
  PROVE  /\ SubSeq(Bytes(ms), 1, Len(ms[1].bytes)) = ms[1].bytes
         /\ Len(ms[1].bytes) \in Nat /\ Len(ms[1].bytes) > 0
         /\ Len(ms) = 1 => Len(Bytes(ms)) = Len(ms[1].bytes)
         /\ Len(ms) > 1 => Len(Bytes(ms)) > Len(ms[1].bytes)
<1>1. ms \in Seq(Sent) /\ Len(ms) \in Nat /\ 1 \in 1..Len(ms)
  BY DEF SentMessages
<1>2. \A k \in 1..Len(ms) : Len(ms[k].bytes) \in Nat /\ Len(ms[k].bytes) > 0
  <2> SUFFICES ASSUME NEW k \in 1..Len(ms)
               PROVE  Len(ms[k].bytes) \in Nat /\ Len(ms[k].bytes) > 0
    OBVIOUS
  <2>1. ms[k].bytes = Encoded(ms[k].commands)
    BY DEF SentMessages
  <2>2. ms[k] \in Sent
    BY <1>1
  <2>3. ms[k].bytes \in Seq(Byte) /\ ms[k].commands \in Seq(Command)
    BY <2>2 DEF Sent
  <2> QED
    BY <2>1, <2>3, EncodedLength
<1>3. PICK s, o : s = Bytes(ms) /\ s \in Seq(Byte) /\ MessagesAt(ms, o)
  BY <1>1, BytesLaidOut
<1>4. PICK b : b = ms[1].bytes
  OBVIOUS
<1>5. PICK n \in Nat : n = Len(b) /\ n > 0
  BY <1>1, <1>2, <1>4
<1>6. o[0] = 0 /\ o[1] = n /\ o[1] <= Len(s) /\ \A i \in 1..n : s[i] = b[i]
  <2>1. 0 \in 0..(Len(ms) - 1) /\ 0 + 1 = 1 /\ 1 \in 0..Len(ms)
    BY <1>1
  <2>2. o[0] = 0 /\ o[1] = 0 + n /\ o[1] <= Len(s) /\ \A i \in 1..n : s[0 + i] = b[i]
    BY <1>3, <1>4, <1>5, <2>1 DEF MessagesAt
  <2> QED
    BY <1>5, <2>2
<1>7. SubSeq(s, 1, n) = b
  <2>1. b \in Seq(Byte)
    <3>1. ms[1] \in Sent
      BY <1>1
    <3> QED
      BY <1>4, <3>1 DEF Sent
  <2>2. PICK t : t = SubSeq(s, 1, n)
    OBVIOUS
  <2>3. t \in Seq(Byte) /\ Len(t) = n /\ \A i \in 1..n : t[i] = s[i]
    BY <1>3, <1>5, <1>6, <2>2
  <2>4. b = [i \in 1..n |-> b[i]] /\ t = [i \in 1..n |-> t[i]]
    BY <1>5, <2>1, <2>3
  <2>5. \A i \in 1..n : t[i] = b[i]
    BY <1>6, <2>3
  <2> QED
    BY <2>2, <2>4, <2>5
<1>8. Len(ms) = 1 => Len(s) = n
  BY <1>3, <1>6 DEF MessagesAt
<1>9. Len(ms) > 1 => Len(s) > n
  <2> SUFFICES ASSUME Len(ms) > 1 PROVE Len(s) > n
    OBVIOUS
  <2>1. 1 \in 0..(Len(ms) - 1) /\ 1 + 1 = 2 /\ 2 \in 0..Len(ms) /\ 2 \in 1..Len(ms)
    BY <1>1
  <2>2. PICK l \in Nat : l = Len(ms[2].bytes) /\ l > 0
    BY <1>2, <2>1
  <2>3. o[2] = o[1] + l /\ o[2] <= Len(s)
    BY <1>3, <2>1, <2>2 DEF MessagesAt
  <2>4. Len(s) \in Nat
    BY <1>3
  <2> QED
    BY ONLY <1>5, <1>6, <2>2, <2>3, <2>4
<1> QED
  BY <1>3, <1>4, <1>5, <1>7, <1>8, <1>9

LEMMA FlattenOne ==
  ASSUME NEW S, NEW s \in Seq(S)
  PROVE  FlattenSeq(<<s>>) = s
<1>1. PICK ss : ss = <<s>>
  OBVIOUS
<1>2. ss \in Seq(Seq(S)) /\ Len(ss) = 1 /\ ss[1] = s
  BY <1>1
<1>3. PICK t, o : t = FlattenSeq(ss) /\ t \in Seq(S) /\ LaidOut(ss, 1, t, o)
  BY <1>2, Flattened
<1>4. PICK n \in Nat : n = Len(s)
  OBVIOUS
<1>5. Len(t) = n /\ \A i \in 1..n : t[i] = s[i]
  <2>1. 0 \in 0..(1 - 1) /\ 0 + 1 = 1
    OBVIOUS
  <2>2. o[0] = 0 /\ o[1] = 0 + n /\ Len(t) = o[1] /\ \A i \in 1..n : t[0 + i] = s[i]
    BY <1>2, <1>3, <1>4, <2>1 DEF LaidOut
  <2> QED
    BY <1>4, <2>2
<1>6. t = [i \in 1..n |-> t[i]] /\ s = [i \in 1..n |-> s[i]]
  BY <1>3, <1>4, <1>5
<1>7. t = s
  BY <1>5, <1>6
<1> QED
  BY <1>1, <1>3, <1>7

\* Where the messages of the stream end.
LEMMA Endings ==
  ASSUME SentMessages(stream), Len(stream) # 0, NEW k \in 0..Len(stream)
  PROVE  LET n == Len(stream[1].bytes)
         IN /\ n \in Nat /\ n > 0
            /\ k = 0 => End(k) = 0
            /\ k = 1 => End(k) = n
            /\ k > 1 => End(k) > n
<1>1. stream \in Seq(Sent) /\ Len(stream) \in Nat /\ k \in Nat /\ 1 \in 1..Len(stream)
  BY DEF SentMessages
<1>2. PICK ms : ms = SubSeq(stream, 1, k)
  OBVIOUS
<1>3. ms \in Seq(Sent) /\ Len(ms) = k /\ \A i \in 1..k : ms[i] = stream[i]
  BY <1>1, <1>2
<1>4. SentMessages(ms)
  <2>1. \A i \in 1..k : i \in 1..Len(stream)
    BY <1>1
  <2> QED
    BY <1>3, <2>1 DEF SentMessages
<1>5. PICK n : n = Len(stream[1].bytes)
  OBVIOUS
<1>6. n \in Nat /\ n > 0
  BY <1>1, <1>5, FirstBytes
<1>7. k = 0 => Len(Bytes(ms)) = 0
  BY <1>3, BytesLaidOut DEF MessagesAt
<1>8. k > 0 => ms[1] = stream[1]
  BY <1>1, <1>3
<1>9. k # 0 => /\ Len(ms) = 1 => Len(Bytes(ms)) = n
               /\ Len(ms) > 1 => Len(Bytes(ms)) > n
  <2> SUFFICES ASSUME k # 0
               PROVE  /\ Len(ms) = 1 => Len(Bytes(ms)) = n
                      /\ Len(ms) > 1 => Len(Bytes(ms)) > n
    OBVIOUS
  <2>1. Len(ms) # 0 /\ ms[1] = stream[1]
    BY <1>1, <1>3, <1>8
  <2>2. n = Len(ms[1].bytes)
    BY <1>5, <2>1
  <2>3. /\ Len(ms) = 1 => Len(Bytes(ms)) = Len(ms[1].bytes)
        /\ Len(ms) > 1 => Len(Bytes(ms)) > Len(ms[1].bytes)
    BY <1>4, <2>1, FirstBytes
  <2> QED
    BY <2>2, <2>3
<1> QED
  BY <1>1, <1>2, <1>3, <1>5, <1>6, <1>7, <1>9 DEF End

\* A recv that returns one message takes the first one off the stream.
LEMMA FirstChunk ==
  ASSUME SentMessages(stream), Len(stream) # 0, Delivery = "message", NEW n \in Chunks
  PROVE  /\ SubSeq(Bytes(stream), 1, n) = stream[1].bytes
         /\ Complete(n) = SubSeq(stream, 1, 1)
         /\ Rest(n) = SubSeq(stream, 2, Len(stream))
<1>1. stream \in Seq(Sent) /\ Len(stream) \in Nat /\ 1 \in 0..Len(stream)
  BY DEF SentMessages
<1>2. PICK l : l = Len(stream[1].bytes)
  OBVIOUS
<1>3. l \in Nat /\ l > 0 /\ End(0) = 0 /\ End(1) = l
  <2>1. 0 \in 0..Len(stream)
    BY <1>1
  <2> QED
    BY <1>1, <1>2, <2>1, Endings
<1>4. n = l
  BY <1>3 DEF Chunks
<1>5. SubSeq(Bytes(stream), 1, n) = stream[1].bytes
  BY <1>2, <1>4, FirstBytes
<1>6. \A k \in 0..Len(stream) :
        End(k) <= n /\ (k < Len(stream) => End(k + 1) > n) <=> k = 1
  <2> SUFFICES ASSUME NEW k \in 0..Len(stream)
               PROVE  End(k) <= n /\ (k < Len(stream) => End(k + 1) > n) <=> k = 1
    OBVIOUS
  <2>1. CASE k = 0
    <3>1. k < Len(stream) /\ End(k + 1) = n
      BY <1>1, <1>3, <1>4, <2>1
    <3> QED
      BY <1>3, <1>4, <2>1, <3>1
  <2>2. CASE k = 1
    <3>1. k < Len(stream) => End(k + 1) > n
      <4>1. k < Len(stream) => k + 1 \in 0..Len(stream) /\ k + 1 > 1
        BY <1>1, <2>2
      <4> QED
        BY <1>2, <1>4, <4>1, Endings
    <3> QED
      BY <1>3, <1>4, <2>2, <3>1
  <2>3. CASE k > 1
    <3>1. End(k) > n
      BY <1>2, <1>4, <2>3, Endings
    <3>2. End(k) \in Nat
      <4>1. PICK ms : ms = SubSeq(stream, 1, k)
        OBVIOUS
      <4>2. ms \in Seq(Sent)
        BY <1>1, <4>1
      <4>3. Bytes(ms) \in Seq(Byte)
        BY <4>2, BytesLaidOut
      <4> QED
        BY <4>1, <4>3 DEF End
    <3> QED
      BY <1>3, <1>4, <2>3, <3>1, <3>2
  <2> QED
    BY <1>1, <2>1, <2>2, <2>3
<1>7. Complete(n) = SubSeq(stream, 1, 1)
  <2>1. PICK c : c = CHOOSE k \in 0..Len(stream) :
                       End(k) <= n /\ (k < Len(stream) => End(k + 1) > n)
    OBVIOUS
  <2>2. c = 1
    BY <1>1, <1>6, <2>1
  <2>3. Complete(n) = SubSeq(stream, 1, c)
    BY <2>1 DEF Complete
  <2> QED
    BY <2>2, <2>3
<1>8. Len(Complete(n)) = 1
  <2>1. Len(SubSeq(stream, 1, 1)) = 1
    BY <1>1
  <2> QED
    BY <1>7, <2>1
<1>9. Rest(n) = SubSeq(stream, 2, Len(stream))
  <2>1. PICK left : left = n - End(Len(Complete(n)))
    OBVIOUS
  <2>2. left = 0
    BY <1>3, <1>4, <1>8, <2>1
  <2> QED
    BY <1>8, <2>1, <2>2 DEF Rest
<1> QED
  BY <1>5, <1>7, <1>9

-----------------------------------------------------------------------------
(* ServerLink: every message is saved when it is received, in one go.      *)

\* One recv returns one message, of no more commands than there are slots for.
WholeMessages ==
  /\ Delivery = "message"
  /\ \A message \in Messages : Len(message) <= MAX_COMMANDS

LinkHolds ==
  /\ SentMessages(stream)
  /\ AllFree(slots)
  /\ mem = expected

\* The connection is closed or it is not: the stream is lost with it.
LEMMA LostMessages ==
  ASSUME SentMessages(stream)
  PROVE  SentMessages(Lost)
<1>1. SentMessages(<<>>)
  BY DEF SentMessages
<1> QED
  BY <1>1 DEF Lost

LEMMA SentLater ==
  ASSUME NEW ms, SentMessages(ms), Len(ms) # 0
  PROVE  SentMessages(SubSeq(ms, 2, Len(ms)))
<1>1. ms \in Seq(Sent)
  BY DEF SentMessages
<1>2. PICK m \in Nat : m = Len(ms) /\ m # 0
  BY <1>1
<1>3. PICK rest : rest = SubSeq(ms, 2, m)
  OBVIOUS
<1>4. rest \in Seq(Sent) /\ Len(rest) = m - 1
  BY <1>1, <1>2, <1>3
<1>5. \A k \in 1..(m - 1) : k + 1 \in 1..m /\ rest[k] = ms[k + 1]
  BY <1>1, <1>2, <1>3
<1>6. \A k \in 1..m : /\ ms[k].bytes = Encoded(ms[k].commands)
                      /\ Len(ms[k].commands) <= MAX_COMMANDS
  BY <1>2 DEF SentMessages
<1>7. \A k \in 1..Len(rest) : /\ rest[k].bytes = Encoded(rest[k].commands)
                              /\ Len(rest[k].commands) <= MAX_COMMANDS
  BY <1>4, <1>5, <1>6
<1> QED
  BY <1>2, <1>3, <1>4, <1>7 DEF SentMessages

LEMMA ReceiveHolds ==
  ASSUME WholeMessages, LinkHolds, Receive
  PROVE  LinkHolds'
<1>1. SentMessages(stream) /\ stream \in Seq(Sent) /\ Len(stream) \in Nat /\ Len(stream) # 0
  BY DEF LinkHolds, SentMessages, Receive
<1>2. PICK n \in Chunks :
        /\ slots' = Decode(SubSeq(Bytes(stream), 1, n)).slots
        /\ mem' = Decode(SubSeq(Bytes(stream), 1, n)).mem
        /\ stream' = Rest(n)
        /\ expected' = SaveAll(expected, FlattenSeq([k \in DOMAIN Complete(n) |->
                                                       Complete(n)[k].commands]))
  BY DEF Receive
<1>3. /\ SubSeq(Bytes(stream), 1, n) = stream[1].bytes
      /\ Complete(n) = SubSeq(stream, 1, 1)
      /\ Rest(n) = SubSeq(stream, 2, Len(stream))
  BY <1>1, FirstChunk DEF WholeMessages
<1>4. PICK commands : commands = stream[1].commands
  OBVIOUS
<1>5. /\ commands \in Seq(Command) /\ Len(commands) <= MAX_COMMANDS
      /\ stream[1].bytes = Encoded(commands)
  <2>1. 1 \in 1..Len(stream)
    BY <1>1
  <2>2. stream[1] \in Sent
    BY <1>1, <2>1
  <2> QED
    BY <1>1, <1>4, <2>1, <2>2 DEF Sent, SentMessages
<1>6. AllFree(slots') /\ mem' = SaveAll(mem, commands)
  <2>1. AllFree(slots)
    BY DEF LinkHolds
  <2> QED
    BY <1>2, <1>3, <1>5, <2>1, DecodeMessage
<1>7. expected' = SaveAll(expected, commands)
  <2>1. PICK c : c = Complete(n)
    OBVIOUS
  <2>2. DOMAIN c = 1..1 /\ c[1] = stream[1]
    BY <1>1, <1>3, <2>1
  <2>3. [k \in DOMAIN c |-> c[k].commands] = <<commands>>
    BY <1>4, <2>2
  <2>4. FlattenSeq(<<commands>>) = commands
    BY <1>5, FlattenOne
  <2> QED
    BY <1>2, <2>1, <2>3, <2>4
<1>8. SentMessages(stream')
  <2>1. SentMessages(SubSeq(stream, 2, Len(stream)))
    BY <1>1, SentLater
  <2> QED
    BY <1>2, <1>3, <2>1
<1> QED
  BY <1>6, <1>7, <1>8 DEF LinkHolds

LEMMA SendHolds ==
  ASSUME WholeMessages, LinkHolds, NEW message \in Messages, Send(message)
  PROVE  LinkHolds'
<1>1. message \in Seq(Command) /\ Len(message) <= MAX_COMMANDS
  <2>1. Messages \subseteq Seq(Command)
    BY MessagesAssumption
  <2> QED
    BY <2>1 DEF WholeMessages
<1>2. PICK sent : sent = [bytes |-> Encoded(message), commands |-> message]
  OBVIOUS
<1>3. sent \in Sent
  <2>1. Encoded(message) \in Seq(Byte)
    BY <1>1, EncodedBuffer DEF ClosedBuffer, MessageAt
  <2> QED
    BY <1>1, <1>2, <2>1 DEF Sent
<1>4. sent.bytes = Encoded(sent.commands) /\ Len(sent.commands) <= MAX_COMMANDS
  BY <1>1, <1>2
<1>5. SentMessages(stream')
  <2>1. stream' = Append(stream, sent) /\ stream \in Seq(Sent)
    BY <1>2 DEF Send, LinkHolds, SentMessages
  <2>2. PICK n \in Nat : n = Len(stream)
    BY <2>1
  <2>3. /\ stream' \in Seq(Sent) /\ Len(stream') = n + 1
        /\ stream'[n + 1] = sent
        /\ \A k \in 1..n : stream'[k] = stream[k]
    BY <1>3, <2>1, <2>2
  <2>4. \A k \in 1..n : /\ stream[k].bytes = Encoded(stream[k].commands)
                        /\ Len(stream[k].commands) <= MAX_COMMANDS
    BY <2>2 DEF LinkHolds, SentMessages
  <2>5. \A k \in 1..(n + 1) : k = n + 1 \/ k \in 1..n
    BY <2>2
  <2>6. \A k \in 1..Len(stream') : /\ stream'[k].bytes = Encoded(stream'[k].commands)
                                   /\ Len(stream'[k].commands) <= MAX_COMMANDS
    BY <1>4, <2>3, <2>4, <2>5
  <2> QED
    BY <2>3, <2>6 DEF SentMessages
<1> QED
  BY <1>5 DEF Send, LinkHolds, server, AllFree

LEMMA LinkStep ==
  ASSUME WholeMessages, LinkHolds, [Next]_vars
  PROVE  LinkHolds'
<1>1. CASE Begin \/ EndOfStream
  <2>1. SentMessages(stream')
    BY <1>1, LostMessages DEF Begin, EndOfStream, LinkHolds
  <2> QED
    BY <1>1, <2>1 DEF Begin, EndOfStream, LinkHolds, AllFree
<1>2. CASE AcceptClient \/ AcceptFails
  BY <1>2 DEF AcceptClient, AcceptFails, Accept, LinkHolds
<1>3. CASE NoClient \/ NoData \/ SetTimeout
  BY <1>3 DEF NoClient, NoData, SetTimeout, LinkHolds
<1>4. CASE Receive
  BY <1>4, ReceiveHolds
<1>5. CASE Connect \/ Leave \/ KernelGivesUp
  BY <1>5 DEF Connect, Leave, KernelGivesUp, server, LinkHolds
<1>6. CASE \E message \in Messages : Send(message)
  BY <1>6, SendHolds
<1>7. CASE UNCHANGED vars
  BY <1>7 DEF vars, server, LinkHolds
<1> QED
  BY <1>1, <1>2, <1>3, <1>4, <1>5, <1>6, <1>7 DEF Next, action, Client

LEMMA LinkInit ==
  ASSUME Init
  PROVE  LinkHolds
<1>1. SentMessages(stream)
  BY DEF Init, SentMessages
<1>2. AllFree(slots)
  BY NoCommandsFilled DEF Init, FilledSlots, AllFree
<1> QED
  BY <1>1, <1>2 DEF Init, LinkHolds

\* When a recv returns one whole message, of at most MAX_COMMANDS commands, then what is
\* still to be received are whole messages and no slot is occupied between two calls.
THEOREM LinkInvariant ==
  ASSUME WholeMessages
  PROVE  Spec => []LinkHolds
<1>1. LinkHolds /\ [Next]_vars => LinkHolds'
  BY LinkStep
<1> QED
  BY <1>1, LinkInit, PTL DEF Spec

\* EveryMessageSaved, under the same condition: without it the run of three messages in
\* one recv refutes the property.
THEOREM LinkEveryMessageSaved ==
  ASSUME WholeMessages
  PROVE  Spec => []EveryMessageSaved
<1>1. LinkHolds => EveryMessageSaved
  BY DEF LinkHolds, EveryMessageSaved
<1> QED
  BY <1>1, LinkInvariant, PTL

\* NothingLeftBehind, under the same condition.
THEOREM LinkNothingLeftBehind ==
  ASSUME WholeMessages
  PROVE  Spec => []NothingLeftBehind
<1>1. LinkHolds => NothingLeftBehind
  BY DEF LinkHolds, NothingLeftBehind, AllFree, Slots, FreeSlots, No
<1> QED
  BY <1>1, LinkInvariant, PTL

-----------------------------------------------------------------------------
(* ServerLink: the connection and its flags, whatever a recv returns.      *)

\* The thread waits for a client only while it has none, and selects only after it has
\* accepted one; a socket is never left open behind a flag that says there is none.
Flags ==
  /\ pc = "wait" => ~connected
  /\ pc \in {"select", "timeout"} => connected
  /\ ~connected => sock = "none"
  /\ budget \in [messages : Nat, clients : Nat, faults : Nat]

\* A server that believes in a connection it does not have, which nothing puts right,
\* comes of a failed accept and of nothing else.
DeadOnlyByFault == connected /\ sock = "none" => budget.faults > 0

\* What a client sent and the server did not read is lost with its connection: none of
\* it is ever read as the beginning of what the next client sends.
NothingOfOthers == sock = "none" => stream = <<>>

LinkControl == Flags /\ DeadOnlyByFault /\ NothingOfOthers

LEMMA ControlStep ==
  ASSUME LinkControl, [Next]_vars
  PROVE  LinkControl'
<1> USE DEF LinkControl, Flags, DeadOnlyByFault, NothingOfOthers
<1>1. CASE Begin
  <2>1. CASE needreconnect /\ connected
    <3>1. sock' = ClosedSock /\ connected' = ClosedFlag /\ stream' = Lost
      BY <1>1, <2>1 DEF Begin
    <3>2. sock # "none" => sock' = "none" /\ ~connected' /\ stream' = <<>>
      BY <2>1, <3>1 DEF ClosedSock, ClosedFlag, Lost
    <3>3. sock = "none" => sock' = "none" /\ connected' /\ stream' = stream
      BY <2>1, <3>1 DEF ClosedSock, ClosedFlag, Lost
    <3>4. pc' = (IF connected' THEN "select" ELSE "wait") /\ budget' = budget
      BY <1>1 DEF Begin
    <3> QED
      BY <2>1, <3>2, <3>3, <3>4
  <2>2. CASE ~ (needreconnect /\ connected)
    BY <1>1, <2>2 DEF Begin
  <2> QED
    BY <2>1, <2>2
<1>2. CASE NoClient
  BY <1>2 DEF NoClient
<1>3. CASE AcceptClient
  BY <1>3 DEF AcceptClient, Accept
<1>4. CASE AcceptFails
  <2>1. budget'.faults = budget.faults + 1
    BY <1>4 DEF AcceptFails
  <2>2. sock = "none"
    BY <1>4 DEF AcceptFails, Accept
  <2> QED
    BY <1>4, <2>1, <2>2 DEF AcceptFails, Accept
<1>5. CASE Receive
  BY <1>5 DEF Receive
<1>6. CASE EndOfStream
  <2>1. sock # "none" /\ connected
    BY <1>6 DEF EndOfStream
  <2>2. sock' = "none" /\ ~connected' /\ stream' = <<>>
    BY <1>6, <2>1 DEF EndOfStream, ClosedSock, ClosedFlag, Lost
  <2> QED
    BY <1>6, <2>2 DEF EndOfStream
<1>7. CASE NoData
  BY <1>7 DEF NoData
<1>8. CASE SetTimeout
  <2>1. sock' = sock \/ (sock = "silent" /\ sock' = "probed")
    BY <1>8 DEF SetTimeout
  <2>2. (sock' = "none") = (sock = "none")
    BY <2>1
  <2>3. pc = "timeout" /\ pc' = "begin" /\ UNCHANGED <<connected, stream, budget>>
    BY <1>8 DEF SetTimeout
  <2> QED
    BY <2>2, <2>3
<1>9. CASE Connect
  <2>1. budget'.faults = budget.faults
    BY <1>9 DEF Connect
  <2> QED
    BY <1>9, <2>1 DEF Connect, server
<1>10. CASE Leave \/ KernelGivesUp
  BY <1>10 DEF Leave, KernelGivesUp
<1>11. ASSUME NEW message \in Messages, Send(message)
       PROVE  LinkControl'
  <2>1. budget'.faults = budget.faults
    BY <1>11 DEF Send
  <2> QED
    BY <1>11, <2>1 DEF Send, server
<1>12. CASE UNCHANGED vars
  BY <1>12 DEF vars, server
<1> QED
  BY <1>1, <1>2, <1>3, <1>4, <1>5, <1>6, <1>7, <1>8, <1>9, <1>10, <1>11, <1>12
  DEF Next, action, Client

\* The socket and its flags agree: the safety half of ClientServed, for every client,
\* message and delivery.
THEOREM LinkControlled == Spec => []LinkControl
<1>1. Init => LinkControl
  BY DEF Init, LinkControl, Flags, DeadOnlyByFault, NothingOfOthers
<1> QED
  BY <1>1, ControlStep, PTL DEF Spec
===============================================================================
