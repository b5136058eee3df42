-------------------------- MODULE MemoryMirrorProofs --------------------------
(***************************************************************************)
(* What the memories of client and server hold, for all tables, blocks and *)
(* bounds.                                                                 *)
(*                                                                         *)
(* Overrides, and the values of an answer, pass through four places: the   *)
(* client's memory, the message that SendMem builds, the channel, and the  *)
(* server's memory.  IInv says the same of all four.  The steps that could *)
(* break it rely on what an earlier step has seen (GetAlternate), or take  *)
(* a part of a table (Gather).                                             *)
(*                                                                         *)
(* For what displays answer, IInv is not enough: KInv adds the order in    *)
(* which SendMem sends, and that a block either has not left the client or *)
(* was known when everything that is on its way was gathered.              *)
(***************************************************************************)
EXTENDS MemoryMirror, FiniteSetTheorems, SequenceTheorems, TLAPS

\* A memory has its four fields, the configured tables and one override per register.
IsMemory(m) ==
  /\ m = [field \in {"list", "values", "alternate", "headers"} |-> m[field]]
  /\ m.list = List
  /\ m.alternate = [k \in DOMAIN Registers |-> m.alternate[k]]

\* All overrides of a memory are among the given puts.
OverridesIn(m, given) ==
  \A k \in DOMAIN Registers :
    m.alternate[k] # None => <<Registers[k], m.alternate[k]>> \in given

\* The overrides of a memory.
OverridesOf(m) == {<<Registers[k], m.alternate[k]>> : k \in DOMAIN Registers}

\* No register loses its override.
Stays(m, new) ==
  \A k \in DOMAIN Registers : m.alternate[k] # None => new.alternate[k] # None

\* Where a command for registers writes, and what.
Writes(c, k) ==
  LET first == StartIndex(Registers, c.adress)
  IN first # NotFound /\ k \in first..(first + Len(c.payload) - 1)
Written(c, k) == c.payload[k - StartIndex(Registers, c.adress) + 1]

\* The entries of the halves of a 32 bit value, and of a block.
Pair(i, k) == Registers[i] \in Wide /\ Registers[k] = Registers[i] + 1
Within(block, k) == \E i \in DOMAIN block : block[i] = Registers[k]

\* Halves are of one reading: in a table of registers, and in what a command writes.
WholeValues(f) ==
  /\ f \in [DOMAIN Registers -> Readings]
  /\ \A i, k \in DOMAIN Registers : Pair(i, k) => f[i] = f[k]
WholeMemory(m) == "eReg" \in DOMAIN m.values /\ WholeValues(m.values["eReg"])
WholeCommand(c) ==
  c.type = "eReg" =>
    /\ \A k \in DOMAIN Registers : Writes(c, k) => Written(c, k) \in Readings
    /\ \A i, k \in DOMAIN Registers : Pair(i, k) =>
         /\ Writes(c, i) <=> Writes(c, k)
         /\ Writes(c, i) => Written(c, i) = Written(c, k)

\* A command of one of the types there are.  An override in it is among the given puts.
CommandOK(c, given) ==
  /\ c.type \in Types
  /\ c.type = "eUser" =>
       /\ c.adress \in Nat \ {0}
       /\ \E v : c.payload = <<v>> /\ <<c.adress, v>> \in given
  /\ WholeCommand(c)

\* A range that holds the halves of a value both or not at all.
WholeRange(from, to) ==
  /\ from \in Nat /\ to \in Nat
  /\ \A i, k \in DOMAIN Registers :
       Pair(i, k) => (Registers[i] \in from..to <=> Registers[k] \in from..to)

\* A call of SendMem, and a plan of such calls, the last of which sends.
CallOK(call) == call.type = "eReg" => WholeRange(call.from, call.to)
PlanOK(s) ==
  /\ \E all : s \in Seq(all) /\ \A call \in all : CallOK(call)
  /\ s # <<>> => s[Len(s)].send = "yes"

\* A sequence of commands that are all in order, and one of such messages.
MessageOK(s, given) ==
  \E commands : s \in Seq(commands) /\ \A c \in commands : CommandOK(c, given)
ChannelOK(s, given) ==
  \E messages : s \in Seq(messages) /\ \A m \in messages : MessageOK(m, given)

Typed ==
  /\ IsMemory(memory["client"]) /\ IsMemory(memory["server"])
  /\ memory = [h \in Hosts |-> memory[h]]
  /\ cleans \in [Hosts -> Nat]
  /\ budget = [field \in {"reads", "puts", "losses"} |-> budget[field]]
  /\ budget["puts"] \in Nat
  /\ n \in Nat
  /\ pc = "scan" => n > 0

Carried ==
  /\ MessageOK(message, Excused)
  /\ MessageOK(saving, Excused)
  /\ ChannelOK(channel, Excused)

Held ==
  /\ OverridesIn(memory["client"], puts)
  /\ OverridesIn(memory["server"], Excused)

\* What TestAlternate has seen has been put, and is still so when GetAlternate reads
\* unless the client's memory is cleaned.
Tested ==
  /\ cleaning = "yes" => cleans["client"] > 0
  /\ pc = "get" => n \in DOMAIN Registers /\ \E v : <<Registers[n], v>> \in puts
  /\ pc = "get" /\ cleans["client"] = 0 => memory["client"].alternate[n] # None

Whole == WholeMemory(memory["client"]) /\ WholeMemory(memory["server"])

\* The calls still to be made.
Planned ==
  /\ PlanOK(calls)
  /\ pc \in {"call", "scan", "header", "get"} => calls # <<>>

\* What users put is told from readings, and readings are numbered.
Told ==
  /\ \A adress, v : <<adress, v>> \in puts => v \in Nat /\ MaxReads < v /\ v < Unknown
  /\ budget["reads"] \in Nat

IInv == Typed /\ Carried /\ Held /\ Tested /\ Whole /\ Planned /\ Told

-----------------------------------------------------------------------------
(* The look-up in Memory's tables, which are ascending.                    *)

LEMMA AddressesInt == LastAdress \in Int /\ 0..LastAdress \subseteq Nat
  BY DEF LastAdress

Ascending(list) ==
  /\ list \in Seq(0..LastAdress)
  /\ \A j, k \in DOMAIN list : j < k => list[j] < list[k]

LEMMA SeqElements ==
  ASSUME NEW S, NEW s \in Seq(S)
  PROVE  Len(s) \in Nat /\ DOMAIN s = 1..Len(s) /\ \A k \in DOMAIN s : s[k] \in S
  OBVIOUS

LEMMA SeqWider ==
  ASSUME NEW S, NEW T, S \subseteq T, NEW s \in Seq(S)
  PROVE  s \in Seq(T)
  OBVIOUS

\* The entries up to an address are the first ones: the end GetRegister's loop finds.
LEMMA LastExists ==
  ASSUME NEW list, Ascending(list), NEW to \in Int
  PROVE  \E count \in 0..Len(list) : \A k \in DOMAIN list : k <= count <=> list[k] <= to
<1>1. /\ Len(list) \in Nat /\ DOMAIN list = 1..Len(list)
      /\ \A k \in DOMAIN list : list[k] \in Int
  <2>1. list \in Seq(0..LastAdress)
    BY DEF Ascending
  <2>2. \A k \in DOMAIN list : list[k] \in 0..LastAdress
    BY <2>1, SeqElements
  <2> QED
    BY <2>1, <2>2, SeqElements
<1> DEFINE D == {k \in DOMAIN list : list[k] <= to}
           count == Cardinality(D)
<1>2. IsFiniteSet(1..Len(list)) /\ Cardinality(1..Len(list)) = Len(list)
  <2>1. IsFiniteSet(1..Len(list)) /\
        Cardinality(1..Len(list)) = IF 1 > Len(list) THEN 0 ELSE Len(list) - 1 + 1
    BY <1>1, FS_Interval
  <2> QED
    BY <1>1, <2>1
<1>3. D \in SUBSET (1..Len(list))
  BY <1>1
<1>4. IsFiniteSet(D) /\ count <= Len(list)
  BY <1>2, <1>3, FS_Subset
<1>5. count \in Nat
  BY <1>4, FS_CardinalityType
<1>6. ASSUME NEW k \in D
      PROVE  k <= count
  <2>1. (1..k) \in SUBSET D
    BY <1>1 DEF Ascending
  <2>2. Cardinality(1..k) <= Cardinality(D)
    BY <1>4, <2>1, FS_Subset
  <2>3. Cardinality(1..k) = IF 1 > k THEN 0 ELSE k - 1 + 1
    <3>1. k \in Int
      BY <1>1
    <3> QED
      BY <3>1, FS_Interval
  <2> QED
    BY <1>1, <1>5, <2>2, <2>3
<1>7. D \in SUBSET (1..count)
  BY <1>1, <1>6
<1>8. IsFiniteSet(1..count) /\ Cardinality(1..count) = count
  <2>1. IsFiniteSet(1..count) /\ Cardinality(1..count) = IF 1 > count THEN 0 ELSE count - 1 + 1
    BY <1>5, FS_Interval
  <2> QED
    BY <1>5, <2>1
<1>9. D = 1..count
  BY <1>7, <1>8, FS_Subset
<1>10. count \in 0..Len(list) /\ \A k \in DOMAIN list : k <= count <=> list[k] <= to
  <2>1. \A k \in DOMAIN list : k <= count <=> k \in D
    BY <1>1, <1>5, <1>9
  <2> QED
    BY <1>1, <1>4, <1>5, <2>1
<1> HIDE DEF count, D
<1> QED
  BY <1>10

-----------------------------------------------------------------------------
(* GetRegister.                                                           *)

\* Between which entries the addresses of a range lie.
Bounds(list, from, to, first, last) ==
  /\ first \in Nat \ {0} /\ last \in 0..Len(list)
  /\ first = StartIndex(list, from)
  /\ from # 0 => first \in DOMAIN list /\ list[first] = from
  /\ \A k \in DOMAIN list : k <= last <=> list[k] <= to

\* The last entry up to an address.
LastIndex(list, to) == CHOOSE count \in 0..Len(list) : \A k \in DOMAIN list : k <= count <=> list[k] <= to

\* What Span takes from an ascending table: from the entry of the first address
\* (or the first entry, for address 0) those up to the last address.
LEMMA SpanTakes ==
  ASSUME NEW list, Ascending(list), NEW values, NEW from \in Nat, NEW to \in Int,
         StartIndex(list, from) # NotFound
  PROVE  /\ Bounds(list, from, to, StartIndex(list, from), LastIndex(list, to))
         /\ Span(list, values, from, to) =
              SubSeq(values, StartIndex(list, from), LastIndex(list, to))
<1> DEFINE first == StartIndex(list, from)
           last == LastIndex(list, to)
<1>1. Len(list) \in Nat /\ DOMAIN list = 1..Len(list)
  BY DEF Ascending
<1>2. last \in 0..Len(list) /\ \A k \in DOMAIN list : k <= last <=> list[k] <= to
  BY LastExists DEF LastIndex
<1>3. first \in Nat \ {0} /\ (from # 0 => first \in DOMAIN list /\ list[first] = from)
  <2>1. CASE from = 0
    BY <2>1 DEF StartIndex
  <2>2. CASE from # 0
    <3>1. \E k \in DOMAIN list : list[k] = from
      BY <2>2 DEF StartIndex, NotFound
    <3>2. first = CHOOSE k \in DOMAIN list : list[k] = from
      BY <2>2, <3>1 DEF StartIndex
    <3>3. first \in DOMAIN list /\ list[first] = from
      BY <3>1, <3>2
    <3> QED
      BY <1>1, <3>3
  <2> QED
    BY <2>1, <2>2
<1>4. Span(list, values, from, to) = SubSeq(values, first, last)
  BY DEF Span, LastIndex
<1>5. first = StartIndex(list, from)
  OBVIOUS
<1> HIDE DEF first, last
<1>6. Bounds(list, from, to, first, last)
  BY <1>2, <1>3, <1>5 DEF Bounds
<1> QED
  BY <1>4, <1>6 DEF first, last

-----------------------------------------------------------------------------
(* Tables.                                                                 *)

\* The table of registers is a sorted sequence of positive numbers.
LEMMA RegistersSorted ==
  /\ Registers \in Seq(Nat)
  /\ \A k \in DOMAIN Registers : Registers[k] > 0
  /\ \A j, k \in DOMAIN Registers : j < k => Registers[j] < Registers[k]
<1>1. "eReg" \in Tables
  BY DEF Tables, DeviceTables
<1>2. List["eReg"] \in Seq(0..(LastAdress - 1))
  BY <1>1, MirrorAssumption
<1>3. \A j, k \in DOMAIN List["eReg"] : j < k => List["eReg"][j] < List["eReg"][k]
  BY <1>1, MirrorAssumption
<1>4. \A k \in DOMAIN List["eReg"] : List["eReg"][k] > 0
  BY MirrorAssumption
<1>5. Seq(0..(LastAdress - 1)) \subseteq Seq(Nat)
  <2>1. 0..(LastAdress - 1) \subseteq Nat
    BY DEF LastAdress
  <2> QED BY <2>1, SeqMonotonic
<1> QED BY <1>2, <1>3, <1>4, <1>5 DEF Registers

\* An index that is found is that of the address.
LEMMA IndexOfAdress ==
  ASSUME NEW adress \in Nat \ {0}, StartIndex(Registers, adress) # NotFound
  PROVE  /\ StartIndex(Registers, adress) \in DOMAIN Registers
         /\ Registers[StartIndex(Registers, adress)] = adress
BY DEF StartIndex, NotFound

\* More puts do no harm.
LEMMA MoreGiven ==
  ASSUME NEW m, NEW given
  PROVE  /\ OverridesIn(m, given \cup OverridesOf(m))
         /\ \A more : OverridesIn(m, given) => OverridesIn(m, given \cup more)
         /\ \A more : OverridesIn(m, given) /\ given \subseteq more => OverridesIn(m, more)
BY DEF OverridesIn, OverridesOf

\* What is excused grows with what users put, and with the first clean.
LEMMA ExcusedGrows ==
  ASSUME puts \subseteq puts', cleans["client"] # 0 => cleans'["client"] # 0
  PROVE  Excused \subseteq Excused'
BY DEF Excused

LEMMA ExcusedKept == ASSUME UNCHANGED <<cleans, puts>> PROVE Excused' = Excused
BY DEF Excused

\* All puts are excused; after a clean so is a reading where something was put.
LEMMA ExcusedHas ==
  /\ puts \subseteq Excused
  /\ cleans["client"] # 0 =>
       \A adress, v : \A reading \in Readings : <<adress, v>> \in puts => <<adress, reading>> \in Excused
<1>1. ASSUME cleans["client"] # 0, NEW adress, NEW v, NEW reading \in Readings, <<adress, v>> \in puts
      PROVE  <<adress, reading>> \in Excused
  <2>1. PICK put \in puts : put = <<adress, v>>
    BY <1>1
  <2>2. <<put[1], reading>> \in Excused
    BY <1>1 DEF Excused
  <2> QED BY <2>1, <2>2
<1>2. puts \subseteq Excused
  BY DEF Excused
<1> QED BY <1>1, <1>2

\* One override is put.
LEMMA OneOverride ==
  ASSUME NEW m, IsMemory(m), NEW given, OverridesIn(m, given),
         NEW adress \in Nat \ {0}, NEW v, <<adress, v>> \in given,
         NEW new, new = [m EXCEPT !.alternate =
           Overwrite(m.alternate, StartIndex(Registers, adress), <<v>>)]
  PROVE  IsMemory(new) /\ OverridesIn(new, given) /\ (v # None => Stays(m, new))
<1> DEFINE first == StartIndex(Registers, adress)
<1>1. new.alternate = Overwrite(m.alternate, first, <<v>>)
  BY DEF IsMemory
<1>2. DOMAIN m.alternate = DOMAIN Registers
  BY DEF IsMemory
<1>3. \A k \in DOMAIN Registers :
        new.alternate[k] = m.alternate[k] \/ (first # NotFound /\ k = first /\ new.alternate[k] = v)
  <2> SUFFICES ASSUME NEW k \in DOMAIN Registers
               PROVE new.alternate[k] = m.alternate[k]
                     \/ (first # NotFound /\ k = first /\ new.alternate[k] = v)
    OBVIOUS
  <2>1. CASE first = NotFound
    BY <1>1, <1>2, <2>1 DEF Overwrite
  <2>2. CASE first # NotFound
    <3>1. first \in Nat /\ k \in Nat
      BY <2>2, IndexOfAdress, RegistersSorted
    <3>2. k \in first..(first + Len(<<v>>) - 1) <=> k = first
      BY <3>1
    <3>3. <<v>>[first - first + 1] = v
      BY <3>1
    <3> QED BY <1>1, <1>2, <2>2, <3>2, <3>3 DEF Overwrite
  <2> QED BY <2>1, <2>2
<1>4. OverridesIn(new, given)
  BY <1>3, IndexOfAdress DEF OverridesIn
<1>5. new.alternate = [k \in DOMAIN Registers |-> new.alternate[k]]
  BY <1>1, <1>2 DEF Overwrite
<1>6. v # None => Stays(m, new)
  BY <1>3 DEF Stays
<1>7. IsMemory(new)
  BY <1>5 DEF IsMemory
<1> QED BY <1>4, <1>6, <1>7

\* Two overrides are put on neighbouring registers.
LEMMA TwoOverrides ==
  ASSUME NEW m, IsMemory(m), NEW given, OverridesIn(m, given),
         NEW adress \in Nat \ {0}, NEW v, v # None,
         <<adress, v>> \in given, <<adress + 1, v>> \in given,
         StartIndex(Registers, adress) # NotFound,
         StartIndex(Registers, adress + 1) # NotFound,
         NEW new, new = [m EXCEPT !.alternate =
           Overwrite(m.alternate, StartIndex(Registers, adress), <<v, v>>)]
  PROVE  IsMemory(new) /\ OverridesIn(new, given) /\ Stays(m, new)
<1> DEFINE first == StartIndex(Registers, adress)
           next == StartIndex(Registers, adress + 1)
<1>1. new.alternate = Overwrite(m.alternate, first, <<v, v>>)
  BY DEF IsMemory
<1>2. DOMAIN m.alternate = DOMAIN Registers
  BY DEF IsMemory
<1>3. /\ first \in DOMAIN Registers /\ Registers[first] = adress
      /\ next \in DOMAIN Registers /\ Registers[next] = adress + 1
  BY IndexOfAdress
<1>4. DOMAIN Registers = 1..Len(Registers) /\ Len(Registers) \in Nat
  BY RegistersSorted
<1> HIDE DEF first, next
<1>5. first \in Nat /\ next \in Nat /\ first < next
  <2>1. ~(next < first)
    BY <1>3, <1>4, RegistersSorted
  <2>2. next # first
    BY <1>3
  <2> QED BY <2>1, <2>2, <1>3, <1>4
<1>6. next = first + 1
  <2> SUFFICES ASSUME next # first + 1 PROVE FALSE
    OBVIOUS
  <2>1. first + 1 \in DOMAIN Registers /\ first + 1 < next
    BY <1>3, <1>4, <1>5
  <2>2. Registers[first] < Registers[first + 1] /\ Registers[first + 1] < Registers[next]
    BY <1>3, <1>5, <2>1, RegistersSorted
  <2>3. Registers[first + 1] \in Nat
    BY <2>1, <1>4, RegistersSorted
  <2> QED BY <2>2, <2>3, <1>3
<1>7. \A k \in DOMAIN Registers :
        \/ new.alternate[k] = m.alternate[k]
        \/ k \in {first, next} /\ new.alternate[k] = v
  <2> SUFFICES ASSUME NEW k \in DOMAIN Registers
               PROVE  \/ new.alternate[k] = m.alternate[k]
                      \/ k \in {first, next} /\ new.alternate[k] = v
    OBVIOUS
  <2>1. k \in Nat
    BY <1>4
  <2>2. k \in first..(first + Len(<<v, v>>) - 1) <=> k = first \/ k = next
    BY <2>1, <1>5, <1>6
  <2>3. <<v, v>>[first - first + 1] = v /\ <<v, v>>[next - first + 1] = v
    BY <1>5, <1>6
  <2> QED BY <1>1, <1>2, <2>2, <2>3 DEF Overwrite
<1>8. OverridesIn(new, given)
  BY <1>7, <1>3 DEF OverridesIn
<1>9. new.alternate = [k \in DOMAIN Registers |-> new.alternate[k]]
  BY <1>1, <1>2 DEF Overwrite
<1>10. Stays(m, new)
  BY <1>7 DEF Stays
<1>11. IsMemory(new)
  BY <1>9 DEF IsMemory
<1> QED BY <1>8, <1>10, <1>11

\* Values and headers do not touch the overrides.
LEMMA OtherFields ==
  ASSUME NEW m, IsMemory(m), NEW given, OverridesIn(m, given), NEW values, NEW headers,
         NEW new, new = [m EXCEPT !.values = values, !.headers = headers]
  PROVE  IsMemory(new) /\ OverridesIn(new, given) /\ Stays(m, new)
<1>1. new.alternate = m.alternate /\ new.list = m.list
  BY DEF IsMemory
<1>2. IsMemory(new)
  BY <1>1 DEF IsMemory
<1> QED BY <1>1, <1>2 DEF OverridesIn, Stays

\* Nor do values alone.
LEMMA OtherValues ==
  ASSUME NEW m, IsMemory(m), NEW given, OverridesIn(m, given), NEW values
  PROVE  LET new == [m EXCEPT !.values = values]
         IN IsMemory(new) /\ OverridesIn(new, given) /\ Stays(m, new)
<1>1. [m EXCEPT !.values = values] = [m EXCEPT !.values = values, !.headers = m.headers]
  BY DEF IsMemory
<1> QED BY <1>1, OtherFields

\* A memory without overrides.
LEMMA NoOverrides ==
  ASSUME NEW m, m.list = List, NEW given
  PROVE  /\ IsMemory(Clean(m)) /\ OverridesIn(Clean(m), given)
         /\ IsMemory(m) => IsMemory(CleanAlternate(m)) /\ OverridesIn(CleanAlternate(m), given)
<1>1. /\ Clean(m).alternate = [k \in DOMAIN Registers |-> None]
      /\ Clean(m).list = List
  BY DEF Clean, Registers
<1>2. IsMemory(Clean(m)) /\ OverridesIn(Clean(m), given)
  BY <1>1 DEF IsMemory, OverridesIn, Clean
<1>3. ASSUME IsMemory(m)
      PROVE  IsMemory(CleanAlternate(m)) /\ OverridesIn(CleanAlternate(m), given)
  <2>1. DOMAIN m.alternate = DOMAIN Registers
    BY <1>3 DEF IsMemory
  <2>2. /\ CleanAlternate(m).alternate = [k \in DOMAIN Registers |-> None]
        /\ CleanAlternate(m).list = List
    BY <1>3, <2>1 DEF CleanAlternate, IsMemory
  <2> QED BY <1>3, <2>2 DEF IsMemory, OverridesIn, CleanAlternate
<1> QED BY <1>2, <1>3

\* A command is saved whose override, if it is one, has been put.
LEMMA SaveKeeps ==
  ASSUME NEW m, IsMemory(m), NEW given, OverridesIn(m, given),
         NEW c, c.type \in Types,
         c.type = "eUser" => c.adress \in Nat \ {0}
                             /\ \E v : c.payload = <<v>> /\ <<c.adress, v>> \in given
  PROVE  IsMemory(Save(m, c)) /\ OverridesIn(Save(m, c), given)
<1>1. CASE c.type \in Tables
  <2> DEFINE saved == [m.values EXCEPT ![c.type] =
                         Overwrite(@, StartIndex(m.list[c.type], c.adress), c.payload)]
  <2>1. Save(m, c) = m \/ Save(m, c) = [m EXCEPT !.values = saved]
    <3>1. CASE c.type \in DeviceTables
      BY <3>1 DEF Save, DeviceTables, UserTables
    <3>2. CASE c.type \in UserTables
      BY <3>2 DEF Save, DeviceTables, UserTables
    <3> QED BY <1>1, <3>1, <3>2 DEF Tables
  <2> HIDE DEF saved
  <2>2. IsMemory([m EXCEPT !.values = saved]) /\ OverridesIn([m EXCEPT !.values = saved], given)
    BY OtherValues
  <2> QED BY <2>1, <2>2
<1>2. CASE c.type = "eUser"
  <2>1. PICK v : c.payload = <<v>> /\ <<c.adress, v>> \in given
    BY <1>2
  <2>2. m.list["eReg"] = Registers
    BY DEF IsMemory, Registers
  <2>3. Save(m, c) = [m EXCEPT !.alternate =
          Overwrite(m.alternate, StartIndex(Registers, c.adress), <<v>>)]
    BY <1>2, <2>1, <2>2 DEF Save, DeviceTables, UserTables
  <2> QED BY <1>2, <2>1, <2>3, OneOverride
<1>3. CASE c.type = "eHeader"
  <2>1. Save(m, c) = [m EXCEPT !.values = m.values, !.headers = m.headers \cup ({c.adress} \ {LastAdress})]
    BY <1>3 DEF Save, DeviceTables, UserTables, IsMemory
  <2> QED BY <2>1, OtherFields
<1> QED BY <1>1, <1>2, <1>3 DEF Types

\* An answer of the controller leaves the overrides alone.
LEMMA SaveAnswerKeeps ==
  ASSUME NEW m, IsMemory(m), NEW given, OverridesIn(m, given),
         NEW table, NEW adress, NEW payload
  PROVE  LET new == SaveAnswer(m, table, adress, payload)
         IN IsMemory(new) /\ OverridesIn(new, given) /\ Stays(m, new)
<1> DEFINE saved == [m.values EXCEPT ![table] =
                       Overwrite(@, StartIndex(m.list[table], adress), payload)]
           headed == IF table = "eReg" /\ Len(payload) > 1
                     THEN m.headers \cup {adress} ELSE m.headers
<1>1. SaveAnswer(m, table, adress, payload) = [m EXCEPT !.values = saved, !.headers = headed]
  BY DEF SaveAnswer, IsMemory
<1> HIDE DEF saved, headed
<1> QED BY <1>1, OtherFields

\* setreg and setcoil.
LEMMA PutKeeps ==
  ASSUME NEW m, IsMemory(m), NEW given, OverridesIn(m, given),
         NEW table, NEW adress \in Nat, NEW v \in Nat, <<adress, v>> \in given
  PROVE  LET new == Put(m, table, adress, v)
         IN IsMemory(new) /\ OverridesIn(new, given) /\ Stays(m, new)
<1> DEFINE user == IF table = "eReg" THEN "eUserReg" ELSE "eUserCoil"
           saved == [m.values EXCEPT ![user] =
                       Overwrite(@, StartIndex(m.list[user], adress), <<v>>)]
           over == [m EXCEPT !.alternate =
                      Overwrite(m.alternate, StartIndex(Registers, adress), <<v>>)]
<1>1. \/ Put(m, table, adress, v) = m
      \/ Put(m, table, adress, v) = [m EXCEPT !.values = saved]
      \/ adress > 0 /\ Put(m, table, adress, v) = over
  BY DEF Put, IsMemory, Registers
<1>2. adress > 0 => IsMemory(over) /\ OverridesIn(over, given) /\ Stays(m, over)
  BY OneOverride DEF None
<1> HIDE DEF saved, over
<1>3. /\ IsMemory([m EXCEPT !.values = saved]) /\ OverridesIn([m EXCEPT !.values = saved], given)
      /\ Stays(m, [m EXCEPT !.values = saved])
  BY OtherValues
<1>4. Stays(m, m)
  BY DEF Stays
<1> QED BY <1>1, <1>2, <1>3, <1>4

\* setreg32
LEMMA Put32Keeps ==
  ASSUME NEW m, IsMemory(m), NEW given, OverridesIn(m, given),
         NEW adress \in Nat, NEW v \in Nat,
         <<adress, v>> \in given, <<adress + 1, v>> \in given
  PROVE  LET new == Put32(m, adress, v, v)
         IN IsMemory(new) /\ OverridesIn(new, given) /\ Stays(m, new)
<1> DEFINE n0 == StartIndex(m.list["eUserReg"], adress)
           saved == [m.values EXCEPT !["eUserReg"] = Overwrite(@, n0, <<v, v>>)]
           over == [m EXCEPT !.alternate =
                      Overwrite(m.alternate, StartIndex(Registers, adress), <<v, v>>)]
<1>1. \/ Put32(m, adress, v, v) = m
      \/ Put32(m, adress, v, v) = [m EXCEPT !.values = saved]
      \/ /\ adress > 0 /\ Put32(m, adress, v, v) = over
         /\ StartIndex(Registers, adress) # NotFound
         /\ StartIndex(Registers, adress + 1) # NotFound
  BY DEF Put32, IsMemory, Registers
<1>2. /\ adress > 0
      /\ StartIndex(Registers, adress) # NotFound
      /\ StartIndex(Registers, adress + 1) # NotFound
      => IsMemory(over) /\ OverridesIn(over, given) /\ Stays(m, over)
  <2> SUFFICES ASSUME adress > 0,
                      StartIndex(Registers, adress) # NotFound,
                      StartIndex(Registers, adress + 1) # NotFound
               PROVE  IsMemory(over) /\ OverridesIn(over, given) /\ Stays(m, over)
    OBVIOUS
  <2>1. adress \in Nat \ {0} /\ v # None
    BY DEF None
  <2>2. over = [m EXCEPT !.alternate =
                  Overwrite(m.alternate, StartIndex(Registers, adress), <<v, v>>)]
    OBVIOUS
  <2> HIDE DEF over
  <2> QED BY <2>1, <2>2, TwoOverrides
<1> HIDE DEF saved, over
<1>3. /\ IsMemory([m EXCEPT !.values = saved]) /\ OverridesIn([m EXCEPT !.values = saved], given)
      /\ Stays(m, [m EXCEPT !.values = saved])
  BY OtherValues
<1>4. Stays(m, m)
  BY DEF Stays
<1> QED BY <1>1, <1>2, <1>3, <1>4
-----------------------------------------------------------------------------
(* Values of registers.                                                    *)

LEMMA RegistersAscend == Ascending(Registers)
<1>1. List["eReg"] \in Seq(0..(LastAdress - 1))
      /\ \A j, k \in DOMAIN List["eReg"] : j < k => List["eReg"][j] < List["eReg"][k]
  BY MirrorAssumption DEF Tables, DeviceTables
<1>2. 0..(LastAdress - 1) \subseteq 0..LastAdress
  BY AddressesInt
<1>3. List["eReg"] \in Seq(0..LastAdress)
  BY <1>1, <1>2, SeqWider
<1> QED BY <1>1, <1>3 DEF Ascending, Registers

\* What overwriting does to one entry.
LEMMA Overwritten ==
  ASSUME NEW f, DOMAIN f = DOMAIN Registers, NEW c,
         NEW new, new = Overwrite(f, StartIndex(Registers, c.adress), c.payload)
  PROVE  \A k \in DOMAIN Registers : new[k] = IF Writes(c, k) THEN Written(c, k) ELSE f[k]
BY DEF Overwrite, Writes, Written

\* So a whole command leaves a whole table.
LEMMA OverwrittenWhole ==
  ASSUME NEW f, WholeValues(f), NEW c, c.type = "eReg", WholeCommand(c)
  PROVE  WholeValues(Overwrite(f, StartIndex(Registers, c.adress), c.payload))
<1>0. PICK new : new = Overwrite(f, StartIndex(Registers, c.adress), c.payload)
  OBVIOUS
<1>1. /\ DOMAIN f = DOMAIN Registers
      /\ \A k \in DOMAIN Registers : f[k] \in Readings
  BY DEF WholeValues
<1>2. new = [k \in DOMAIN Registers |-> new[k]]
  BY <1>0, <1>1 DEF Overwrite
<1>3. DOMAIN f = DOMAIN Registers
  BY <1>1
<1>4. \A k \in DOMAIN Registers : new[k] = IF Writes(c, k) THEN Written(c, k) ELSE f[k]
  BY <1>0, <1>3, Overwritten
<1>5. \A k \in DOMAIN Registers : new[k] \in Readings
  BY <1>1, <1>4 DEF WholeCommand
<1>6. \A i, k \in DOMAIN Registers : Pair(i, k) => new[i] = new[k]
  BY <1>4 DEF WholeCommand, WholeValues
<1>7. new \in [DOMAIN Registers -> Readings]
  BY <1>2, <1>5
<1> QED BY <1>0, <1>6, <1>7 DEF WholeValues

\* The registers after one table has changed.
LEMMA TableChanged ==
  ASSUME NEW m, IsMemory(m), "eReg" \in DOMAIN m.values, NEW t, NEW x, NEW new,
         new.values = [m.values EXCEPT ![t] = x]
  PROVE  /\ "eReg" \in DOMAIN new.values
         /\ t # "eReg" => new.values["eReg"] = m.values["eReg"]
         /\ t = "eReg" => new.values["eReg"] = x
OBVIOUS

\* The server saves a command.
LEMMA SavedRegisters ==
  ASSUME NEW m, IsMemory(m), "eReg" \in DOMAIN m.values, NEW c, c.type \in Types
  PROVE  /\ "eReg" \in DOMAIN Save(m, c).values
         /\ c.type # "eReg" => Save(m, c).values["eReg"] = m.values["eReg"]
         /\ c.type = "eReg" => Save(m, c).values["eReg"] =
              Overwrite(m.values["eReg"], StartIndex(Registers, c.adress), c.payload)
         /\ c.type # "eHeader" => Save(m, c).headers = m.headers
         /\ c.type = "eHeader" => Save(m, c).headers = m.headers \cup ({c.adress} \ {LastAdress})
<1> DEFINE x == Overwrite(m.values[c.type], StartIndex(m.list[c.type], c.adress), c.payload)
           new == [m EXCEPT !.values = [m.values EXCEPT ![c.type] = x]]
<1>1. CASE c.type \in Tables
  <2>1. Save(m, c) = new \/ (Save(m, c) = m /\ c.type # "eReg")
    BY <1>1 DEF Save, Tables, DeviceTables, UserTables
  <2>2. new.values = [m.values EXCEPT ![c.type] = x] /\ new.headers = m.headers
    BY DEF IsMemory
  <2>3. c.type = "eReg" => x = Overwrite(m.values["eReg"], StartIndex(Registers, c.adress), c.payload)
    BY DEF IsMemory, Registers
  <2>4. c.type # "eHeader"
    BY <1>1 DEF Tables, DeviceTables, UserTables
  <2> HIDE DEF new, x
  <2> QED BY <2>1, <2>2, <2>3, <2>4, TableChanged
<1>2. CASE c.type = "eUser"
  <2>1. Save(m, c).values = m.values /\ Save(m, c).headers = m.headers
    BY <1>2 DEF Save, DeviceTables, UserTables, IsMemory
  <2> QED BY <1>2, <2>1
<1>3. CASE c.type = "eHeader"
  <2>1. /\ Save(m, c).values = m.values
        /\ Save(m, c).headers = m.headers \cup ({c.adress} \ {LastAdress})
    BY <1>3 DEF Save, DeviceTables, UserTables, IsMemory
  <2> QED BY <1>3, <2>1
<1> QED BY <1>1, <1>2, <1>3 DEF Types

\* The client saves an answer.
LEMMA AnsweredRegisters ==
  ASSUME NEW m, IsMemory(m), "eReg" \in DOMAIN m.values, NEW table, NEW adress, NEW payload
  PROVE  LET new == SaveAnswer(m, table, adress, payload)
         IN /\ "eReg" \in DOMAIN new.values
            /\ table # "eReg" => new.values["eReg"] = m.values["eReg"] /\ new.headers = m.headers
            /\ table = "eReg" =>
                 /\ new.values["eReg"] =
                      Overwrite(m.values["eReg"], StartIndex(Registers, adress), payload)
                 /\ new.headers = m.headers \/ new.headers = m.headers \cup {adress}
<1> DEFINE x == Overwrite(m.values[table], StartIndex(m.list[table], adress), payload)
           new == SaveAnswer(m, table, adress, payload)
<1>1. new.values = [m.values EXCEPT ![table] = x]
  BY DEF SaveAnswer, IsMemory
<1>2. /\ new.headers = m.headers \/ (table = "eReg" /\ new.headers = m.headers \cup {adress})
  BY DEF SaveAnswer, IsMemory
<1>3. table = "eReg" => x = Overwrite(m.values["eReg"], StartIndex(Registers, adress), payload)
  BY DEF IsMemory, Registers
<1> HIDE DEF new, x
<1>4. /\ "eReg" \in DOMAIN new.values
      /\ table # "eReg" => new.values["eReg"] = m.values["eReg"]
      /\ table = "eReg" => new.values["eReg"] = x
  BY <1>1, TableChanged
<1> QED BY <1>2, <1>3, <1>4 DEF new

\* Users put nothing into the tables of the controller.
LEMMA PutRegisters ==
  ASSUME NEW m, IsMemory(m), "eReg" \in DOMAIN m.values, NEW new,
         \/ \E table, adress, v : new = Put(m, table, adress, v)
         \/ \E adress, v : new = Put32(m, adress, v, v)
  PROVE  /\ "eReg" \in DOMAIN new.values /\ new.values["eReg"] = m.values["eReg"]
         /\ new.headers = m.headers
<1> DEFINE Kept == /\ "eReg" \in DOMAIN new.values /\ new.values["eReg"] = m.values["eReg"]
                   /\ new.headers = m.headers
<1>1. ASSUME NEW t \in UserTables, NEW x, new = [m EXCEPT !.values = [m.values EXCEPT ![t] = x]]
      PROVE  Kept
  <2>1. new.values = [m.values EXCEPT ![t] = x] /\ new.headers = m.headers /\ t # "eReg"
    BY <1>1 DEF IsMemory, UserTables
  <2> QED BY <2>1, TableChanged
<1>2. ASSUME NEW x, new = [m EXCEPT !.alternate = x] PROVE Kept
  BY <1>2 DEF IsMemory
<1>3. new = m => Kept
  OBVIOUS
<1>4. "eUserReg" \in UserTables /\ "eUserCoil" \in UserTables
  BY DEF UserTables
<1> HIDE DEF Kept
<1>5. ASSUME NEW table, NEW adress, NEW v, new = Put(m, table, adress, v) PROVE Kept
  <2> DEFINE user == IF table = "eReg" THEN "eUserReg" ELSE "eUserCoil"
             x == Overwrite(m.values[user], StartIndex(m.list[user], adress), <<v>>)
             y == Overwrite(m.alternate, StartIndex(m.list["eReg"], adress), <<v>>)
  <2>1. \/ new = m \/ new = [m EXCEPT !.values = [m.values EXCEPT ![user] = x]]
        \/ new = [m EXCEPT !.alternate = y]
    BY <1>5 DEF Put
  <2>2. user \in UserTables
    BY <1>4
  <2> HIDE DEF user, x, y
  <2>3. CASE new = [m EXCEPT !.values = [m.values EXCEPT ![user] = x]]
    BY <1>1, <2>2, <2>3
  <2>4. CASE new = [m EXCEPT !.alternate = y]
    BY <1>2, <2>4
  <2> QED BY <1>3, <2>1, <2>3, <2>4
<1>6. ASSUME NEW adress, NEW v, new = Put32(m, adress, v, v) PROVE Kept
  <2> DEFINE x == Overwrite(m.values["eUserReg"], StartIndex(m.list["eUserReg"], adress), <<v, v>>)
             y == Overwrite(m.alternate, StartIndex(m.list["eReg"], adress), <<v, v>>)
  <2>1. \/ new = m \/ new = [m EXCEPT !.values = [m.values EXCEPT !["eUserReg"] = x]]
        \/ new = [m EXCEPT !.alternate = y]
    BY <1>6 DEF Put32
  <2> HIDE DEF x, y
  <2>2. CASE new = [m EXCEPT !.values = [m.values EXCEPT !["eUserReg"] = x]]
    BY <1>1, <1>4, <2>2
  <2>3. CASE new = [m EXCEPT !.alternate = y]
    BY <1>2, <2>3
  <2> QED BY <1>3, <2>1, <2>2, <2>3
<1>7. Kept
  BY <1>5, <1>6
<1> QED BY <1>7 DEF Kept

-----------------------------------------------------------------------------
(* Blocks and ranges.                                                      *)

\* A 32 bit value is in a block or a range as a whole.
LEMMA WideWhole ==
  ASSUME NEW low \in Wide
  PROVE  /\ low \in Nat
         /\ \A block \in Blocks : (\E i \in DOMAIN block : block[i] = low)
                               <=> (\E i \in DOMAIN block : block[i] = low + 1)
         /\ \A k \in DOMAIN Registers : Registers[k] = low =>
              \E block \in Blocks : \E i \in DOMAIN block : block[i] = low
         /\ \A r \in DOMAIN Realtime : low \in Realtime[r][1]..Realtime[r][2]
                                     <=> low + 1 \in Realtime[r][1]..Realtime[r][2]
         /\ \A k \in DOMAIN List["eUserReg"] : List["eUserReg"][k] # low
BY WideAssumption DEF Registers

\* The index of an address is that of its entry.
LEMMA FoundIndex ==
  /\ DOMAIN Registers = 1..Len(Registers) /\ Len(Registers) \in Nat
  /\ \A k \in DOMAIN Registers : k \in Nat /\ Registers[k] \in Nat \ {0}
  /\ \A j, k \in DOMAIN Registers : Registers[j] = Registers[k] => j = k
  /\ \A k \in DOMAIN Registers : StartIndex(Registers, Registers[k]) = k
<1>1. DOMAIN Registers = 1..Len(Registers) /\ Len(Registers) \in Nat
  BY RegistersSorted
<1>2. \A k \in DOMAIN Registers : k \in Nat /\ Registers[k] \in Nat \ {0}
  BY <1>1, RegistersSorted
<1>3. ASSUME NEW j \in DOMAIN Registers, NEW k \in DOMAIN Registers, Registers[j] = Registers[k]
      PROVE  j = k
  <2>1. ~(j < k) /\ ~(k < j)
    BY <1>2, <1>3, RegistersSorted
  <2> QED BY <1>2, <2>1
<1>4. ASSUME NEW k \in DOMAIN Registers PROVE StartIndex(Registers, Registers[k]) = k
  <2>1. StartIndex(Registers, Registers[k]) = CHOOSE j \in DOMAIN Registers : Registers[j] = Registers[k]
    BY <1>2 DEF StartIndex
  <2>2. PICK j \in DOMAIN Registers :
          j = (CHOOSE i \in DOMAIN Registers : Registers[i] = Registers[k]) /\ Registers[j] = Registers[k]
    OBVIOUS
  <2> QED BY <1>3, <2>1, <2>2
<1> QED BY <1>1, <1>2, <1>3, <1>4

\* A block is a part of the table.
LEMMA BlockEntries ==
  ASSUME NEW block \in Blocks
  PROVE  \E j, l \in DOMAIN Registers :
           /\ j <= l /\ j \in Nat /\ l \in Nat
           /\ Len(block) = l - j + 1 /\ DOMAIN block = 1..(l - j + 1)
           /\ \A i \in DOMAIN block : block[i] = Registers[j + i - 1]
           /\ StartIndex(Registers, block[1]) = j
           /\ \A k \in DOMAIN Registers : Within(block, k) <=> k \in j..l
<1>1. PICK j \in DOMAIN Registers, l \in DOMAIN Registers :
        j <= l /\ block = SubSeq(Registers, j, l)
  BY MirrorAssumption DEF Registers
<1>2. j \in Nat /\ l \in Nat
  BY FoundIndex
<1>3. \A i \in j..l : i \in DOMAIN Registers
  BY <1>2, FoundIndex
<1>4. /\ block \in Seq(Nat) /\ Len(block) = l - j + 1
      /\ \A i \in 1..(l - j + 1) : block[i] = Registers[j + i - 1]
  <2>1. \A i \in j..l : Registers[i] \in Nat
    BY <1>3, FoundIndex
  <2> QED BY <1>1, <1>2, <2>1, SubSeqProperties
<1>5. DOMAIN block = 1..(l - j + 1)
  BY <1>4
<1>6. block[1] = Registers[j]
  BY <1>1, <1>2, <1>4
<1>7. StartIndex(Registers, block[1]) = j
  BY <1>6, FoundIndex
<1>8. ASSUME NEW k \in DOMAIN Registers PROVE Within(block, k) <=> k \in j..l
  <2>1. k \in Nat
    BY FoundIndex
  <2>2. ASSUME NEW i \in DOMAIN block, block[i] = Registers[k] PROVE k \in j..l
    <3>1. j + i - 1 \in j..l
      BY <1>2, <1>5
    <3>2. Registers[j + i - 1] = Registers[k] /\ j + i - 1 \in DOMAIN Registers
      BY <1>3, <1>4, <1>5, <2>2, <3>1
    <3>3. k = j + i - 1
      BY <3>2, FoundIndex
    <3> QED BY <3>1, <3>3
  <2>3. ASSUME k \in j..l PROVE \E i \in DOMAIN block : block[i] = Registers[k]
    <3>1. k - j + 1 \in DOMAIN block /\ j + (k - j + 1) - 1 = k
      BY <1>2, <1>5, <2>1, <2>3
    <3> QED BY <1>4, <1>5, <3>1
  <2> QED BY <2>2, <2>3 DEF Within
<1> QED BY <1>1, <1>2, <1>4, <1>5, <1>7, <1>8

\* An answer for a block writes the registers of the block.
LEMMA BlockWritten ==
  ASSUME NEW block \in Blocks, NEW c, c.adress = block[1], Len(c.payload) = Len(block)
  PROVE  \A k \in DOMAIN Registers :
           /\ Writes(c, k) <=> Within(block, k)
           /\ Writes(c, k) => k - StartIndex(Registers, c.adress) + 1 \in 1..Len(block)
<1>1. PICK j \in DOMAIN Registers, l \in DOMAIN Registers :
           /\ j <= l /\ j \in Nat /\ l \in Nat
           /\ Len(block) = l - j + 1
           /\ StartIndex(Registers, block[1]) = j
           /\ \A k \in DOMAIN Registers : Within(block, k) <=> k \in j..l
  BY BlockEntries
<1>2. j # NotFound
  BY FoundIndex DEF NotFound
<1>3. \A k \in DOMAIN Registers : Writes(c, k) <=> k \in j..l
  BY <1>1, <1>2 DEF Writes
<1>4. ASSUME NEW k \in DOMAIN Registers, k \in j..l
      PROVE  k - StartIndex(Registers, c.adress) + 1 \in 1..Len(block)
  BY <1>1, <1>4
<1> QED BY <1>1, <1>3, <1>4

\* It holds the halves of a 32 bit value both or not at all.
LEMMA BlockWhole ==
  ASSUME NEW block \in Blocks, NEW reading \in 0..MaxReads, NEW c,
         c.adress = block[1], c.payload = [k \in 1..Len(block) |-> reading]
  PROVE  /\ WholeCommand(c)
         /\ \A k \in DOMAIN Registers : Writes(c, k) <=> Within(block, k)
         /\ \A k \in DOMAIN Registers : Writes(c, k) => Written(c, k) = reading
<1>1. Len(block) \in Nat
  <2>1. PICK j \in DOMAIN Registers, l \in DOMAIN Registers :
          j <= l /\ j \in Nat /\ l \in Nat /\ Len(block) = l - j + 1
    BY BlockEntries
  <2> QED BY <2>1
<1>2. Len(c.payload) = Len(block)
  BY <1>1
<1>3. \A k \in DOMAIN Registers :
        /\ Writes(c, k) <=> Within(block, k)
        /\ Writes(c, k) => k - StartIndex(Registers, c.adress) + 1 \in 1..Len(block)
  BY <1>2, BlockWritten
<1>4. \A k \in DOMAIN Registers : Writes(c, k) => Written(c, k) = reading
  BY <1>3 DEF Written
<1>5. ASSUME NEW i \in DOMAIN Registers, NEW k \in DOMAIN Registers, Pair(i, k)
      PROVE  Within(block, i) <=> Within(block, k)
  BY <1>5, WideWhole DEF Pair, Within
<1> QED BY <1>3, <1>4, <1>5 DEF WholeCommand, Readings

\* What the controller is asked for: a block, or a register by itself.
Asks(adress, length) ==
  \/ \E block \in Blocks : adress = block[1] /\ length = Len(block)
  \/ \E k \in DOMAIN Registers : adress = Registers[k] /\ Single(adress) /\ length = 1

\* An answer for a single register writes this register, which is no half of a value.
LEMMA SingleWhole ==
  ASSUME NEW at \in DOMAIN Registers, Single(Registers[at]), NEW reading \in 0..MaxReads, NEW c,
         c.adress = Registers[at], c.payload = [k \in 1..1 |-> reading]
  PROVE  /\ WholeCommand(c)
         /\ \A k \in DOMAIN Registers : Writes(c, k) => Written(c, k) = reading
<1>1. StartIndex(Registers, c.adress) = at /\ at \in Nat /\ at # NotFound
  BY FoundIndex DEF NotFound
<1>2. Len(c.payload) = 1 /\ c.payload[1] = reading
  OBVIOUS
<1>3. \A k \in DOMAIN Registers : Writes(c, k) <=> k = at
  BY <1>1, <1>2, FoundIndex DEF Writes
<1>4. \A k \in DOMAIN Registers : Writes(c, k) => Written(c, k) = reading
  <2>1. at - at + 1 = 1
    BY <1>1
  <2> QED BY <1>1, <1>2, <1>3, <2>1 DEF Written
<1>5. ASSUME NEW i \in DOMAIN Registers, NEW k \in DOMAIN Registers, Pair(i, k)
      PROVE  i # at /\ k # at
  <2>1. PICK low : low \in Wide /\ Registers[i] = low /\ Registers[k] = low + 1
    BY <1>5 DEF Pair
  <2>2. PICK block \in Blocks : \E j \in DOMAIN block : block[j] = low
    BY <2>1, WideWhole
  <2>3. \E j \in DOMAIN block : block[j] = low + 1
    BY <2>1, <2>2, WideWhole
  <2> QED BY <2>1, <2>2, <2>3 DEF Single
<1> QED BY <1>3, <1>4, <1>5 DEF WholeCommand, Readings

\* So an answer for registers leaves values whole, and brings all of a block it is for.
LEMMA AnswerWrites ==
  ASSUME NEW reading \in 0..MaxReads, NEW c, NEW length, Asks(c.adress, length),
         c.payload = [k \in 1..length |-> reading]
  PROVE  /\ WholeCommand(c)
         /\ \A k \in DOMAIN Registers : Writes(c, k) => Written(c, k) = reading
         /\ \A block \in Blocks : block[1] = c.adress =>
              \A k \in DOMAIN Registers : Within(block, k) => Writes(c, k)
<1>1. ASSUME NEW answered \in Blocks, c.adress = answered[1], length = Len(answered)
      PROVE  /\ WholeCommand(c)
             /\ \A k \in DOMAIN Registers : Writes(c, k) <=> Within(answered, k)
             /\ \A k \in DOMAIN Registers : Writes(c, k) => Written(c, k) = reading
  <2>1. c.adress = answered[1] /\ c.payload = [k \in 1..Len(answered) |-> reading]
    BY <1>1
  <2> QED BY <2>1, BlockWhole
<1>2. ASSUME NEW answered \in Blocks, NEW block \in Blocks, answered[1] = block[1]
      PROVE  answered = block
  BY <1>2, WideAssumption
<1>3. ASSUME NEW at \in DOMAIN Registers, c.adress = Registers[at], Single(c.adress), length = 1
      PROVE  /\ WholeCommand(c)
             /\ \A k \in DOMAIN Registers : Writes(c, k) => Written(c, k) = reading
  <2>1. Single(Registers[at]) /\ c.adress = Registers[at] /\ c.payload = [k \in 1..1 |-> reading]
    BY <1>3
  <2> QED BY <2>1, SingleWhole
<1>4. ASSUME NEW block \in Blocks, Single(c.adress) PROVE block[1] # c.adress
  <2>1. 1 \in DOMAIN block
    <3>1. PICK j \in Nat, l \in Nat : j <= l /\ DOMAIN block = 1..(l - j + 1)
      BY BlockEntries
    <3> QED BY <3>1
  <2> QED BY <1>4, <2>1 DEF Single
<1>5. CASE \E answered \in Blocks : c.adress = answered[1] /\ length = Len(answered)
  BY <1>1, <1>2, <1>5
<1>6. CASE \E at \in DOMAIN Registers : c.adress = Registers[at] /\ Single(c.adress) /\ length = 1
  BY <1>3, <1>4, <1>6
<1> QED BY <1>5, <1>6 DEF Asks

\* What Span takes from an ascending table.
LEMMA RangeTaken ==
  ASSUME NEW f, DOMAIN f = DOMAIN Registers, NEW from \in Nat, NEW to \in Nat,
         StartIndex(Registers, from) # NotFound, NEW span, span = Span(Registers, f, from, to)
  PROVE  /\ span = <<>> => \A k \in DOMAIN Registers : Registers[k] \notin from..to
         /\ span # <<>> => \A c : c.adress = from /\ c.payload = span =>
              \A k \in DOMAIN Registers :
                /\ Writes(c, k) <=> Registers[k] \in from..to
                /\ Writes(c, k) => Written(c, k) = f[k]
<1> DEFINE first == StartIndex(Registers, from)
           last == LastIndex(Registers, to)
<1>0. Bounds(Registers, from, to, first, last) /\ span = SubSeq(f, first, last)
  <2>1. to \in Int
    OBVIOUS
  <2> QED BY <2>1, RegistersAscend, SpanTakes
<1>00. first = StartIndex(Registers, from)
  OBVIOUS
<1> HIDE DEF first, last
<1>1. /\ first \in Nat \ {0} /\ last \in 0..Len(Registers)
      /\ first = StartIndex(Registers, from)
      /\ from # 0 => first \in DOMAIN Registers /\ Registers[first] = from
      /\ \A k \in DOMAIN Registers : k <= last <=> Registers[k] <= to
      /\ span = SubSeq(f, first, last)
  BY <1>0 DEF Bounds
<1>2. first \in Nat /\ last \in Nat /\ first > 0 /\ last <= Len(Registers)
  BY <1>1, FoundIndex
<1>3. \A k \in first..last : k \in DOMAIN Registers
  BY <1>2, FoundIndex
<1>4. ASSUME NEW k \in DOMAIN Registers PROVE first <= k <=> from <= Registers[k]
  <2>1. k \in Nat /\ k > 0 /\ Registers[k] \in Nat
    BY FoundIndex
  <2>2. CASE from = 0
    <3>1. first = 1
      BY <1>1, <2>2 DEF StartIndex
    <3> QED BY <2>1, <2>2, <3>1
  <2>3. CASE from # 0
    <3>1. first \in DOMAIN Registers /\ Registers[first] = from
      BY <1>1, <2>3
    <3>2. /\ first < k => from < Registers[k]
          /\ k < first => Registers[k] < from
          /\ k = first => Registers[k] = from
      BY <3>1, RegistersSorted
    <3> QED BY <1>2, <2>1, <3>2
  <2> QED BY <2>2, <2>3
<1>5. ASSUME NEW k \in DOMAIN Registers
      PROVE  Registers[k] \in from..to <=> k \in first..last
  <2>1. k \in Nat /\ Registers[k] \in Nat /\ (k <= last <=> Registers[k] <= to)
    BY <1>1, FoundIndex
  <2> QED BY <1>2, <1>4, <2>1
<1>6. /\ Len(span) = IF first <= last THEN last - first + 1 ELSE 0
      /\ \A i \in 1..(last - first + 1) : span[i] = f[first + i - 1]
      /\ span = <<>> <=> Len(span) = 0
  <2>1. PICK S : S = {f[j] : j \in DOMAIN Registers}
    OBVIOUS
  <2>2. \A i \in first..last : f[i] \in S
    BY <1>3, <2>1
  <2>3. first \in Int /\ last \in Int
    BY <1>2
  <2>4. /\ span \in Seq(S)
        /\ Len(span) = IF first <= last THEN last - first + 1 ELSE 0
        /\ \A i \in 1..(last - first + 1) : span[i] = f[first + i - 1]
    BY <1>1, <2>2, <2>3, SubSeqProperties
  <2>5. span = <<>> <=> Len(span) = 0
    BY <2>4, EmptySeq
  <2> QED BY <2>4, <2>5
<1>7. ASSUME span = <<>> PROVE \A k \in DOMAIN Registers : Registers[k] \notin from..to
  <2>1. ~(first <= last)
    BY <1>2, <1>6, <1>7
  <2>2. \A k \in DOMAIN Registers : k \notin first..last
    BY <1>2, <2>1, FoundIndex
  <2> QED BY <1>5, <2>2
<1>8. ASSUME span # <<>>, NEW c, c.adress = from, c.payload = span, NEW k \in DOMAIN Registers
      PROVE  /\ Writes(c, k) <=> Registers[k] \in from..to
             /\ Writes(c, k) => Written(c, k) = f[k]
  <2>1. first <= last /\ first + Len(span) - 1 = last
    BY <1>2, <1>6, <1>8
  <2>2. Writes(c, k) <=> k \in first..last
    BY <1>1, <1>8, <2>1 DEF Writes
  <2>3. ASSUME k \in first..last PROVE Written(c, k) = f[k]
    <3>1. k - first + 1 \in 1..(last - first + 1) /\ first + (k - first + 1) - 1 = k
      BY <1>2, <2>3
    <3>2. span[k - first + 1] = f[k]
      BY <1>6, <3>1
    <3> QED BY <1>1, <1>8, <3>2 DEF Written
  <2> QED BY <1>5, <2>2, <2>3
<1> QED BY <1>7, <1>8

LEMMA Gathered ==
  ASSUME NEW m, IsMemory(m), DOMAIN m.values["eReg"] = DOMAIN Registers,
         NEW call, call.type = "eReg", call.from \in Nat, call.to \in Nat
  PROVE  \/ /\ Commands(m, call) = <<>>
            /\ \A k \in DOMAIN Registers :
                 StartIndex(Registers, call.from) # NotFound => Registers[k] \notin call.from..call.to
         \/ \E c : /\ Commands(m, call) = <<c>> /\ c.type = "eReg"
                   /\ \A k \in DOMAIN Registers :
                        /\ Writes(c, k) <=> Registers[k] \in call.from..call.to
                        /\ Writes(c, k) => Written(c, k) = m.values["eReg"][k]
<1> DEFINE f == m.values["eReg"]
           span == Span(Registers, f, call.from, call.to)
           c == [type |-> "eReg", adress |-> call.from, payload |-> span]
<1>1. Commands(m, call) = IF span = <<>> THEN <<>> ELSE <<c>>
  BY DEF Commands, IsMemory, Registers, UserTables
<1>2. c.adress = call.from /\ c.payload = span /\ c.type = "eReg"
  OBVIOUS
<1>3. StartIndex(Registers, call.from) = NotFound => span = <<>>
  BY DEF Span
<1>4. ASSUME StartIndex(Registers, call.from) # NotFound
      PROVE  /\ span = <<>> => \A k \in DOMAIN Registers : Registers[k] \notin call.from..call.to
             /\ span # <<>> =>
                  \A k \in DOMAIN Registers :
                    /\ Writes(c, k) <=> Registers[k] \in call.from..call.to
                    /\ Writes(c, k) => Written(c, k) = f[k]
  <2>1. PICK from, to, g, taken : from = call.from /\ to = call.to /\ g = f /\ taken = span
    OBVIOUS
  <2>2. DOMAIN g = DOMAIN Registers /\ from \in Nat /\ to \in Nat
    BY <2>1
  <2>3. StartIndex(Registers, from) # NotFound /\ taken = Span(Registers, g, from, to)
    BY <1>4, <2>1
  <2>4. c.adress = from /\ c.payload = taken
    BY <1>2, <2>1
  <2> HIDE DEF c, span, f
  <2>5. /\ taken = <<>> => \A k \in DOMAIN Registers : Registers[k] \notin from..to
        /\ taken # <<>> =>
             \A k \in DOMAIN Registers :
               /\ Writes(c, k) <=> Registers[k] \in from..to
               /\ Writes(c, k) => Written(c, k) = g[k]
    BY <2>2, <2>3, <2>4, RangeTaken
  <2> QED BY <2>1, <2>5
<1> HIDE DEF c, span, f
<1>5. CASE span = <<>>
  BY <1>1, <1>4, <1>5
<1>6. CASE span # <<>>
  <2>1. Commands(m, call) = <<c>> /\ StartIndex(Registers, call.from) # NotFound
    BY <1>1, <1>3, <1>6
  <2> QED BY <1>2, <1>4, <1>6, <2>1 DEF f
<1> QED BY <1>5, <1>6

\* A call for registers makes a whole command.
LEMMA GatheredWhole ==
  ASSUME NEW m, IsMemory(m), WholeMemory(m), NEW call, CallOK(call),
         NEW c, Commands(m, call) = <<c>>
  PROVE  WholeCommand(c)
<1>1. CASE call.type # "eReg"
  <2>1. ASSUME NEW adress, NEW payload,
               Commands(m, call) = <<[type |-> call.type, adress |-> adress, payload |-> payload]>>
        PROVE  c.type = call.type
    BY <2>1
  <2>2. c.type = call.type
    BY <2>1 DEF Commands
  <2> QED BY <1>1, <2>2 DEF WholeCommand
<1>2. CASE call.type = "eReg"
  <2>1. WholeRange(call.from, call.to)
    BY <1>2 DEF CallOK
  <2>2. /\ DOMAIN m.values["eReg"] = DOMAIN Registers
        /\ \A k \in DOMAIN Registers : m.values["eReg"][k] \in Readings
        /\ \A i, k \in DOMAIN Registers : Pair(i, k) => m.values["eReg"][i] = m.values["eReg"][k]
    BY DEF WholeMemory, WholeValues
  <2>3. PICK d : Commands(m, call) = <<d>> /\ d.type = "eReg"
                 /\ \A k \in DOMAIN Registers :
                      /\ Writes(d, k) <=> Registers[k] \in call.from..call.to
                      /\ Writes(d, k) => Written(d, k) = m.values["eReg"][k]
    BY <1>2, <2>1, <2>2, Gathered DEF WholeRange
  <2>4. c = d
    BY <2>3
  <2> QED BY <2>1, <2>2, <2>3, <2>4 DEF WholeCommand, WholeRange
<1> QED BY <1>1, <1>2

-----------------------------------------------------------------------------
(* Whole memories.                                                         *)

\* The client saves an answer.
LEMMA AnswerWhole ==
  ASSUME NEW m, IsMemory(m), WholeMemory(m), NEW table, NEW adress, NEW payload,
         NEW reading \in 0..MaxReads, NEW length, payload = [k \in 1..length |-> reading],
         table = "eReg" => Asks(adress, length)
  PROVE  WholeMemory(SaveAnswer(m, table, adress, payload))
<1> DEFINE c == [type |-> "eReg", adress |-> adress, payload |-> payload]
<1>1. c.type = "eReg" /\ c.adress = adress /\ c.payload = payload
  OBVIOUS
<1> HIDE DEF c
<1>2. ASSUME table = "eReg" PROVE WholeCommand(c)
  <2>1. Asks(c.adress, length) /\ c.payload = [k \in 1..length |-> reading]
    BY <1>1, <1>2
  <2> QED BY <2>1, AnswerWrites
<1>3. PICK f : f = m.values["eReg"] /\ WholeValues(f) /\ "eReg" \in DOMAIN m.values
  BY DEF WholeMemory
<1>4. table = "eReg" => WholeValues(Overwrite(f, StartIndex(Registers, adress), payload))
  BY <1>1, <1>2, <1>3, OverwrittenWhole
<1>5. PICK new : new = SaveAnswer(m, table, adress, payload)
  OBVIOUS
<1>6. /\ "eReg" \in DOMAIN new.values
      /\ table # "eReg" => new.values["eReg"] = f
      /\ table = "eReg" => new.values["eReg"] = Overwrite(f, StartIndex(Registers, adress), payload)
  BY <1>3, <1>5, AnsweredRegisters
<1>7. WholeMemory(new)
  BY <1>3, <1>4, <1>6 DEF WholeMemory
<1> QED BY <1>5, <1>7

\* The server saves a command.
LEMMA SavedWhole ==
  ASSUME NEW m, IsMemory(m), WholeMemory(m), NEW c, c.type \in Types, WholeCommand(c)
  PROVE  WholeMemory(Save(m, c))
<1>1. PICK f : f = m.values["eReg"] /\ WholeValues(f) /\ "eReg" \in DOMAIN m.values
  BY DEF WholeMemory
<1>2. c.type = "eReg" => WholeValues(Overwrite(f, StartIndex(Registers, c.adress), c.payload))
  BY <1>1, OverwrittenWhole
<1>3. PICK new : new = Save(m, c)
  OBVIOUS
<1>4. /\ "eReg" \in DOMAIN new.values
      /\ c.type # "eReg" => new.values["eReg"] = f
      /\ c.type = "eReg" => new.values["eReg"] = Overwrite(f, StartIndex(Registers, c.adress), c.payload)
  BY <1>1, <1>3, SavedRegisters
<1>5. WholeMemory(new)
  BY <1>1, <1>2, <1>4 DEF WholeMemory
<1> QED BY <1>3, <1>5

\* A memory is wiped, or loses its overrides.
LEMMA WipedWhole ==
  ASSUME NEW m, m.list = List
  PROVE  /\ WholeMemory(Clean(m))
         /\ IsMemory(m) /\ WholeMemory(m) => WholeMemory(CleanAlternate(m))
<1>1. /\ "eReg" \in DOMAIN Clean(m).values
      /\ Clean(m).values["eReg"] = [k \in DOMAIN Registers |-> Unknown]
  BY DEF Clean, Registers, Tables, DeviceTables
<1>2. WholeMemory(Clean(m))
  BY <1>1 DEF WholeMemory, WholeValues, Readings
<1>3. IsMemory(m) => CleanAlternate(m).values = m.values
  BY DEF CleanAlternate, IsMemory
<1> QED BY <1>2, <1>3 DEF WholeMemory

\* The halves of a value, if an override is told from a reading.
LEMMA HalvesWhole ==
  ASSUME NEW m, IsMemory(m), WholeMemory(m), NEW low \in Wide,
         \A k \in DOMAIN Registers : m.alternate[k] # None =>
           m.alternate[k] \in Nat /\ MaxReads < m.alternate[k] /\ m.alternate[k] < Unknown,
         NEW halves, halves = Halves(m, low)
  PROVE  LET read == {j \in DOMAIN halves : halves[j] <= MaxReads \/ halves[j] = Unknown}
         IN read = {} \/ (read = DOMAIN halves /\ halves[1] = halves[2])
<1> DEFINE read == {j \in DOMAIN halves : halves[j] <= MaxReads \/ halves[j] = Unknown}
           first == StartIndex(Registers, low)
           next == StartIndex(Registers, low + 1)
<1>1. ~({low, low + 1} \subseteq {m.list["eUserReg"][k] : k \in DOMAIN m.list["eUserReg"]})
  BY WideWhole DEF IsMemory
<1>2. PICK f : f = m.values["eReg"] /\ WholeValues(f)
  BY DEF WholeMemory
<1>3. low \in Nat /\ MaxReads \in Nat
  BY WideWhole, MirrorAssumption
<1>4. low # 0 /\ first # NotFound /\ next # NotFound =>
        /\ first \in DOMAIN Registers /\ Registers[first] = low
        /\ next \in DOMAIN Registers /\ Registers[next] = low + 1
  BY <1>3, IndexOfAdress
<1>5. \/ halves = <<>>
      \/ /\ low # 0 /\ first # NotFound /\ next # NotFound
         /\ m.alternate[first] # None /\ m.alternate[next] # None
         /\ halves = <<m.alternate[first], m.alternate[next]>>
      \/ /\ low # 0 /\ first # NotFound /\ next # NotFound
         /\ halves = <<f[first], f[next]>>
  <2>1. m.list["eReg"] = Registers
    BY DEF IsMemory, Registers
  <2>3. CASE low = 0 \/ first = NotFound \/ next = NotFound
    BY <1>1, <2>1, <2>3 DEF Halves
  <2>4. CASE low # 0 /\ first # NotFound /\ next # NotFound /\ m.alternate[first] # None
             /\ m.alternate[next] # None
    BY <1>1, <2>1, <2>4 DEF Halves
  <2>5. CASE low # 0 /\ first # NotFound /\ next # NotFound
             /\ ~(m.alternate[first] # None /\ m.alternate[next] # None)
    BY <1>1, <1>2, <2>1, <2>5 DEF Halves
  <2> QED BY <2>3, <2>4, <2>5
<1> HIDE DEF first, next
<1>6. CASE halves = <<>>
  BY <1>6
<1>7. ASSUME m.alternate[first] # None, m.alternate[next] # None,
             first \in DOMAIN Registers, next \in DOMAIN Registers,
             halves = <<m.alternate[first], m.alternate[next]>>
      PROVE  read = {}
  <2>1. PICK a \in Nat, b \in Nat : halves = <<a, b>> /\ MaxReads < a /\ a < Unknown
                                   /\ MaxReads < b /\ b < Unknown
    BY <1>7
  <2> QED BY <1>3, <2>1 DEF Unknown
<1>8. ASSUME first \in DOMAIN Registers, Registers[first] = low,
             next \in DOMAIN Registers, Registers[next] = low + 1,
             halves = <<f[first], f[next]>>
      PROVE  read = DOMAIN halves /\ halves[1] = halves[2]
  <2>1. f[first] \in Readings /\ f[next] = f[first]
    BY <1>2, <1>8 DEF WholeValues, Pair
  <2>2. PICK v : v = f[first] /\ halves = <<v, v>>
    BY <1>8, <2>1
  <2>3. v <= MaxReads \/ v = Unknown
    BY <1>3, <2>1, <2>2 DEF Readings
  <2> QED BY <2>2, <2>3
<1> QED BY <1>4, <1>5, <1>6, <1>7, <1>8

-----------------------------------------------------------------------------
(* Plans.                                                                  *)

LEMMA NoneLeft == Len(<<>>) = 0
OBVIOUS

\* The next call of a plan, and those after it.
LEMMA PlanStep ==
  ASSUME NEW s, PlanOK(s), s # <<>>
  PROVE  /\ CallOK(Head(s)) /\ PlanOK(Tail(s))
         /\ Head(s).send # "yes" => Tail(s) # <<>>
<1>1. PICK all : s \in Seq(all) /\ \A call \in all : CallOK(call)
  BY DEF PlanOK
<1>2. /\ Head(s) \in all /\ Tail(s) \in Seq(all) /\ Len(Tail(s)) = Len(s) - 1
      /\ \A k \in 1..Len(Tail(s)) : Tail(s)[k] = s[k + 1]
      /\ Len(s) \in Nat /\ Len(s) > 0 /\ Head(s) = s[1]
  BY <1>1, HeadTailProperties, EmptySeq
<1>3. ASSUME Tail(s) # <<>> PROVE Tail(s)[Len(Tail(s))].send = "yes"
  <2>1. Len(Tail(s)) \in 1..Len(Tail(s)) /\ Len(Tail(s)) + 1 = Len(s)
    BY <1>2, <1>3, EmptySeq
  <2>2. Tail(s)[Len(Tail(s))] = s[Len(s)]
    BY <1>2, <2>1
  <2> QED BY <2>2 DEF PlanOK
<1>4. ASSUME Tail(s) = <<>> PROVE Head(s).send = "yes"
  <2>1. Len(s) = 1
    <3>1. Len(Tail(s)) = 0
      BY <1>4, NoneLeft
    <3>2. Len(Tail(s)) = Len(s) - 1 /\ Len(s) \in Nat
      BY <1>2
    <3> QED BY <3>1, <3>2
  <2> QED BY <1>2, <2>1 DEF PlanOK
<1> QED BY <1>1, <1>2, <1>3, <1>4 DEF PlanOK

\* The table lies within what is asked for by 0 and 0xFFFF.
LEMMA AllWhole == WholeRange(0, LastAdress)
<1>1. \A k \in DOMAIN Registers : Registers[k] \in 0..LastAdress
  <2>1. Registers \in Seq(0..LastAdress)
    BY RegistersAscend DEF Ascending
  <2> QED BY <2>1, SeqElements
<1>2. 0 \in Nat /\ LastAdress \in Nat
  BY DEF LastAdress
<1> QED BY <1>1, <1>2 DEF WholeRange

\* What is sent every ten minutes.
LEMMA EAllOK == PlanOK(EAll) /\ EAll # <<>>
<1>1. PICK all : all = {EAll[k] : k \in 1..9}
  OBVIOUS
<1>2. EAll \in Seq(all) /\ Len(EAll) = 9
  BY <1>1 DEF EAll
<1>3. ASSUME NEW call \in all PROVE CallOK(call)
  <2>1. call.type = "eReg" => call.from = 0 /\ call.to = LastAdress
    BY <1>1 DEF EAll, Call
  <2> QED BY <2>1, AllWhole DEF CallOK
<1>4. EAll[9].send = "yes"
  BY DEF EAll, Call
<1>5. EAll # <<>>
  BY <1>2, NoneLeft
<1>6. EAll[Len(EAll)].send = "yes"
  BY <1>2, <1>4
<1>7. \E some : EAll \in Seq(some) /\ \A call \in some : CallOK(call)
  BY <1>2, <1>3
<1> QED BY <1>5, <1>6, <1>7 DEF PlanOK

\* What is sent every minute.
LEMMA ERealtimeOK ==
  /\ PlanOK(ERealtime) /\ ERealtime # <<>>
  /\ \A j \in DOMAIN ERealtime : ERealtime[j].type # "eHeader"
<1>1. Realtime \in Seq(Nat \X Nat)
  BY WideAssumption
<1>2. PICK length \in Nat : length = Len(Realtime) /\ DOMAIN Realtime = 1..length
  BY <1>1
<1> DEFINE registers == [r \in DOMAIN Realtime |-> Call("eReg", Realtime[r][1], Realtime[r][2], "no")]
           overrides == [r \in DOMAIN Realtime |->
             Call("eUser", Realtime[r][1], Realtime[r][2], IF r = Len(Realtime) THEN "yes" ELSE "no")]
           users == <<Call("eUserReg", UserRealtime["eUserReg"][1], UserRealtime["eUserReg"][2], "yes"),
                      Call("eUserCoil", UserRealtime["eUserCoil"][1], UserRealtime["eUserCoil"][2], "yes")>>
<1>3. ERealtime = (registers \o overrides) \o users
  BY DEF ERealtime
<1>4. PICK all : all = {registers[r] : r \in DOMAIN Realtime} \cup {overrides[r] : r \in DOMAIN Realtime}
                       \cup {users[1], users[2]}
  OBVIOUS
<1>5. registers \in Seq(all) /\ overrides \in Seq(all) /\ users \in Seq(all) /\ Len(users) = 2
  <2>1. registers \in [1..length -> all] /\ overrides \in [1..length -> all]
    BY <1>2, <1>4
  <2>2. users \in Seq(all) /\ Len(users) = 2
    BY <1>4
  <2> HIDE DEF registers, overrides, users
  <2> QED BY <2>1, <2>2
<1>6. ASSUME NEW call \in all PROVE CallOK(call)
  <2>1. CASE \E r \in DOMAIN Realtime : call = registers[r]
    <3>1. PICK r \in DOMAIN Realtime : call = registers[r]
      BY <2>1
    <3>2. call.from = Realtime[r][1] /\ call.to = Realtime[r][2]
      BY <3>1 DEF Call
    <3>3. Realtime[r][1] \in Nat /\ Realtime[r][2] \in Nat
      BY <1>1, <1>2
    <3>4. ASSUME NEW i \in DOMAIN Registers, NEW k \in DOMAIN Registers, Pair(i, k)
          PROVE  Registers[i] \in Realtime[r][1]..Realtime[r][2]
                 <=> Registers[k] \in Realtime[r][1]..Realtime[r][2]
      BY <3>4, WideWhole DEF Pair
    <3> QED BY <3>2, <3>3, <3>4 DEF CallOK, WholeRange
  <2>2. CASE \E r \in DOMAIN Realtime : call = overrides[r]
    BY <2>2 DEF CallOK, Call
  <2>3. CASE call \in {users[1], users[2]}
    BY <2>3 DEF CallOK, Call
  <2> QED BY <1>4, <2>1, <2>2, <2>3
<1>11. ASSUME NEW call \in all PROVE call.type # "eHeader"
  <2>1. CASE \E r \in DOMAIN Realtime : call = registers[r] \/ call = overrides[r]
    BY <2>1 DEF Call
  <2>2. CASE call \in {users[1], users[2]}
    BY <2>2 DEF Call
  <2> QED BY <1>4, <2>1, <2>2
<1>7. users[2].send = "yes"
  BY DEF Call
<1> HIDE DEF registers, overrides, users
<1>8. registers \o overrides \in Seq(all)
  BY <1>5, ConcatProperties
<1>9. /\ ERealtime \in Seq(all) /\ Len(ERealtime) = Len(registers \o overrides) + 2
      /\ ERealtime[Len(registers \o overrides) + 2] = users[2]
  <2>1. PICK s \in Seq(all) : s = registers \o overrides
    BY <1>8
  <2>2. Len(s) \in Nat /\ Len(s) + 2 \in 1..(Len(s) + 2) /\ ~(Len(s) + 2 <= Len(s))
        /\ (Len(s) + 2) - Len(s) = 2
    OBVIOUS
  <2>3. PICK t \in Seq(all) : t = users /\ Len(t) = 2
    BY <1>5
  <2>4. /\ s \o t \in Seq(all) /\ Len(s \o t) = Len(s) + Len(t)
        /\ \A i \in 1..(Len(s) + Len(t)) :
             (s \o t)[i] = IF i <= Len(s) THEN s[i] ELSE t[i - Len(s)]
    BY ConcatProperties
  <2>5. (s \o t)[Len(s) + 2] = t[2]
    BY <2>2, <2>3, <2>4
  <2> QED BY <1>3, <2>1, <2>3, <2>4, <2>5
<1>10. ERealtime # <<>>
  BY <1>5, <1>8, <1>9, EmptySeq
<1>12. ASSUME NEW j \in DOMAIN ERealtime PROVE ERealtime[j].type # "eHeader"
  <2>1. ERealtime[j] \in all
    BY <1>9, SeqElements
  <2> QED BY <1>11, <2>1
<1> QED BY <1>6, <1>7, <1>9, <1>10, <1>12 DEF PlanOK

-----------------------------------------------------------------------------
(* Messages.                                                               *)

\* Messages stay in order when more has been put.
LEMMA Later ==
  ASSUME NEW given, NEW more, given \subseteq more
  PROVE  /\ \A s : MessageOK(s, given) => MessageOK(s, more)
         /\ \A s : ChannelOK(s, given) => ChannelOK(s, more)
<1>1. ASSUME NEW c, CommandOK(c, given) PROVE CommandOK(c, more)
  BY <1>1 DEF CommandOK
<1>2. \A s : MessageOK(s, given) => MessageOK(s, more)
  BY <1>1 DEF MessageOK
<1>3. \A s : ChannelOK(s, given) => ChannelOK(s, more)
  BY <1>2 DEF ChannelOK
<1> QED BY <1>2, <1>3

\* Commands are added to a message, and taken from it in turn.
LEMMA Messages ==
  ASSUME NEW given, NEW s, MessageOK(s, given)
  PROVE  /\ \A c : CommandOK(c, given) => MessageOK(Append(s, c), given)
         /\ s # <<>> => CommandOK(Head(s), given) /\ MessageOK(Tail(s), given)
<1>1. PICK commands : s \in Seq(commands) /\ \A c \in commands : CommandOK(c, given)
  BY DEF MessageOK
<1>2. ASSUME NEW c, CommandOK(c, given) PROVE MessageOK(Append(s, c), given)
  <2>1. s \in Seq(commands \cup {c})
    BY <1>1, SeqMonotonic
  <2>2. Append(s, c) \in Seq(commands \cup {c})
    BY <2>1, AppendProperties
  <2>3. \A d \in commands \cup {c} : CommandOK(d, given)
    BY <1>1, <1>2
  <2> QED BY <2>2, <2>3 DEF MessageOK
<1>3. ASSUME s # <<>>
      PROVE  CommandOK(Head(s), given) /\ MessageOK(Tail(s), given)
  <2>1. Head(s) \in commands /\ Tail(s) \in Seq(commands)
    BY <1>1, <1>3, HeadTailProperties
  <2> QED BY <2>1, <1>1 DEF MessageOK
<1> QED BY <1>2, <1>3

\* So are messages to the channel.
LEMMA Channels ==
  ASSUME NEW given, NEW s, ChannelOK(s, given)
  PROVE  /\ \A m : MessageOK(m, given) => ChannelOK(Append(s, m), given)
         /\ s # <<>> => MessageOK(Head(s), given) /\ ChannelOK(Tail(s), given)
<1>1. PICK messages : s \in Seq(messages) /\ \A m \in messages : MessageOK(m, given)
  BY DEF ChannelOK
<1>2. ASSUME NEW m, MessageOK(m, given) PROVE ChannelOK(Append(s, m), given)
  <2>1. s \in Seq(messages \cup {m})
    BY <1>1, SeqMonotonic
  <2>2. Append(s, m) \in Seq(messages \cup {m})
    BY <2>1, AppendProperties
  <2>3. \A d \in messages \cup {m} : MessageOK(d, given)
    BY <1>1, <1>2
  <2> QED BY <2>2, <2>3 DEF ChannelOK
<1>3. ASSUME s # <<>>
      PROVE  MessageOK(Head(s), given) /\ ChannelOK(Tail(s), given)
  <2>1. Head(s) \in messages /\ Tail(s) \in Seq(messages)
    BY <1>1, <1>3, HeadTailProperties
  <2> QED BY <2>1, <1>1 DEF ChannelOK
<1> QED BY <1>2, <1>3

\* Nothing is in order.
LEMMA EmptyMessages ==
  ASSUME NEW given
  PROVE  MessageOK(<<>>, given) /\ ChannelOK(<<>>, given)
<1>1. PICK none : none = {}
  OBVIOUS
<1>2. <<>> \in Seq(none)
  OBVIOUS
<1>3. \A c \in none : CommandOK(c, given) /\ MessageOK(c, given)
  BY <1>1
<1>4. MessageOK(<<>>, given)
  BY <1>2, <1>3 DEF MessageOK
<1>5. ChannelOK(<<>>, given)
  BY <1>2, <1>3 DEF ChannelOK
<1> QED BY <1>4, <1>5

-----------------------------------------------------------------------------
(* The invariant.                                                          *)

\* After a call the next one is made, or the message is sent.
LEMMA CalledOK ==
  ASSUME Planned, calls # <<>>, Called
  PROVE  Planned'
<1>1. /\ calls' = Tail(calls)
      /\ pc' = IF Head(calls).send = "yes" THEN "send" ELSE "call"
  BY DEF Called
<1>2. PlanOK(Tail(calls)) /\ (Head(calls).send # "yes" => Tail(calls) # <<>>)
  BY PlanStep DEF Planned
<1> QED BY <1>1, <1>2 DEF Planned

\* Nothing is anywhere at the start.
LEMMA InitOK == Init => IInv
<1> SUFFICES ASSUME Init PROVE IInv
  OBVIOUS
<1> DEFINE empty == [list |-> List, values |-> <<>>, alternate |-> <<>>, headers |-> {}]
<1>1. empty.list = List
  OBVIOUS
<1> HIDE DEF empty
<1>2. /\ IsMemory(Clean(empty))
      /\ OverridesIn(Clean(empty), puts) /\ OverridesIn(Clean(empty), Excused)
  BY <1>1, NoOverrides
<1>3. memory = [h \in Hosts |-> Clean(empty)]
  BY DEF Init, empty
<1>4. Typed
  BY <1>2, <1>3 DEF Init, Typed, Hosts
<1>5. Carried
  BY EmptyMessages DEF Init, Carried
<1>6. Held
  BY <1>2, <1>3 DEF Held, Hosts
<1>7. Tested
  BY DEF Init, Tested
<1>8. Whole
  <2>1. WholeMemory(Clean(empty))
    BY <1>1, WipedWhole
  <2> QED BY <1>3, <2>1 DEF Whole, Hosts
<1>9. Planned
  <2>1. calls = <<>> /\ pc = "idle"
    BY DEF Init
  <2>2. \E all : <<>> \in Seq(all) /\ \A call \in all : CallOK(call)
    <3>1. PICK all : all = {}
      OBVIOUS
    <3>2. <<>> \in Seq(all)
      BY EmptySeq
    <3>3. \A call \in all : CallOK(call)
      BY <3>1
    <3> QED BY <3>2, <3>3
  <2> QED BY <2>1, <2>2 DEF Planned, PlanOK
<1>10. Told
  BY DEF Init, Told
<1> QED BY <1>4, <1>5, <1>6, <1>7, <1>8, <1>9, <1>10 DEF IInv

\* An index of the registers is a positive number.
LEMMA FoundPositive ==
  ASSUME NEW adress, StartIndex(Registers, adress) # NotFound
  PROVE  StartIndex(Registers, adress) \in Nat \ {0}
<1>1. DOMAIN Registers = 1..Len(Registers) /\ Len(Registers) \in Nat
  BY RegistersSorted
<1> QED BY <1>1 DEF StartIndex, NotFound

\* The client saves an answer of the controller.
LEMMA ReadOK == ASSUME IInv, ReadSomething PROVE IInv'
<1>1. PICK table, adress, length :
        ReadTracer(table, adress, length) /\ (table = "eReg" => Asks(adress, length))
  BY DEF ReadSomething, Asks, Registers
<1>2. PICK payload : /\ memory' = [memory EXCEPT !["client"] =
                                     SaveAnswer(@, table, adress, payload)]
                     /\ payload = [k \in 1..length |-> budget'.reads]
  BY <1>1 DEF ReadTracer
<1> DEFINE new == SaveAnswer(memory["client"], table, adress, payload)
<1>3. IsMemory(new) /\ OverridesIn(new, puts) /\ Stays(memory["client"], new)
  BY SaveAnswerKeeps DEF IInv, Typed, Held
<1> HIDE DEF new
<1>4. memory'["client"] = new /\ memory'["server"] = memory["server"]
      /\ memory' = [h \in Hosts |-> memory'[h]]
  BY <1>2 DEF IInv, Typed, Hosts, new
<1>5. UNCHANGED <<main, link, cleaning, cleans, puts>> /\ pc = "idle"
  BY <1>1 DEF ReadTracer
<1>6. Typed'
  <2>1. budget' = [field \in {"reads", "puts", "losses"} |-> budget'[field]]
        /\ budget'["puts"] = budget["puts"]
    BY <1>1 DEF ReadTracer, IInv, Typed
  <2> QED BY <2>1, <1>3, <1>4, <1>5 DEF IInv, Typed, main
<1>7. Carried'
  BY <1>5, ExcusedKept DEF IInv, Carried, main, link
<1>8. Held'
  BY <1>3, <1>4, <1>5, ExcusedKept DEF IInv, Held
<1>9. Tested'
  BY <1>5 DEF IInv, Tested, main
<1>10. budget'.reads \in Nat /\ budget'.reads \in 0..MaxReads
  <2>1. budget["reads"] \in Nat /\ MaxReads \in Nat /\ budget.reads < MaxReads
    BY <1>1, MirrorAssumption DEF ReadTracer, IInv, Told
  <2>2. budget'.reads = budget.reads + 1
    BY <1>1 DEF ReadTracer, IInv, Typed
  <2> QED BY <2>1, <2>2
<1>11. Whole'
  <2>1. PICK reading \in 0..MaxReads : reading = budget'.reads
    BY <1>10
  <2>2. payload = [k \in 1..length |-> reading] /\ (table = "eReg" => Asks(adress, length))
    BY <1>1, <1>2, <2>1
  <2>3. PICK m : m = memory["client"] /\ IsMemory(m) /\ WholeMemory(m)
    BY DEF IInv, Typed, Whole
  <2>4. WholeMemory(SaveAnswer(m, table, adress, payload))
    BY <2>2, <2>3, AnswerWhole
  <2> QED BY <1>4, <2>3, <2>4 DEF IInv, Whole, new
<1>12. Planned'
  BY <1>5 DEF IInv, Planned, main
<1>13. Told'
  BY <1>5, <1>10 DEF IInv, Told
<1> QED BY <1>6, <1>7, <1>8, <1>9, <1>11, <1>12, <1>13 DEF IInv

\* What a case of SendMem reads in one piece is no override.
LEMMA GatherOK == ASSUME IInv, Gather PROVE IInv'
<1> DEFINE c == Commands(memory["client"], Head(calls))
<1>0. calls # <<>> /\ CallOK(Head(calls))
  <2>1. calls # <<>>
    BY DEF Gather, IInv, Planned
  <2> QED BY <2>1, PlanStep DEF IInv, Planned
<1>1. c = <<>> \/ \E adress, payload :
        c = <<[type |-> Head(calls).type, adress |-> adress, payload |-> payload]>>
  BY DEF Commands
<1>2. Head(calls).type \in Types /\ Head(calls).type # "eUser"
  BY DEF Gather, Types, Tables, DeviceTables, UserTables
<1>3. MessageOK(message \o c, Excused)
  <2>1. MessageOK(message, Excused)
    BY DEF IInv, Carried
  <2>2. PICK commands : message \in Seq(commands)
                        /\ \A d \in commands : CommandOK(d, Excused)
    BY <2>1 DEF MessageOK
  <2>3. CASE c = <<>>
    <3>1. message \o <<>> = message
      BY <2>2
    <3> QED BY <2>1, <2>3, <3>1
  <2>4. ASSUME NEW adress, NEW payload,
               c = <<[type |-> Head(calls).type, adress |-> adress, payload |-> payload]>>
        PROVE  MessageOK(message \o c, Excused)
    <3> DEFINE d == [type |-> Head(calls).type, adress |-> adress, payload |-> payload]
    <3>2. c = <<d>> /\ d.type = Head(calls).type
      BY <2>4
    <3>1. CommandOK(d, Excused)
      <4>1. WholeCommand(d)
        BY <1>0, <3>2, GatheredWhole DEF IInv, Typed, Whole
      <4> HIDE DEF d
      <4> QED BY <1>2, <3>2, <4>1 DEF CommandOK
    <3> HIDE DEF d, c
    <3>3. message \o <<d>> = Append(message, d)
      BY <2>2
    <3> QED BY <2>1, <3>1, <3>2, <3>3, Messages
  <2> QED BY <1>1, <2>3, <2>4
<1> HIDE DEF c
<1>4. message' = message \o c /\ pc' \in {"send", "call"}
      /\ UNCHANGED <<memory, n, link, cleaning, budget, cleans, puts>>
  BY DEF Gather, Called, c
<1>5. Typed'
  BY <1>4 DEF IInv, Typed
<1>6. Carried'
  BY <1>3, <1>4, ExcusedKept DEF IInv, Carried, link
<1>7. Held'
  BY <1>4, ExcusedKept DEF IInv, Held
<1>8. Tested'
  BY <1>4 DEF IInv, Tested
<1>9. Whole' /\ Told'
  BY <1>4 DEF IInv, Whole, Told
<1>10. Planned'
  BY <1>0, CalledOK DEF Gather, IInv
<1> QED BY <1>5, <1>6, <1>7, <1>8, <1>9, <1>10 DEF IInv

\* Where the main loop goes without touching a memory or a message.
LEMMA WalkOK ==
  ASSUME IInv, UNCHANGED <<memory, message, link, budget, cleans, puts>>,
         cleaning' = "yes" => cleans["client"] > 0,
         Planned', n' \in Nat, pc' = "scan" => n' > 0,
         pc' = "get" => /\ n' \in DOMAIN Registers /\ \E v : <<Registers[n'], v>> \in puts
                        /\ cleans["client"] = 0 => memory["client"].alternate[n'] # None
  PROVE  IInv'
<1>1. Typed'
  BY DEF IInv, Typed
<1>2. Carried'
  BY ExcusedKept DEF IInv, Carried, link
<1>3. Held'
  BY ExcusedKept DEF IInv, Held
<1>4. Tested'
  BY DEF IInv, Tested
<1>5. Whole' /\ Told'
  BY DEF IInv, Whole, Told
<1> QED BY <1>1, <1>2, <1>3, <1>4, <1>5 DEF IInv

\* The steps of that kind.
LEMMA WalksOK ==
  ASSUME IInv, \/ BeginPass(EAll) \/ BeginPass(ERealtime) \/ Scan \/ EndScan
               \/ GetHeader \/ TestAlternate \/ \E h \in Hosts : Display(h)
  PROVE  IInv'
<1>1. cleaning = "yes" => cleans["client"] > 0
  BY DEF IInv, Tested
<1>2. n \in Nat /\ (pc = "scan" => n > 0)
  BY DEF IInv, Typed
<1>3. ASSUME NEW plan, PlanOK(plan), plan # <<>>, BeginPass(plan) PROVE IInv'
  <2>1. Planned'
    BY <1>3 DEF BeginPass, Planned
  <2> QED BY <1>1, <1>2, <1>3, <2>1, WalkOK DEF BeginPass
<1>4. CASE Scan
  <2>1. StartIndex(Registers, Head(calls).from) = NotFound
        \/ StartIndex(Registers, Head(calls).from) \in Nat \ {0}
    BY FoundPositive
  <2>2. n' \in Nat /\ pc' # "get" /\ (pc' = "scan" => n' > 0)
    BY <1>4, <2>1 DEF Scan, NotFound
  <2>3. Planned'
    BY <1>4 DEF Scan, IInv, Planned
  <2> QED BY <1>1, <1>4, <2>2, <2>3, WalkOK DEF Scan
<1>5. CASE EndScan
  <2>1. pc' \in {"send", "call"}
    BY <1>5 DEF EndScan, Called
  <2>2. Planned'
    BY <1>5, CalledOK DEF EndScan, IInv, Planned
  <2> QED BY <1>1, <1>2, <1>5, <2>1, <2>2, WalkOK DEF EndScan
<1>6. CASE TestAlternate
  <2>1. n \in DOMAIN Registers /\ n + 1 \in Nat /\ n + 1 > 0
    BY <1>2, <1>6, RegistersSorted DEF TestAlternate, Scanning
  <2>2. UNCHANGED <<memory, message, link, cleaning, budget, cleans, puts>>
    BY <1>6 DEF TestAlternate
  <2>5. Planned'
    BY <1>6 DEF TestAlternate, Scanning, IInv, Planned
  <2>3. CASE memory["client"].alternate[n] # None /\ pc' = "get" /\ n' = n
    <3>1. <<Registers[n], memory["client"].alternate[n]>> \in puts
      BY <2>1, <2>3 DEF IInv, Held, OverridesIn
    <3> QED BY <1>1, <1>2, <2>1, <2>2, <2>3, <2>5, <3>1, WalkOK
  <2>4. CASE n' = n + 1 /\ pc' = pc
    BY <1>1, <1>6, <2>1, <2>2, <2>4, <2>5, WalkOK DEF TestAlternate, Scanning
  <2> QED BY <1>6, <2>3, <2>4 DEF TestAlternate
<1>7. ASSUME NEW h \in Hosts, Display(h) PROVE IInv'
  <2>1. UNCHANGED <<memory, main, link, cleaning, budget, cleans, puts>>
    BY <1>7 DEF Display, AskBlock, AnswerBlock
  <2>2. pc = "get" => /\ n \in DOMAIN Registers /\ \E v : <<Registers[n], v>> \in puts
                      /\ cleans["client"] = 0 => memory["client"].alternate[n] # None
    BY DEF IInv, Tested
  <2>3. Planned'
    BY <2>1 DEF IInv, Planned, main
  <2> QED BY <1>1, <1>2, <2>1, <2>2, <2>3, WalkOK DEF main
<1>8. CASE GetHeader
  <2>1. pc' # "get" /\ n' \in Nat /\ (pc' = "scan" => n' > 0)
    BY <1>2, <1>8 DEF GetHeader, Scanning
  <2>2. Planned'
    BY <1>8 DEF GetHeader, Scanning, IInv, Planned
  <2> QED BY <1>1, <1>8, <2>1, <2>2, WalkOK DEF GetHeader
<1> QED BY <1>3, <1>4, <1>5, <1>6, <1>7, <1>8, EAllOK, ERealtimeOK

\* A header is added.
LEMMA HeaderOK == ASSUME IInv, AddHeader PROVE IInv'
<1>1. /\ UNCHANGED <<memory, link, cleaning, budget, cleans, puts>>
      /\ pc' = "scan" /\ n' = n + 1
  BY DEF AddHeader
<1>2. PICK adress : message' = Append(message, [type |-> "eHeader", adress |-> adress, payload |-> <<>>])
  BY DEF AddHeader
<1>3. MessageOK(message', Excused)
  <2> DEFINE c == [type |-> "eHeader", adress |-> adress, payload |-> <<>>]
  <2>1. CommandOK(c, Excused)
    BY DEF CommandOK, Types, WholeCommand
  <2> HIDE DEF c
  <2>2. message' = Append(message, c)
    BY <1>2 DEF c
  <2> QED BY <2>1, <2>2, Messages DEF IInv, Carried
<1>4. Typed'
  BY <1>1 DEF IInv, Typed
<1>5. Carried'
  BY <1>1, <1>3, ExcusedKept DEF IInv, Carried, link
<1>6. Held'
  BY <1>1, ExcusedKept DEF IInv, Held
<1>7. Tested'
  BY <1>1 DEF IInv, Tested
<1>8. Whole' /\ Told'
  BY <1>1 DEF IInv, Whole, Told
<1>9. Planned'
  BY <1>1 DEF AddHeader, IInv, Planned
<1> QED BY <1>4, <1>5, <1>6, <1>7, <1>8, <1>9 DEF IInv

\* What was tested in an earlier step is read: still an override, and one that was put,
\* or after a clean what the controller's table has there.
LEMMA AlternateOK == ASSUME IInv, GetAlternate PROVE IInv'
<1> DEFINE seen == Seen(memory["client"])[n]
           c == [type |-> "eUser", adress |-> Registers[n], payload |-> <<seen>>]
<1>1. /\ UNCHANGED <<memory, link, cleaning, budget, cleans, puts>>
      /\ pc = "get" /\ pc' = "scan" /\ n' = n + 1 /\ message' = Append(message, c)
  BY DEF GetAlternate
<1>2. n \in DOMAIN Registers /\ n \in Nat /\ Registers[n] \in Nat \ {0}
  BY <1>1, RegistersSorted DEF IInv, Typed, Tested
<1>3. <<Registers[n], seen>> \in Excused
  <2>1. PICK m : m = memory["client"] /\ m.list = List /\ OverridesIn(m, puts) /\ WholeMemory(m)
    BY DEF IInv, Typed, IsMemory, Held, Whole
  <2>2. seen = IF m.alternate[n] # None THEN m.alternate[n] ELSE m.values["eReg"][n]
    BY <1>2, <2>1 DEF Seen, Registers
  <2> HIDE DEF seen
  <2>3. CASE m.alternate[n] # None
    BY <1>2, <2>1, <2>2, <2>3, ExcusedHas DEF OverridesIn
  <2>4. CASE m.alternate[n] = None
    <3>1. cleans["client"] # 0 /\ \E v : <<Registers[n], v>> \in puts
      BY <1>1, <2>1, <2>4 DEF IInv, Tested
    <3>2. m.values["eReg"][n] \in Readings
      BY <1>2, <2>1 DEF WholeMemory, WholeValues
    <3> QED BY <2>2, <2>4, <3>1, <3>2, ExcusedHas
  <2> QED BY <2>3, <2>4
<1> HIDE DEF seen
<1>4. CommandOK(c, Excused)
  BY <1>2, <1>3 DEF CommandOK, Types, WholeCommand
<1> HIDE DEF c
<1>5. MessageOK(message', Excused)
  BY <1>1, <1>4, Messages DEF IInv, Carried
<1>6. Typed'
  BY <1>1, <1>2 DEF IInv, Typed
<1>7. Carried'
  BY <1>1, <1>5, ExcusedKept DEF IInv, Carried, link
<1>8. Held'
  BY <1>1, ExcusedKept DEF IInv, Held
<1>9. Tested'
  BY <1>1 DEF IInv, Tested
<1>10. Whole' /\ Told'
  BY <1>1 DEF IInv, Whole, Told
<1>11. Planned'
  BY <1>1 DEF GetAlternate, IInv, Planned
<1> QED BY <1>6, <1>7, <1>8, <1>9, <1>10, <1>11 DEF IInv

\* A message on its way: sent, lost, received.
LEMMA LinkOK == ASSUME IInv, Send \/ Lose \/ Receive PROVE IInv'
<1>1. UNCHANGED <<memory, n, cleaning, cleans, puts>>
  BY DEF Send, Lose, Receive, main
<1>2. pc' = pc \/ pc' \in {"idle", "call"}
  BY DEF Send, Lose, Receive, main
<1>3. Carried'
  <2>1. MessageOK(message, Excused) /\ MessageOK(saving, Excused)
        /\ ChannelOK(channel, Excused)
    BY DEF IInv, Carried
  <2>2. CASE Send
    <3>1. message' = <<>> /\ saving' = saving /\ channel' = Append(channel, message)
      BY <2>2 DEF Send
    <3> QED BY <1>1, <2>1, <3>1, EmptyMessages, Channels, ExcusedKept DEF Carried
  <2>3. CASE Lose
    <3>1. message' = message /\ saving' = saving /\ channel # <<>> /\ channel' = Tail(channel)
      BY <2>3 DEF Lose, main
    <3> QED BY <1>1, <2>1, <3>1, Channels, ExcusedKept DEF Carried
  <2>4. CASE Receive
    <3>1. message' = message /\ saving' = Head(channel) /\ channel # <<>> /\ channel' = Tail(channel)
      BY <2>4 DEF Receive, main
    <3> QED BY <1>1, <2>1, <3>1, Channels, ExcusedKept DEF Carried
  <2> QED BY <2>2, <2>3, <2>4
<1>4. Typed'
  <2>1. budget' = [field \in {"reads", "puts", "losses"} |-> budget'[field]]
        /\ budget'["puts"] = budget["puts"]
    BY DEF Send, Lose, Receive, IInv, Typed
  <2> QED BY <1>1, <1>2, <2>1 DEF IInv, Typed
<1>5. Held'
  BY <1>1, ExcusedKept DEF IInv, Held
<1>6. Tested'
  BY <1>1, <1>2 DEF IInv, Tested
<1>7. Whole' /\ Told'
  <2>1. budget'["reads"] = budget["reads"]
    BY DEF Send, Lose, Receive, IInv, Typed
  <2> QED BY <1>1, <2>1 DEF IInv, Whole, Told
<1>8. Planned'
  BY DEF Send, Lose, Receive, main, IInv, Planned
<1> QED BY <1>3, <1>4, <1>5, <1>6, <1>7, <1>8 DEF IInv

\* The server saves a command.
LEMMA SaveOK == ASSUME IInv, SaveCommand PROVE IInv'
<1> DEFINE c == Head(saving)
           old == memory["server"]
           new == Save(old, c)
<1>1. /\ UNCHANGED <<main, channel, cleaning, budget, cleans, puts>>
      /\ saving # <<>> /\ saving' = Tail(saving)
      /\ memory' = [memory EXCEPT !["server"] = new]
  BY DEF SaveCommand
<1>2. CommandOK(c, Excused) /\ MessageOK(saving', Excused)
  BY <1>1, Messages DEF IInv, Carried
<1>3. IsMemory(old) /\ OverridesIn(old, Excused)
  BY DEF IInv, Typed, Held
<1>4. IsMemory(new) /\ OverridesIn(new, Excused)
  <2>1. c.type \in Types
        /\ (c.type = "eUser" => c.adress \in Nat \ {0}
                                /\ \E v : c.payload = <<v>> /\ <<c.adress, v>> \in Excused)
    BY <1>2 DEF CommandOK
  <2> HIDE DEF c, old
  <2> QED BY <1>3, <2>1, SaveKeeps
<1>11. WholeMemory(new)
  <2>1. WholeMemory(old) /\ c.type \in Types /\ WholeCommand(c)
    BY <1>2 DEF IInv, Whole, CommandOK
  <2> HIDE DEF c, old
  <2> QED BY <1>3, <2>1, SavedWhole
<1> HIDE DEF new
<1>6. memory'["server"] = new /\ memory'["client"] = memory["client"]
      /\ memory' = [h \in Hosts |-> memory'[h]]
  BY <1>1 DEF IInv, Typed, Hosts
<1>7. Typed'
  BY <1>1, <1>4, <1>6 DEF IInv, Typed, main
<1>8. Carried'
  BY <1>1, <1>2, ExcusedKept DEF IInv, Carried, main
<1>9. Held'
  BY <1>1, <1>4, <1>6, ExcusedKept DEF IInv, Held
<1>10. Tested'
  BY <1>1, <1>6 DEF IInv, Tested, main
<1>12. Whole'
  BY <1>6, <1>11 DEF IInv, Whole
<1>13. Planned' /\ Told'
  BY <1>1 DEF IInv, Planned, Told, main
<1> QED BY <1>7, <1>8, <1>9, <1>10, <1>12, <1>13 DEF IInv

\* A value that is put is told from a reading.
LEMMA NewTold ==
  ASSUME budget["puts"] \in Nat, budget.puts < MaxPuts
  PROVE  NewValue \in Nat /\ MaxReads < NewValue /\ NewValue < Unknown
<1>1. MaxReads \in Nat /\ MaxPuts \in Nat /\ MaxReads + MaxPuts < Unknown /\ Unknown \in Nat
  BY MirrorAssumption, WideAssumption DEF Unknown
<1>2. PICK p \in Nat : p = budget.puts /\ p < MaxPuts /\ NewValue = MaxReads + p + 1
  BY DEF NewValue
<1> QED BY <1>1, <1>2

\* A user puts something into a memory.
LEMMA PuttingOK ==
  ASSUME IInv, NEW h \in Hosts, NEW new, NEW added, IsMemory(new), Stays(memory[h], new),
         WholeMemory(new), \A adress, v : <<adress, v>> \in added => v = NewValue,
         budget.puts < MaxPuts,
         \A given : OverridesIn(memory[h], given) => OverridesIn(new, given \cup added),
         memory' = [memory EXCEPT ![h] = new], puts' = puts \cup added,
         budget' = [budget EXCEPT !.puts = @ + 1],
         UNCHANGED <<main, link, cleaning, cleans>>
  PROVE  IInv'
<1>1. h \in {"client", "server"}
  BY DEF Hosts
<1>2. /\ memory'[h] = new /\ \A other \in Hosts \ {h} : memory'[other] = memory[other]
      /\ memory' = [k \in Hosts |-> memory'[k]]
  BY DEF IInv, Typed
<1>3. Typed'
  <2>1. IsMemory(memory'["client"]) /\ IsMemory(memory'["server"])
    BY <1>1, <1>2 DEF IInv, Typed, Hosts
  <2>2. budget' = [field \in {"reads", "puts", "losses"} |-> budget'[field]]
        /\ budget'["puts"] \in Nat
    BY DEF IInv, Typed
  <2> QED BY <1>2, <2>1, <2>2 DEF IInv, Typed, main
<1>10. puts \subseteq puts' /\ added \subseteq puts' /\ Excused \subseteq Excused'
       /\ puts' \subseteq Excused'
  <2>1. (puts \subseteq Excused)'
    BY ExcusedHas, PTL
  <2> QED BY <2>1, ExcusedGrows
<1>4. Carried'
  <2>1. /\ \A s : MessageOK(s, Excused) => MessageOK(s, Excused')
        /\ \A s : ChannelOK(s, Excused) => ChannelOK(s, Excused')
    BY <1>10, Later
  <2> QED BY <2>1 DEF IInv, Carried, main, link
<1>5. Held'
  <2>1. ASSUME NEW given, OverridesIn(memory[h], given), given \subseteq puts' \/ given \subseteq Excused'
        PROVE  /\ given \subseteq puts' => OverridesIn(new, puts')
               /\ OverridesIn(new, Excused')
    <3>1. OverridesIn(new, given \cup added)
      BY <2>1
    <3> QED BY <1>10, <2>1, <3>1, MoreGiven
  <2>2. CASE h = "client"
    <3>1. OverridesIn(new, puts')
      BY <1>10, <2>1, <2>2 DEF IInv, Held
    <3>2. OverridesIn(memory["server"], Excused')
      BY <1>10, MoreGiven DEF IInv, Held
    <3> QED BY <1>2, <2>2, <3>1, <3>2 DEF Held, Hosts
  <2>3. CASE h = "server"
    <3>1. OverridesIn(new, Excused')
      BY <1>10, <2>1, <2>3 DEF IInv, Held
    <3>2. OverridesIn(memory["client"], puts')
      BY <1>10, MoreGiven DEF IInv, Held
    <3> QED BY <1>2, <2>3, <3>1, <3>2 DEF Held, Hosts
  <2> QED BY <1>1, <2>2, <2>3
<1>6. Tested'
  <2>1. pc = "get" => n \in DOMAIN Registers /\ \E v : <<Registers[n], v>> \in puts'
    BY DEF IInv, Tested
  <2>2. pc = "get" /\ cleans["client"] = 0 => memory'["client"].alternate[n] # None
    BY <1>1, <1>2, <2>1 DEF IInv, Tested, Stays, Hosts
  <2> QED BY <2>1, <2>2 DEF IInv, Tested, main
<1>7. Whole'
  BY <1>1, <1>2 DEF IInv, Whole, Hosts
<1>8. Planned'
  BY DEF IInv, Planned, main
<1>9. Told'
  <2>1. budget'["reads"] = budget["reads"]
    BY DEF IInv, Typed
  <2>2. NewValue \in Nat /\ MaxReads < NewValue /\ NewValue < Unknown
    BY NewTold DEF IInv, Typed
  <2> QED BY <2>1, <2>2 DEF IInv, Told
<1> QED BY <1>3, <1>4, <1>5, <1>6, <1>7, <1>8, <1>9 DEF IInv

\* setreg and setcoil.
LEMMA SetRegOK ==
  ASSUME IInv, NEW h \in Hosts, NEW table, NEW adress \in Nat, SetReg(h, table, adress)
  PROVE  IInv'
<1> DEFINE v == NewValue
           old == memory[h]
           new == Put(old, table, adress, v)
           added == {<<adress, v>>}
<1>1. v \in Nat
  BY MirrorAssumption DEF NewValue, IInv, Typed
<1>2. IsMemory(old)
  BY DEF IInv, Typed, Hosts
<1>3. /\ memory' = [memory EXCEPT ![h] = new] /\ puts' = puts \cup added
      /\ budget' = [budget EXCEPT !.puts = @ + 1]
      /\ UNCHANGED <<main, link, cleaning, cleans>>
  BY DEF SetReg
<1>4. ASSUME NEW given, OverridesIn(old, given) PROVE OverridesIn(new, given \cup added)
  <2>1. OverridesIn(old, given \cup added) /\ <<adress, v>> \in given \cup added
    BY <1>4, MoreGiven
  <2> HIDE DEF v, old, added
  <2> QED BY <1>1, <1>2, <2>1, PutKeeps
<1>5. IsMemory(new) /\ Stays(old, new)
  <2> DEFINE given == added \cup OverridesOf(old)
  <2>1. OverridesIn(old, given) /\ <<adress, v>> \in given
    BY MoreGiven
  <2> HIDE DEF v, old, added, given
  <2> QED BY <1>1, <1>2, <2>1, PutKeeps
<1>6. WholeMemory(new)
  <2>1. WholeMemory(old) /\ "eReg" \in DOMAIN old.values
    BY DEF IInv, Whole, WholeMemory, Hosts
  <2>2. PICK put : put = new
    OBVIOUS
  <2>3. \/ \E t, a, x : put = Put(old, t, a, x)
        \/ \E a, x : put = Put32(old, a, x, x)
    BY <2>2
  <2> HIDE DEF old, new
  <2>4. "eReg" \in DOMAIN put.values /\ put.values["eReg"] = old.values["eReg"]
    BY <1>2, <2>1, <2>3, PutRegisters
  <2>5. WholeMemory(put)
    BY <2>1, <2>4 DEF WholeMemory
  <2> QED BY <2>2, <2>5
<1>7. (\A a, x : <<a, x>> \in added => x = NewValue) /\ budget.puts < MaxPuts
  BY DEF SetReg, SetReg32
<1> HIDE DEF new, added
<1> QED BY <1>3, <1>4, <1>5, <1>6, <1>7, PuttingOK

\* setreg32
LEMMA SetReg32OK ==
  ASSUME IInv, NEW h \in Hosts, NEW adress \in Nat, SetReg32(h, adress)
  PROVE  IInv'
<1> DEFINE v == NewValue
           old == memory[h]
           new == Put32(old, adress, v, v)
           added == {<<adress, v>>, <<adress + 1, v>>}
<1>1. v \in Nat
  BY MirrorAssumption DEF NewValue, IInv, Typed
<1>2. IsMemory(old)
  BY DEF IInv, Typed, Hosts
<1>3. /\ memory' = [memory EXCEPT ![h] = new] /\ puts' = puts \cup added
      /\ budget' = [budget EXCEPT !.puts = @ + 1]
      /\ UNCHANGED <<main, link, cleaning, cleans>>
  BY DEF SetReg32
<1>4. ASSUME NEW given, OverridesIn(old, given) PROVE OverridesIn(new, given \cup added)
  <2>1. OverridesIn(old, given \cup added)
        /\ <<adress, v>> \in given \cup added /\ <<adress + 1, v>> \in given \cup added
    BY <1>4, MoreGiven
  <2> HIDE DEF v, old, added
  <2> QED BY <1>1, <1>2, <2>1, Put32Keeps
<1>5. IsMemory(new) /\ Stays(old, new)
  <2> DEFINE given == added \cup OverridesOf(old)
  <2>1. OverridesIn(old, given) /\ <<adress, v>> \in given /\ <<adress + 1, v>> \in given
    BY MoreGiven
  <2> HIDE DEF v, old, added, given
  <2> QED BY <1>1, <1>2, <2>1, Put32Keeps
<1>6. WholeMemory(new)
  <2>1. WholeMemory(old) /\ "eReg" \in DOMAIN old.values
    BY DEF IInv, Whole, WholeMemory, Hosts
  <2>2. PICK put : put = new
    OBVIOUS
  <2>3. \/ \E t, a, x : put = Put(old, t, a, x)
        \/ \E a, x : put = Put32(old, a, x, x)
    BY <2>2
  <2> HIDE DEF old, new
  <2>4. "eReg" \in DOMAIN put.values /\ put.values["eReg"] = old.values["eReg"]
    BY <1>2, <2>1, <2>3, PutRegisters
  <2>5. WholeMemory(put)
    BY <2>1, <2>4 DEF WholeMemory
  <2> QED BY <2>2, <2>5
<1>7. (\A a, x : <<a, x>> \in added => x = NewValue) /\ budget.puts < MaxPuts
  BY DEF SetReg, SetReg32
<1> HIDE DEF new, added
<1> QED BY <1>3, <1>4, <1>5, <1>6, <1>7, PuttingOK

\* A memory is wiped, or loses its overrides, or is about to be wiped.
LEMMA WipedOK ==
  ASSUME IInv, \/ CleanServer \/ BeginClean \/ EndClean
               \/ \E h \in Hosts : CleanAlternates(h)
  PROVE  IInv'
<1>1. UNCHANGED <<main, link, budget, puts>>
  BY DEF CleanServer, BeginClean, EndClean, CleanAlternates
<1>2. /\ cleans' \in [Hosts -> Nat] /\ cleans["client"] \in Nat /\ cleans'["client"] \in Nat
      /\ cleans["client"] <= cleans'["client"]
  BY DEF CleanServer, BeginClean, EndClean, CleanAlternates, Cleaned, IInv, Typed, Hosts
<1>3. ASSUME NEW h \in Hosts
      PROVE  \/ memory'[h] = memory[h]
             \/ /\ IsMemory(memory'[h]) /\ WholeMemory(memory'[h])
                /\ \A given : OverridesIn(memory'[h], given)
  <2>1. IsMemory(memory[h]) /\ memory[h].list = List /\ WholeMemory(memory[h])
    BY DEF IInv, Typed, Whole, Hosts, IsMemory
  <2>2. \/ memory'[h] = memory[h] \/ memory'[h] = Clean(memory[h])
        \/ memory'[h] = CleanAlternate(memory[h])
    BY DEF CleanServer, BeginClean, EndClean, CleanAlternates, IInv, Typed
  <2> QED BY <2>1, <2>2, NoOverrides, WipedWhole
<1>4. memory' = [h \in Hosts |-> memory'[h]]
  BY DEF CleanServer, BeginClean, EndClean, CleanAlternates, IInv, Typed
<1>5. cleans'["client"] = 0 => memory'["client"] = memory["client"]
  <2>1. cleaning = "yes" => cleans["client"] > 0
    BY DEF IInv, Tested
  <2>2. CASE CleanServer \/ BeginClean
    BY <2>2 DEF CleanServer, BeginClean, IInv, Typed, Hosts
  <2>3. CASE EndClean
    BY <1>2, <2>1, <2>3 DEF EndClean
  <2>4. ASSUME NEW h \in Hosts, CleanAlternates(h)
        PROVE  cleans'["client"] = 0 => memory'["client"] = memory["client"]
    <3>1. CASE h = "client"
      BY <1>2, <2>4, <3>1 DEF CleanAlternates, Cleaned, IInv, Typed, Hosts
    <3>2. CASE h = "server"
      BY <2>4, <3>2 DEF CleanAlternates, IInv, Typed, Hosts
    <3> QED BY <3>1, <3>2 DEF Hosts
  <2> QED BY <2>2, <2>3, <2>4
<1>6. Typed'
  BY <1>1, <1>2, <1>3, <1>4 DEF IInv, Typed, Hosts, main
<1>12. Excused \subseteq Excused'
  BY <1>1, <1>2, ExcusedGrows
<1>7. Carried'
  BY <1>1, <1>12, Later DEF IInv, Carried, main, link
<1>8. Held'
  <2>1. OverridesIn(memory'["client"], puts)
    BY <1>3 DEF IInv, Held, Hosts
  <2>2. OverridesIn(memory'["server"], Excused')
    <3>1. OverridesIn(memory["server"], Excused')
      BY <1>12, MoreGiven DEF IInv, Held
    <3> QED BY <1>3, <3>1 DEF Hosts
  <2> QED BY <1>1, <2>1, <2>2 DEF Held
<1>9. Tested'
  <2>1. cleaning' = "yes" => cleans'["client"] > 0
    BY <1>2 DEF CleanServer, BeginClean, EndClean, CleanAlternates, Cleaned, IInv, Typed, Tested, Hosts
  <2>2. cleans'["client"] = 0 => cleans["client"] = 0
    BY <1>2
  <2> QED BY <1>1, <1>5, <2>1, <2>2 DEF IInv, Tested, main
<1>10. Whole'
  BY <1>3 DEF IInv, Whole, Hosts
<1>11. Planned' /\ Told'
  BY <1>1 DEF IInv, Planned, Told, main
<1> QED BY <1>6, <1>7, <1>8, <1>9, <1>10, <1>11 DEF IInv

\* A text command.
LEMMA UserOK == ASSUME IInv, NEW h \in Hosts, User(h) PROVE IInv'
<1>1. \A t \in Tables : \A k \in DOMAIN List[t] : List[t][k] \in Nat
  <2> SUFFICES ASSUME NEW t \in Tables, NEW k \in DOMAIN List[t] PROVE List[t][k] \in Nat
    OBVIOUS
  <2>1. List[t] \in Seq(0..(LastAdress - 1))
    BY MirrorAssumption
  <2>2. 0..(LastAdress - 1) \subseteq Nat
    BY DEF LastAdress
  <2>3. PICK list : list = List[t]
    OBVIOUS
  <2>4. list \in Seq(Nat) /\ k \in DOMAIN list
    BY <2>1, <2>2, <2>3, SeqMonotonic
  <2>5. list[k] \in Nat
    BY <2>4
  <2> QED BY <2>3, <2>5
<1>2. {"eReg", "eUserReg", "eUserCoil"} \subseteq Tables
  BY DEF Tables, DeviceTables, UserTables
<1>3. CASE CleanAlternates(h)
  BY <1>3, WipedOK
<1>4. ASSUME NEW table, NEW adress \in Nat, SetReg(h, table, adress) PROVE IInv'
  BY <1>4, SetRegOK
<1>5. ASSUME NEW adress \in Nat, SetReg32(h, adress) PROVE IInv'
  BY <1>5, SetReg32OK
<1>6. \A k \in DOMAIN Registers : Registers[k] \in Nat
  BY <1>1, <1>2 DEF Registers
<1>7. CASE \E k \in DOMAIN Registers :
             SetReg(h, "eReg", Registers[k]) \/ SetReg32(h, Registers[k])
  BY <1>4, <1>5, <1>6, <1>7
<1>8. CASE \E k \in DOMAIN List["eUserReg"] :
             SetReg(h, "eReg", List["eUserReg"][k]) \/ SetReg32(h, List["eUserReg"][k])
  BY <1>1, <1>2, <1>4, <1>5, <1>8
<1>9. CASE \E k \in DOMAIN List["eUserCoil"] : SetReg(h, "eCoil", List["eUserCoil"][k])
  BY <1>1, <1>2, <1>4, <1>9
<1> QED BY <1>3, <1>7, <1>8, <1>9 DEF User

\* Every step keeps the invariant.
LEMMA StepOK == ASSUME IInv, [Next]_vars PROVE IInv'
<1>1. CASE ReadSomething
  BY <1>1, ReadOK
<1>2. CASE BeginPass(EAll) \/ BeginPass(ERealtime)
  BY <1>2, WalksOK
<1>3. CASE MainStep
  BY <1>3, GatherOK, WalksOK, HeaderOK, AlternateOK, LinkOK DEF MainStep
<1>4. CASE Lose \/ Server
  BY <1>4, LinkOK, SaveOK DEF Server
<1>5. CASE CleanServer \/ BeginClean \/ EndClean
  BY <1>5, WipedOK
<1>6. ASSUME NEW h \in Hosts, User(h) \/ Display(h) PROVE IInv'
  BY <1>6, UserOK, WalksOK
<1>7. CASE UNCHANGED vars
  <2>1. Typed'
    BY <1>7 DEF vars, main, IInv, Typed
  <2>2. Carried'
    BY <1>7, ExcusedKept DEF vars, main, link, IInv, Carried
  <2>3. Held'
    BY <1>7, ExcusedKept DEF vars, IInv, Held
  <2>4. Tested'
    BY <1>7 DEF vars, main, IInv, Tested
  <2>5. Whole' /\ Planned' /\ Told'
    BY <1>7 DEF vars, main, IInv, Whole, Planned, Told
  <2> QED BY <2>1, <2>2, <2>3, <2>4, <2>5 DEF IInv
<1> QED BY <1>1, <1>2, <1>3, <1>4, <1>5, <1>6, <1>7 DEF Next

\* OverridesWerePut holds of every behaviour, with cleans in the middle of a scan as
\* without: the server has an override only for a register that a user has put a value
\* over, and it is such a value unless the client has been cleaned.
THEOREM OverridesAreUsers == Spec => []OverridesWerePut
<1>1. Init => IInv
  BY InitOK
<1>2. IInv /\ [Next]_vars => IInv'
  BY StepOK
<1>3. IInv => OverridesWerePut
  BY DEF IInv, Held, OverridesIn, OverridesWerePut
<1> QED BY <1>1, <1>2, <1>3, PTL DEF Spec

\* OneReading holds of every behaviour, for all tables, blocks and ranges that hold
\* the halves of a value both or not at all: what readers get as a 32 bit value is
\* two overrides or two registers of one answer.
THEOREM OneReadingCorrect == Spec => []OneReading
<1>1. Init => IInv
  BY InitOK
<1>2. IInv /\ [Next]_vars => IInv'
  BY StepOK
<1>3. ASSUME IInv PROVE OneReading
  <2> SUFFICES ASSUME NEW h \in Hosts, NEW low \in Wide, h = "server" => cleans["client"] = 0
               PROVE  LET halves == Halves(memory[h], low)
                          read == {j \in DOMAIN halves : halves[j] <= MaxReads \/ halves[j] = Unknown}
                      IN read = {} \/ (read = DOMAIN halves /\ halves[1] = halves[2])
    BY DEF OneReading
  <2>1. PICK m, halves : m = memory[h] /\ halves = Halves(m, low)
    OBVIOUS
  <2>2. IsMemory(m) /\ WholeMemory(m) /\ OverridesIn(m, puts)
    <3>1. cleans["client"] = 0 => Excused = puts
      BY DEF Excused
    <3> QED BY <1>3, <2>1, <3>1 DEF IInv, Typed, Whole, Held, Hosts
  <2>3. \A k \in DOMAIN Registers : m.alternate[k] # None =>
          m.alternate[k] \in Nat /\ MaxReads < m.alternate[k] /\ m.alternate[k] < Unknown
    BY <1>3, <2>2 DEF OverridesIn, IInv, Told
  <2> QED BY <2>1, <2>2, <2>3, HalvesWhole
<1> QED BY <1>1, <1>2, <1>3, PTL DEF Spec

-----------------------------------------------------------------------------
(* What is known of a block.                                               *)

\* Nobody has cleaned a memory.
NeverCleaned == cleans["client"] = 0 /\ cleans["server"] = 0

\* Whether a host has the header of a block, and all of its registers.
Headed(h, block) == block[1] \in memory[h].headers
KnownOn(h, block) ==
  \A k \in DOMAIN Registers : Within(block, k) => memory[h].values["eReg"][k] # Unknown

\* A command that writes all registers of a block, and one that brings its header.
Fills(c, block) == c.type = "eReg" /\ \A k \in DOMAIN Registers : Within(block, k) => Writes(c, k)
HeaderOf(c, block) == c.type = "eHeader" /\ c.adress = block[1]

\* Of a message: it brings no unknown value for the block; all its registers come
\* before its header; they come at all; the header does not.
BringsNoUnknown(c, block) ==
  c.type = "eReg" => \A k \in DOMAIN Registers :
    Within(block, k) /\ Writes(c, k) => Written(c, k) # Unknown
KnownIn(s, block) == \A i \in DOMAIN s : BringsNoUnknown(s[i], block)
Filled(s, block) == \E i \in DOMAIN s : Fills(s[i], block)
Led(s, block) ==
  \A j \in DOMAIN s : HeaderOf(s[j], block) => \E i \in DOMAIN s : i < j /\ Fills(s[i], block)
NoHeader(s, block) == \A j \in DOMAIN s : ~HeaderOf(s[j], block)

\* In the calls still to be made the headers come after all the registers, in the
\* same message.
FullCall(call) == call.type = "eReg" /\ call.from = 0 /\ call.to = LastAdress
NoHeaderCall(s) == \A j \in DOMAIN s : s[j].type # "eHeader"
Ordered(s, m, block) ==
  \A j \in DOMAIN s : s[j].type = "eHeader" =>
    /\ Filled(m, block) \/ \E i \in DOMAIN s : i < j /\ FullCall(s[i])
    /\ \A i \in DOMAIN s : i < j => s[i].send # "yes"

\* No header of the block has left the client.
Quiet(block) ==
  /\ ~Headed("server", block) /\ NoHeader(saving, block) /\ NoHeader(message, block)
  /\ \A i \in DOMAIN channel : NoHeader(channel[i], block)

\* The block was known when what is on its way was gathered.
Settled(block) ==
  /\ Headed("client", block)
  /\ Headed("server", block) => KnownOn("server", block)
  /\ KnownIn(saving, block) /\ (KnownOn("server", block) \/ Led(saving, block))
  /\ \A i \in DOMAIN channel : KnownIn(channel[i], block) /\ Led(channel[i], block)
  /\ KnownIn(message, block) /\ Led(message, block)

Flow(block) ==
  /\ Headed("client", block) => KnownOn("client", block)
  /\ Quiet(block) \/ Settled(block)
  /\ pc # "idle" /\ Headed("client", block) => Settled(block)

Walk ==
  /\ \A block \in Blocks :
       /\ Ordered(calls, message, block)
       /\ pc = "send" => NoHeaderCall(calls)
  /\ pc = "idle" => message = <<>>
  /\ pc \in {"scan", "get"} => Head(calls).type # "eReg"
  /\ pc = "header" => Head(calls).type = "eHeader" /\ n \in DOMAIN Registers
  /\ pc = "header" /\ NeverCleaned => Registers[n] \in memory["client"].headers

AskedFor(h) == asked[h] # <<>> => asked[h] \in Shown /\ Headed(h, asked[h])

\* What holds of the blocks, unless a memory has been cleaned.
Blocked == (\A block \in Blocks : Flow(block)) /\ (\A h \in Hosts : AskedFor(h))

KInv ==
  /\ Walk
  /\ asked = [h \in Hosts |-> asked[h]]
  /\ NeverCleaned => Blocked

-----------------------------------------------------------------------------
(* Messages and the blocks in them.                                        *)

\* A sequence after something has been added.
LEMMA Added ==
  ASSUME NEW S, NEW s \in Seq(S), NEW c
  PROVE  /\ Len(s) \in Nat /\ DOMAIN s = 1..Len(s)
         /\ DOMAIN Append(s, c) = 1..(Len(s) + 1)
         /\ \A i \in DOMAIN s : i \in DOMAIN Append(s, c) /\ Append(s, c)[i] = s[i]
         /\ Append(s, c)[Len(s) + 1] = c
         /\ s \o <<c>> = Append(s, c)
         /\ \A i \in DOMAIN Append(s, c) : i \in DOMAIN s \/ i = Len(s) + 1
OBVIOUS

\* A sequence after the first element has been taken.
LEMMA Taken ==
  ASSUME NEW S, NEW s \in Seq(S), s # <<>>
  PROVE  /\ 1 \in DOMAIN s /\ Head(s) = s[1]
         /\ \A i \in DOMAIN s : i \in Nat /\ (i = 1 \/ (1 < i /\ i - 1 \in DOMAIN Tail(s)))
         /\ \A i \in DOMAIN Tail(s) : i \in Nat /\ i + 1 \in DOMAIN s /\ Tail(s)[i] = s[i + 1]
<1>1. /\ Len(s) \in Nat \ {0} /\ DOMAIN s = 1..Len(s)
  BY EmptySeq
<1>2. /\ Head(s) = s[1] /\ Tail(s) \in Seq(S) /\ Len(Tail(s)) = Len(s) - 1
      /\ DOMAIN Tail(s) = 1..Len(Tail(s))
      /\ \A i \in 1..Len(Tail(s)) : Tail(s)[i] = s[i + 1]
  BY HeadTailProperties
<1> QED BY <1>1, <1>2

LEMMA CommandAdded ==
  ASSUME NEW S, NEW s \in Seq(S), NEW c, NEW block
  PROVE  LET t == Append(s, c)
         IN /\ KnownIn(s, block) /\ BringsNoUnknown(c, block) => KnownIn(t, block)
            /\ NoHeader(s, block) /\ ~HeaderOf(c, block) => NoHeader(t, block)
            /\ Led(s, block) /\ (HeaderOf(c, block) => Filled(s, block)) => Led(t, block)
            /\ Filled(s, block) \/ Fills(c, block) => Filled(t, block)
<1> DEFINE t == Append(s, c)
<1>1. /\ Len(s) \in Nat /\ DOMAIN s = 1..Len(s)
      /\ DOMAIN t = 1..(Len(s) + 1)
      /\ \A i \in DOMAIN s : i \in DOMAIN t /\ t[i] = s[i]
      /\ t[Len(s) + 1] = c
      /\ \A i \in DOMAIN t : i \in DOMAIN s \/ i = Len(s) + 1
  BY Added
<1> HIDE DEF t
<1>2. KnownIn(s, block) /\ BringsNoUnknown(c, block) => KnownIn(t, block)
  BY <1>1 DEF KnownIn
<1>3. NoHeader(s, block) /\ ~HeaderOf(c, block) => NoHeader(t, block)
  BY <1>1 DEF NoHeader
<1>4. ASSUME Led(s, block), HeaderOf(c, block) => Filled(s, block) PROVE Led(t, block)
  <2> SUFFICES ASSUME NEW j \in DOMAIN t, HeaderOf(t[j], block)
               PROVE  \E i \in DOMAIN t : i < j /\ Fills(t[i], block)
    BY DEF Led
  <2>1. CASE j \in DOMAIN s
    <3>1. HeaderOf(s[j], block)
      BY <1>1, <2>1
    <3>2. PICK i \in DOMAIN s : i < j /\ Fills(s[i], block)
      BY <1>4, <2>1, <3>1 DEF Led
    <3> QED BY <1>1, <3>2
  <2>2. CASE j = Len(s) + 1
    <3>1. Filled(s, block)
      BY <1>1, <1>4, <2>2
    <3>2. PICK i \in DOMAIN s : Fills(s[i], block)
      BY <3>1 DEF Filled
    <3>3. i < j
      BY <1>1, <2>2
    <3> QED BY <1>1, <3>2, <3>3
  <2> QED BY <1>1, <2>1, <2>2
<1>5. Filled(s, block) \/ Fills(c, block) => Filled(t, block)
  <2>1. Len(s) + 1 \in DOMAIN t
    BY <1>1
  <2> QED BY <1>1, <2>1 DEF Filled
<1> QED BY <1>2, <1>3, <1>4, <1>5 DEF t

LEMMA CommandTaken ==
  ASSUME NEW S, NEW s \in Seq(S), s # <<>>, NEW block
  PROVE  /\ KnownIn(s, block) => KnownIn(Tail(s), block) /\ BringsNoUnknown(Head(s), block)
         /\ NoHeader(s, block) => NoHeader(Tail(s), block) /\ ~HeaderOf(Head(s), block)
         /\ Led(s, block) => /\ ~HeaderOf(Head(s), block)
                             /\ Fills(Head(s), block) \/ Led(Tail(s), block)
<1> DEFINE t == Tail(s)
<1>1. /\ 1 \in DOMAIN s /\ Head(s) = s[1]
      /\ \A i \in DOMAIN s : i \in Nat /\ (i = 1 \/ (1 < i /\ i - 1 \in DOMAIN t))
      /\ \A i \in DOMAIN t : i \in Nat /\ i + 1 \in DOMAIN s /\ t[i] = s[i + 1]
  BY Taken
<1> HIDE DEF t
<1>2. KnownIn(s, block) => KnownIn(t, block) /\ BringsNoUnknown(Head(s), block)
  BY <1>1 DEF KnownIn
<1>3. NoHeader(s, block) => NoHeader(t, block) /\ ~HeaderOf(Head(s), block)
  BY <1>1 DEF NoHeader
<1>4. ASSUME Led(s, block) PROVE ~HeaderOf(Head(s), block)
  <2>1. \A i \in DOMAIN s : ~(i < 1)
    BY <1>1
  <2> QED BY <1>1, <1>4, <2>1 DEF Led
<1>5. ASSUME Led(s, block), ~Fills(Head(s), block) PROVE Led(t, block)
  <2> SUFFICES ASSUME NEW j \in DOMAIN t, HeaderOf(t[j], block)
               PROVE  \E i \in DOMAIN t : i < j /\ Fills(t[i], block)
    BY DEF Led
  <2>1. j + 1 \in DOMAIN s /\ HeaderOf(s[j + 1], block)
    BY <1>1
  <2>2. PICK i \in DOMAIN s : i < j + 1 /\ Fills(s[i], block)
    BY <1>5, <2>1 DEF Led
  <2>3. i \in Nat /\ 1 < i /\ i - 1 \in DOMAIN t
    BY <1>1, <1>5, <2>2
  <2>4. PICK l \in DOMAIN t : l \in Nat /\ l + 1 = i
    BY <2>3
  <2>5. t[l] = s[i] /\ l < j
    BY <1>1, <2>2, <2>4
  <2> QED BY <2>2, <2>5
<1> QED BY <1>2, <1>3, <1>4, <1>5 DEF t

\* Nothing brings nothing.
LEMMA NothingBrought ==
  ASSUME NEW block
  PROVE  KnownIn(<<>>, block) /\ NoHeader(<<>>, block) /\ Led(<<>>, block)
<1>1. DOMAIN <<>> = {}
  OBVIOUS
<1> QED BY <1>1 DEF KnownIn, NoHeader, Led

\* The calls after one has been made.
LEMMA CallMade ==
  ASSUME NEW S, NEW s \in Seq(S), s # <<>>, NEW block, NEW m, NEW m2, Ordered(s, m, block),
         Filled(m, block) \/ FullCall(Head(s)) => Filled(m2, block)
  PROVE  /\ Ordered(Tail(s), m2, block)
         /\ Head(s).type = "eHeader" => Filled(m, block)
         /\ Head(s).send = "yes" => NoHeaderCall(Tail(s))
<1> DEFINE t == Tail(s)
<1>1. /\ 1 \in DOMAIN s /\ Head(s) = s[1]
      /\ \A i \in DOMAIN s : i \in Nat /\ (i = 1 \/ (1 < i /\ i - 1 \in DOMAIN t))
      /\ \A i \in DOMAIN t : i \in Nat /\ i + 1 \in DOMAIN s /\ t[i] = s[i + 1]
  BY Taken
<1> HIDE DEF t
<1>2. ASSUME NEW j \in DOMAIN t, t[j].type = "eHeader"
      PROVE  /\ Filled(m2, block) \/ \E i \in DOMAIN t : i < j /\ FullCall(t[i])
             /\ \A i \in DOMAIN t : i < j => t[i].send # "yes"
             /\ Head(s).send # "yes"
  <2>1. j \in Nat /\ j + 1 \in DOMAIN s /\ s[j + 1].type = "eHeader"
    BY <1>1, <1>2
  <2>2. /\ Filled(m, block) \/ \E i \in DOMAIN s : i < j + 1 /\ FullCall(s[i])
        /\ \A i \in DOMAIN s : i < j + 1 => s[i].send # "yes"
    BY <2>1 DEF Ordered
  <2>3. Filled(m2, block) \/ \E i \in DOMAIN t : i < j /\ FullCall(t[i])
    <3>1. ASSUME NEW i \in DOMAIN s, i < j + 1, FullCall(s[i]), ~Filled(m2, block)
          PROVE  \E l \in DOMAIN t : l < j /\ FullCall(t[l])
      <4>1. i # 1 /\ i \in Nat /\ i - 1 \in DOMAIN t
        BY <1>1, <3>1
      <4>2. PICK l \in DOMAIN t : l \in Nat /\ l + 1 = i
        BY <4>1
      <4>3. t[l] = s[i] /\ l < j
        BY <1>1, <2>1, <3>1, <4>2
      <4> QED BY <3>1, <4>3
    <3> QED BY <2>2, <3>1
  <2>4. ASSUME NEW i \in DOMAIN t, i < j PROVE t[i].send # "yes"
    <3>1. i + 1 \in DOMAIN s /\ i + 1 < j + 1 /\ t[i] = s[i + 1]
      BY <1>1, <2>1, <2>4
    <3> QED BY <2>2, <3>1
  <2>5. Head(s).send # "yes"
    <3>1. 1 < j + 1
      BY <1>1, <2>1
    <3> QED BY <1>1, <2>2, <3>1
  <2> QED BY <2>3, <2>4, <2>5
<1>3. Ordered(t, m2, block)
  BY <1>2 DEF Ordered
<1>4. Head(s).type = "eHeader" => Filled(m, block)
  <2>1. \A i \in DOMAIN s : ~(i < 1)
    BY <1>1
  <2> QED BY <1>1, <2>1 DEF Ordered
<1>5. Head(s).send = "yes" => NoHeaderCall(t)
  BY <1>2 DEF NoHeaderCall
<1> QED BY <1>3, <1>4, <1>5 DEF t

\* More commands in the message, or a plan without headers, change nothing.
LEMMA StillOrdered ==
  ASSUME NEW s, NEW m, NEW m2, NEW block
  PROVE  /\ Ordered(s, m, block) /\ (Filled(m, block) => Filled(m2, block)) => Ordered(s, m2, block)
         /\ NoHeaderCall(s) => Ordered(s, m2, block)
BY DEF Ordered, NoHeaderCall

\* The order of what is sent every ten minutes, and every minute.
LEMMA EAllOrdered == ASSUME NEW m, NEW block PROVE Ordered(EAll, m, block)
<1>1. /\ DOMAIN EAll = 1..9 /\ FullCall(EAll[3])
      /\ \A j \in 1..9 : EAll[j].type = "eHeader" => j = 6
      /\ \A j \in 1..9 : EAll[j].send = "yes" => j = 9
  BY DEF EAll, FullCall, Call
<1> QED BY <1>1 DEF Ordered


-----------------------------------------------------------------------------
(* The order of the calls.                                                 *)

\* Messages and plans are sequences, and clean needs somebody who cleans.
LEMMA SequencesAre ==
  ASSUME IInv
  PROVE  /\ \E S : message \in Seq(S)
         /\ \E S : saving \in Seq(S)
         /\ \E S : channel \in Seq(S)
         /\ \E S : calls \in Seq(S)
         /\ NeverCleaned => cleaning # "yes"
<1>1. (\E S : message \in Seq(S)) /\ (\E S : saving \in Seq(S)) /\ (\E S : channel \in Seq(S))
  BY DEF IInv, Carried, MessageOK, ChannelOK
<1>2. \E S : calls \in Seq(S)
  BY DEF IInv, Planned, PlanOK
<1>3. NeverCleaned => cleaning # "yes"
  BY DEF IInv, Tested, NeverCleaned
<1> QED BY <1>1, <1>2, <1>3

LEMMA WalkOrdered ==
  ASSUME Walk, NEW block \in Blocks
  PROVE  Ordered(calls, message, block) /\ (pc = "send" => NoHeaderCall(calls))
BY DEF Walk

\* The main loop does not move.
LEMMA WalkKept ==
  ASSUME Walk, UNCHANGED main,
         NeverCleaned' => NeverCleaned,
         pc = "header" /\ NeverCleaned' => memory["client"].headers \subseteq memory'["client"].headers
  PROVE  Walk'
BY DEF Walk, main, Ordered, Filled, NoHeaderCall

\* A call is over.
LEMMA WalkCalled ==
  ASSUME IInv, Walk, calls # <<>>, Called,
         \A block \in Blocks :
           Filled(message, block) \/ FullCall(Head(calls)) => Filled(message', block)
  PROVE  Walk'
<1>1. /\ calls' = Tail(calls) /\ pc' \in {"send", "call"}
      /\ pc' = "send" => Head(calls).send = "yes"
  BY DEF Called
<1>2. PICK S : calls \in Seq(S)
  BY SequencesAre
<1>3. ASSUME NEW block \in Blocks
      PROVE  /\ Ordered(Tail(calls), message', block)
             /\ Head(calls).send = "yes" => NoHeaderCall(Tail(calls))
  <2>1. PICK m2 : m2 = message'
    OBVIOUS
  <2>2. Filled(message, block) \/ FullCall(Head(calls)) => Filled(m2, block)
    BY <2>1
  <2>3. Ordered(calls, message, block)
    BY WalkOrdered
  <2>4. /\ Ordered(Tail(calls), m2, block)
        /\ Head(calls).send = "yes" => NoHeaderCall(Tail(calls))
    BY <1>2, <2>2, <2>3, CallMade
  <2> QED BY <2>1, <2>4
<1> QED BY <1>1, <1>3 DEF Walk

\* One command or none is added by Gather; all registers by a full call.
LEMMA GatherAdds ==
  ASSUME IInv, Gather
  PROVE  \/ message' = message /\ \A block \in Blocks : ~FullCall(Head(calls))
         \/ \E c : /\ message' = Append(message, c) /\ c.type \in Tables
                   /\ \A block \in Blocks : FullCall(Head(calls)) => Fills(c, block)
                   /\ c.type = "eReg" => \A k \in DOMAIN Registers :
                        Writes(c, k) => Written(c, k) = memory["client"].values["eReg"][k]
<1>1. calls # <<>> /\ CallOK(Head(calls))
  <2>1. calls # <<>>
    BY DEF Gather, IInv, Planned
  <2> QED BY <2>1, PlanStep DEF IInv, Planned
<1>2. PICK m, call : m = memory["client"] /\ call = Head(calls)
  OBVIOUS
<1>3. message' = message \o Commands(m, call) /\ call.type \in Tables
  BY <1>2 DEF Gather
<1>4. PICK S : message \in Seq(S)
  BY SequencesAre
<1>5. message \o <<>> = message /\ \A c : message \o <<c>> = Append(message, c)
  BY <1>4, Added
<1>6. IsMemory(m) /\ DOMAIN m.values["eReg"] = DOMAIN Registers
  BY <1>2 DEF IInv, Typed, Whole, WholeMemory, WholeValues
<1>7. CASE call.type # "eReg"
  <2>1. ~FullCall(call)
    BY <1>7 DEF FullCall
  <2>2. ASSUME NEW adress, NEW payload,
               Commands(m, call) = <<[type |-> call.type, adress |-> adress, payload |-> payload]>>
        PROVE  \E c : Commands(m, call) = <<c>> /\ c.type = call.type
    BY <2>2
  <2>3. Commands(m, call) = <<>> \/ \E c : Commands(m, call) = <<c>> /\ c.type = call.type
    BY <2>2 DEF Commands
  <2> QED BY <1>2, <1>3, <1>5, <1>7, <2>1, <2>3
<1>8. CASE call.type = "eReg"
  <2>1. call.from \in Nat /\ call.to \in Nat
    BY <1>1, <1>2, <1>8 DEF CallOK, WholeRange
  <2>2. ASSUME FullCall(call)
        PROVE  /\ StartIndex(Registers, call.from) # NotFound
               /\ \A k \in DOMAIN Registers : Registers[k] \in call.from..call.to
    <3>1. StartIndex(Registers, 0) # NotFound
      BY DEF StartIndex, NotFound
    <3>2. Registers \in Seq(0..LastAdress)
      BY RegistersAscend DEF Ascending
    <3> QED BY <2>2, <3>1, <3>2, SeqElements DEF FullCall
  <2>3. CASE /\ Commands(m, call) = <<>>
             /\ \A k \in DOMAIN Registers :
                  StartIndex(Registers, call.from) # NotFound => Registers[k] \notin call.from..call.to
    <3>1. ASSUME NEW block \in Blocks PROVE ~FullCall(call)
      <4>1. PICK k \in DOMAIN Registers : TRUE
        BY BlockEntries
      <4> QED BY <2>2, <2>3, <4>1
    <3> QED BY <1>2, <1>3, <1>5, <2>3, <3>1
  <2>4. ASSUME NEW c, Commands(m, call) = <<c>>, c.type = "eReg",
               \A k \in DOMAIN Registers :
                 /\ Writes(c, k) <=> Registers[k] \in call.from..call.to
                 /\ Writes(c, k) => Written(c, k) = m.values["eReg"][k]
        PROVE  \E d : /\ message' = Append(message, d) /\ d.type \in Tables
                      /\ \A block \in Blocks : FullCall(Head(calls)) => Fills(d, block)
                      /\ d.type = "eReg" => \A k \in DOMAIN Registers :
                           Writes(d, k) => Written(d, k) = memory["client"].values["eReg"][k]
    <3>1. message' = Append(message, c) /\ c.type \in Tables
      BY <1>3, <1>5, <1>8, <2>4
    <3>2. \A block \in Blocks : FullCall(call) => Fills(c, block)
      BY <2>2, <2>4 DEF Fills
    <3> QED BY <1>2, <2>4, <3>1, <3>2
  <2> QED BY <1>6, <1>8, <2>1, <2>3, <2>4, Gathered
<1> QED BY <1>7, <1>8

\* A message that has grown by one command, or not at all.
LEMMA StillFilled ==
  ASSUME NEW S, NEW s \in Seq(S), NEW c, NEW block, Filled(s, block)
  PROVE  Filled(Append(s, c), block)
BY CommandAdded

\* Every step of the main loop keeps the order.
LEMMA WalkStep ==
  ASSUME IInv, Walk,
         \/ \E plan \in {EAll, ERealtime} : BeginPass(plan)
         \/ MainStep
  PROVE  Walk'
<1>1. PICK S : message \in Seq(S)
  BY SequencesAre
<1>2. ASSUME NEW plan \in {EAll, ERealtime}, BeginPass(plan) PROVE Walk'
  <2>1. pc' = "call" /\ calls' = plan /\ message' = message
    BY <1>2 DEF BeginPass
  <2>2. ASSUME NEW block PROVE Ordered(plan, message, block)
    <3>1. Ordered(ERealtime, message, block)
      BY ERealtimeOK DEF Ordered
    <3> QED BY <3>1, EAllOrdered
  <2> QED BY <2>1, <2>2 DEF Walk
<1>3. CASE Gather
  <2>1. calls # <<>> /\ Called
    BY <1>3 DEF Gather, IInv, Planned
  <2>2. ASSUME NEW block \in Blocks, Filled(message, block) \/ FullCall(Head(calls))
        PROVE  Filled(message', block)
    <3>1. CASE message' = message /\ ~FullCall(Head(calls))
      BY <2>2, <3>1
    <3>2. ASSUME NEW c, message' = Append(message, c), FullCall(Head(calls)) => Fills(c, block)
          PROVE  Filled(message', block)
      <4>1. Filled(Append(message, c), block)
        BY <1>1, <2>2, <3>2, CommandAdded
      <4> QED BY <3>2, <4>1
    <3> QED BY <1>3, <3>1, <3>2, GatherAdds
  <2> QED BY <2>1, <2>2, WalkCalled
<1>4. CASE EndScan
  <2>1. calls # <<>> /\ Called /\ message' = message /\ ~FullCall(Head(calls))
    BY <1>4 DEF EndScan, IInv, Planned, Walk, FullCall
  <2> QED BY <2>1, WalkCalled
<1>5. CASE Scan \/ GetHeader \/ TestAlternate
  <2>1. UNCHANGED <<memory, calls, message, cleans>> /\ pc' \notin {"send", "idle"}
    BY <1>5 DEF Scan, GetHeader, TestAlternate, Scanning
  <2>2. pc' \in {"scan", "get"} => Head(calls).type # "eReg"
    BY <1>5 DEF Scan, GetHeader, TestAlternate, Scanning
  <2>3. pc' = "header" => /\ Head(calls).type = "eHeader" /\ n' \in DOMAIN Registers
                          /\ Registers[n'] \in memory["client"].headers
    <3>1. n <= Len(Registers) /\ n \in Nat /\ n > 0 => n \in DOMAIN Registers
      BY FoundIndex
    <3> QED BY <1>5, <3>1 DEF Scan, GetHeader, TestAlternate, Scanning, IInv, Typed
  <2> QED BY <2>1, <2>2, <2>3 DEF Walk
<1>6. CASE AddHeader \/ GetAlternate
  <2>1. /\ UNCHANGED <<memory, calls, cleans>> /\ pc' = "scan" /\ Head(calls).type # "eReg"
        /\ \E c : message' = Append(message, c)
    BY <1>6 DEF AddHeader, GetAlternate, Walk
  <2>2. ASSUME NEW block \in Blocks PROVE Ordered(calls, message', block)
    <3>1. PICK m2, c : m2 = message' /\ m2 = Append(message, c)
      BY <2>1
    <3>2. Ordered(calls, message, block) /\ (Filled(message, block) => Filled(m2, block))
      BY <1>1, <3>1, StillFilled, WalkOrdered
    <3>3. Ordered(calls, m2, block)
      BY <3>2, StillOrdered
    <3> QED BY <3>1, <3>3
  <2> QED BY <2>1, <2>2 DEF Walk
<1>7. CASE Send
  <2>1. pc = "send" /\ pc' \in {"idle", "call"} /\ message' = <<>> /\ calls' = calls
    BY <1>7 DEF Send
  <2>2. ASSUME NEW block \in Blocks PROVE Ordered(calls, <<>>, block)
    BY <2>1, StillOrdered, WalkOrdered
  <2> QED BY <2>1, <2>2 DEF Walk
<1> QED BY <1>2, <1>3, <1>4, <1>5, <1>6, <1>7 DEF MainStep

-----------------------------------------------------------------------------
(* The flow of a block.                                                    *)

\* What a step does if neither memory's registers and headers nor the messages change.
LEMMA FlowKept ==
  ASSUME NEW block, Flow(block), UNCHANGED <<message, channel, saving>>,
         \A h \in Hosts : /\ memory'[h].values["eReg"] = memory[h].values["eReg"]
                          /\ memory'[h].headers = memory[h].headers,
         pc' # "idle" => pc # "idle"
  PROVE  Flow(block)'
<1>1. /\ Headed("client", block)' <=> Headed("client", block)
      /\ Headed("server", block)' <=> Headed("server", block)
      /\ KnownOn("client", block)' <=> KnownOn("client", block)
      /\ KnownOn("server", block)' <=> KnownOn("server", block)
  BY DEF Headed, KnownOn, Hosts
<1>2. (Quiet(block)' <=> Quiet(block)) /\ (Settled(block)' <=> Settled(block))
  BY <1>1 DEF Quiet, Settled
<1> QED BY <1>1, <1>2 DEF Flow

\* A pass begins: nothing is on its way, and what is known now is settled.
LEMMA FlowBegins ==
  ASSUME Walk, NEW block, Flow(block), NEW plan, BeginPass(plan)
  PROVE  Flow(block)'
<1>1. /\ UNCHANGED <<memory, message, channel, saving>>
      /\ channel = <<>> /\ saving = <<>> /\ message = <<>>
  BY DEF BeginPass, link, Walk
<1>2. Headed("client", block) => Settled(block)
  <2>1. Headed("server", block) => KnownOn("server", block)
    BY DEF Flow, Quiet, Settled
  <2>2. KnownIn(saving, block) /\ Led(saving, block) /\ KnownIn(message, block) /\ Led(message, block)
    BY <1>1, NothingBrought
  <2>3. DOMAIN channel = {}
    BY <1>1
  <2> QED BY <2>1, <2>2, <2>3 DEF Settled
<1>3. /\ Headed("client", block)' <=> Headed("client", block)
      /\ KnownOn("client", block)' <=> KnownOn("client", block)
      /\ Quiet(block)' <=> Quiet(block)
      /\ Settled(block)' <=> Settled(block)
  BY <1>1 DEF Headed, KnownOn, Quiet, Settled
<1> QED BY <1>2, <1>3 DEF Flow

\* A command is added to the message.
LEMMA FlowAdded ==
  ASSUME IInv, NEW block, Flow(block), pc # "idle",
         UNCHANGED <<memory, channel, saving>>, NEW c, message' = Append(message, c),
         HeaderOf(c, block) => Headed("client", block) /\ Filled(message, block),
         KnownOn("client", block) => BringsNoUnknown(c, block)
  PROVE  Flow(block)'
<1>1. PICK S : message \in Seq(S)
  BY SequencesAre
<1>2. PICK m2 : m2 = message' /\ m2 = Append(message, c)
  OBVIOUS
<1>3. /\ KnownIn(message, block) /\ BringsNoUnknown(c, block) => KnownIn(m2, block)
      /\ NoHeader(message, block) /\ ~HeaderOf(c, block) => NoHeader(m2, block)
      /\ Led(message, block) /\ (HeaderOf(c, block) => Filled(message, block)) => Led(m2, block)
  BY <1>1, <1>2, CommandAdded
<1>4. /\ Headed("client", block)' <=> Headed("client", block)
      /\ Headed("server", block)' <=> Headed("server", block)
      /\ KnownOn("client", block)' <=> KnownOn("client", block)
      /\ KnownOn("server", block)' <=> KnownOn("server", block)
  BY DEF Headed, KnownOn
<1>5. ASSUME Headed("client", block) PROVE Settled(block)'
  <2>1. Settled(block) /\ KnownOn("client", block)
    BY <1>5 DEF Flow
  <2> QED BY <1>2, <1>3, <1>4, <2>1 DEF Settled
<1>6. ASSUME ~Headed("client", block) PROVE Quiet(block)'
  <2>1. Quiet(block)
    BY <1>6 DEF Flow, Settled
  <2> QED BY <1>2, <1>3, <1>4, <1>6, <2>1 DEF Quiet
<1> QED BY <1>4, <1>5, <1>6 DEF Flow

\* Gather adds what the client knows.
LEMMA FlowGathers ==
  ASSUME IInv, NEW block, Flow(block), Gather
  PROVE  Flow(block)'
<1>1. pc = "call" /\ UNCHANGED <<memory, channel, saving>>
  BY DEF Gather, link
<1>2. ASSUME NEW c, message' = Append(message, c), c.type \in Tables,
             c.type = "eReg" => \A k \in DOMAIN Registers :
               Writes(c, k) => Written(c, k) = memory["client"].values["eReg"][k]
      PROVE  Flow(block)'
  <2>1. ~HeaderOf(c, block)
    BY <1>2 DEF HeaderOf, Tables, DeviceTables, UserTables
  <2>2. KnownOn("client", block) => BringsNoUnknown(c, block)
    BY <1>2 DEF KnownOn, BringsNoUnknown
  <2> QED BY <1>1, <1>2, <2>1, <2>2, FlowAdded
<1>3. CASE message' = message
  BY <1>1, <1>3, FlowKept
<1> QED BY <1>2, <1>3, GatherAdds

\* A header is added after the registers.
LEMMA FlowHeads ==
  ASSUME IInv, Walk, NeverCleaned, NEW block \in Blocks, Flow(block), AddHeader
  PROVE  Flow(block)'
<1>1. /\ pc = "header" /\ UNCHANGED <<memory, channel, saving>> /\ cleaning # "yes"
      /\ calls # <<>> /\ Head(calls).type = "eHeader" /\ Registers[n] \in memory["client"].headers
  BY SequencesAre DEF AddHeader, link, Walk, IInv, Planned
<1>2. PICK c : /\ message' = Append(message, c) /\ c.type = "eHeader" /\ c.adress = Registers[n]
  <2>1. PICK adress \in {Registers[n], LastAdress} :
          /\ adress = LastAdress => cleaning = "yes"
          /\ message' = Append(message, [type |-> "eHeader", adress |-> adress, payload |-> <<>>])
    BY DEF AddHeader
  <2>2. adress = Registers[n]
    BY <1>1, <2>1
  <2>3. PICK c : c = [type |-> "eHeader", adress |-> adress, payload |-> <<>>]
    OBVIOUS
  <2> QED BY <2>1, <2>2, <2>3
<1>3. Filled(message, block)
  <2>1. PICK S : calls \in Seq(S)
    BY SequencesAre
  <2>2. Filled(message, block) \/ FullCall(Head(calls)) => Filled(message, block)
    BY <1>1 DEF FullCall
  <2> QED BY <1>1, <2>1, <2>2, WalkOrdered, CallMade
<1>4. HeaderOf(c, block) => Headed("client", block)
  BY <1>1, <1>2 DEF HeaderOf, Headed
<1>5. BringsNoUnknown(c, block)
  BY <1>2 DEF BringsNoUnknown
<1> QED BY <1>1, <1>2, <1>3, <1>4, <1>5, FlowAdded

\* An override is added.
LEMMA FlowOverrides ==
  ASSUME IInv, NEW block, Flow(block), GetAlternate
  PROVE  Flow(block)'
<1>1. PICK c : message' = Append(message, c) /\ c.type = "eUser"
  BY DEF GetAlternate
<1>2. pc = "get" /\ UNCHANGED <<memory, channel, saving>>
  BY DEF GetAlternate, link
<1>3. ~HeaderOf(c, block) /\ BringsNoUnknown(c, block)
  BY <1>1 DEF HeaderOf, BringsNoUnknown
<1> QED BY <1>1, <1>2, <1>3, FlowAdded

\* A message on its way: sent, lost, received.
LEMMA FlowLinks ==
  ASSUME IInv, NEW block, Flow(block), Send \/ Lose \/ Receive
  PROVE  Flow(block)'
<1>1. memory' = memory /\ (pc' # "idle" => pc # "idle")
  BY DEF Send, Lose, Receive, main
<1>2. /\ Headed("client", block)' <=> Headed("client", block)
      /\ Headed("server", block)' <=> Headed("server", block)
      /\ KnownOn("client", block)' <=> KnownOn("client", block)
      /\ KnownOn("server", block)' <=> KnownOn("server", block)
  BY <1>1 DEF Headed, KnownOn
<1>3. PICK S : channel \in Seq(S)
  BY SequencesAre
<1>4. CASE Send
  <2>1. channel' = Append(channel, message) /\ message' = <<>> /\ saving' = saving
    BY <1>4 DEF Send
  <2>2. PICK next : next = channel' /\ next = Append(channel, message)
    BY <2>1
  <2>3. \A i \in DOMAIN next : next[i] = message \/ \E j \in DOMAIN channel : next[i] = channel[j]
    BY <1>3, <2>2, Added
  <2>4. Quiet(block) => Quiet(block)'
    BY <1>2, <2>1, <2>2, <2>3, NothingBrought DEF Quiet
  <2>5. Settled(block) => Settled(block)'
    BY <1>2, <2>1, <2>2, <2>3, NothingBrought DEF Settled
  <2> QED BY <1>1, <1>2, <2>4, <2>5 DEF Flow
<1>5. CASE Lose \/ Receive
  <2>1. /\ channel # <<>> /\ channel' = Tail(channel) /\ message' = message
        /\ saving' = saving \/ saving' = Head(channel)
    BY <1>5 DEF Lose, Receive, main
  <2>2. PICK next, first : next = channel' /\ next = Tail(channel) /\ first = Head(channel)
    BY <2>1
  <2>3. /\ \E j \in DOMAIN channel : first = channel[j]
        /\ \A i \in DOMAIN next : \E j \in DOMAIN channel : next[i] = channel[j]
    BY <1>3, <2>1, <2>2, Taken
  <2>4. Quiet(block) => Quiet(block)'
    BY <1>2, <2>1, <2>2, <2>3 DEF Quiet
  <2>5. Settled(block) => Settled(block)'
    BY <1>2, <2>1, <2>2, <2>3 DEF Settled
  <2> QED BY <1>1, <1>2, <2>4, <2>5 DEF Flow
<1> QED BY <1>4, <1>5

\* The client saves an answer: it gets the header of the block it gets, or none.
LEMMA FlowReads ==
  ASSUME IInv, NEW block \in Blocks, Flow(block), ReadSomething
  PROVE  Flow(block)'
<1>1. PICK table, adress, length :
        ReadTracer(table, adress, length) /\ (table = "eReg" => Asks(adress, length))
  BY DEF ReadSomething, Asks, Registers
<1>2. PICK reading, payload :
        /\ reading = budget'.reads /\ payload = [k \in 1..length |-> reading]
        /\ memory' = [memory EXCEPT !["client"] = SaveAnswer(@, table, adress, payload)]
  BY <1>1 DEF ReadTracer
<1>3. /\ pc = "idle" /\ pc' = "idle" /\ UNCHANGED <<message, channel, saving>>
  BY <1>1 DEF ReadTracer, main, link
<1>4. reading \in 0..MaxReads /\ reading # Unknown
  <2>1. budget["reads"] \in Nat /\ MaxReads \in Nat /\ MaxPuts \in Nat /\ MaxReads + MaxPuts < Unknown
        /\ budget.reads < MaxReads
    BY <1>1, MirrorAssumption, WideAssumption DEF ReadTracer, IInv, Told
  <2>2. reading = budget.reads + 1
    BY <1>1, <1>2 DEF ReadTracer, IInv, Typed
  <2>3. Unknown \in Nat
    BY DEF Unknown
  <2> QED BY <2>1, <2>2, <2>3
<1>5. PICK m, new : m = memory["client"] /\ new = SaveAnswer(m, table, adress, payload)
  OBVIOUS
<1>6. IsMemory(m) /\ "eReg" \in DOMAIN m.values /\ DOMAIN m.values["eReg"] = DOMAIN Registers
  BY <1>5 DEF IInv, Typed, Whole, WholeMemory, WholeValues
<1>7. memory'["client"] = new /\ memory'["server"] = memory["server"]
  BY <1>2, <1>5 DEF IInv, Typed, Hosts
<1>8. /\ table # "eReg" => new.values["eReg"] = m.values["eReg"] /\ new.headers = m.headers
      /\ table = "eReg" =>
           /\ new.values["eReg"] = Overwrite(m.values["eReg"], StartIndex(Registers, adress), payload)
           /\ new.headers = m.headers \/ new.headers = m.headers \cup {adress}
  BY <1>5, <1>6, AnsweredRegisters
<1>9. CASE table # "eReg"
  BY <1>3, <1>5, <1>7, <1>8, <1>9, FlowKept DEF Hosts
<1>10. CASE table = "eReg"
  <2>2. PICK c : c = [type |-> "eReg", adress |-> adress, payload |-> payload]
    OBVIOUS
  <2>3. /\ c.adress = adress /\ c.payload = payload
        /\ Asks(c.adress, length) /\ c.payload = [k \in 1..length |-> reading]
    BY <1>1, <1>2, <1>10, <2>2
  <2>4. /\ \A k \in DOMAIN Registers : Writes(c, k) => Written(c, k) = reading
        /\ block[1] = c.adress => \A k \in DOMAIN Registers : Within(block, k) => Writes(c, k)
    BY <1>4, <2>3, AnswerWrites
  <2>5. PICK f, g : f = m.values["eReg"] /\ g = new.values["eReg"]
    OBVIOUS
  <2>6. \A k \in DOMAIN Registers : g[k] = IF Writes(c, k) THEN reading ELSE f[k]
    <3>1. g = Overwrite(f, StartIndex(Registers, c.adress), c.payload)
      BY <1>8, <1>10, <2>3, <2>5
    <3>2. \A k \in DOMAIN Registers : g[k] = IF Writes(c, k) THEN Written(c, k) ELSE f[k]
      <4>1. DOMAIN f = DOMAIN Registers
        BY <1>6, <2>5
      <4> QED BY <3>1, <4>1, Overwritten
    <3> QED BY <2>4, <3>2
  <2>7. KnownOn("client", block) => KnownOn("client", block)'
    BY <1>4, <1>5, <1>7, <2>5, <2>6 DEF KnownOn
  <2>8. block[1] = adress => KnownOn("client", block)'
    BY <1>4, <1>7, <2>3, <2>4, <2>5, <2>6 DEF KnownOn
  <2>9. /\ Headed("client", block) => Headed("client", block)'
        /\ Headed("client", block)' => Headed("client", block) \/ block[1] = adress
    BY <1>5, <1>7, <1>8, <1>10 DEF Headed
  <2>11. Headed("client", block)' => KnownOn("client", block)'
    BY <2>7, <2>8, <2>9 DEF Flow
  <2>12. /\ Headed("server", block)' <=> Headed("server", block)
         /\ KnownOn("server", block)' <=> KnownOn("server", block)
    BY <1>7 DEF Headed, KnownOn
  <2>13. (Quiet(block) => Quiet(block)') /\ (Settled(block) => Settled(block)')
    BY <1>3, <2>9, <2>12 DEF Quiet, Settled
  <2> QED BY <1>3, <2>11, <2>13 DEF Flow
<1> QED BY <1>9, <1>10

\* The server saves a command.
LEMMA FlowSaves ==
  ASSUME IInv, NEW block \in Blocks, Flow(block), SaveCommand
  PROVE  Flow(block)'
<1>1. /\ saving # <<>> /\ UNCHANGED <<message, channel, pc>>
      /\ memory' = [memory EXCEPT !["server"] = Save(@, Head(saving))]
  BY DEF SaveCommand, main
<1>2. PICK c, rest : c = Head(saving) /\ rest = Tail(saving) /\ saving' = rest
  BY DEF SaveCommand
<1>3. PICK S : saving \in Seq(S)
  BY SequencesAre
<1>4. /\ KnownIn(saving, block) => KnownIn(rest, block) /\ BringsNoUnknown(c, block)
      /\ NoHeader(saving, block) => NoHeader(rest, block) /\ ~HeaderOf(c, block)
      /\ Led(saving, block) => ~HeaderOf(c, block) /\ (Fills(c, block) \/ Led(rest, block))
  BY <1>1, <1>2, <1>3, CommandTaken
<1>5. PICK m, new : m = memory["server"] /\ new = Save(m, c)
  OBVIOUS
<1>6. IsMemory(m) /\ "eReg" \in DOMAIN m.values /\ DOMAIN m.values["eReg"] = DOMAIN Registers
  BY <1>5 DEF IInv, Typed, Whole, WholeMemory, WholeValues
<1>7. c.type \in Types
  BY <1>1, <1>2, Messages DEF IInv, Carried, CommandOK
<1>8. memory'["server"] = new /\ memory'["client"] = memory["client"]
  BY <1>1, <1>2, <1>5 DEF IInv, Typed, Hosts
<1>9. /\ c.type # "eReg" => new.values["eReg"] = m.values["eReg"]
      /\ c.type = "eReg" =>
           new.values["eReg"] = Overwrite(m.values["eReg"], StartIndex(Registers, c.adress), c.payload)
      /\ c.type # "eHeader" => new.headers = m.headers
      /\ c.type = "eHeader" => new.headers = m.headers \cup ({c.adress} \ {LastAdress})
  BY <1>5, <1>6, <1>7, SavedRegisters
<1>10. PICK f, g : f = m.values["eReg"] /\ g = new.values["eReg"]
  OBVIOUS
<1>11. /\ c.type # "eReg" => g = f
       /\ c.type = "eReg" => \A k \in DOMAIN Registers :
            g[k] = IF Writes(c, k) THEN Written(c, k) ELSE f[k]
  <2>1. DOMAIN f = DOMAIN Registers
    BY <1>6, <1>10
  <2>2. ASSUME c.type = "eReg"
        PROVE  \A k \in DOMAIN Registers : g[k] = IF Writes(c, k) THEN Written(c, k) ELSE f[k]
    <3>1. g = Overwrite(f, StartIndex(Registers, c.adress), c.payload)
      BY <1>9, <1>10, <2>2
    <3> QED BY <2>1, <3>1, Overwritten
  <2> QED BY <1>9, <1>10, <2>2
<1>12. BringsNoUnknown(c, block) =>
         /\ KnownOn("server", block) => KnownOn("server", block)'
         /\ Fills(c, block) => KnownOn("server", block)'
  BY <1>5, <1>8, <1>10, <1>11 DEF BringsNoUnknown, KnownOn, Fills
<1>13. Headed("server", block)' => Headed("server", block) \/ HeaderOf(c, block)
  BY <1>5, <1>7, <1>8, <1>9 DEF Headed, HeaderOf
<1>14. /\ Headed("client", block)' <=> Headed("client", block)
       /\ KnownOn("client", block)' <=> KnownOn("client", block)
  BY <1>8 DEF Headed, KnownOn
<1>15. Quiet(block) => Quiet(block)'
  BY <1>1, <1>2, <1>4, <1>13 DEF Quiet
<1>16. ASSUME Settled(block) PROVE Settled(block)'
  <2>1. /\ Headed("client", block) /\ (Headed("server", block) => KnownOn("server", block))
        /\ KnownIn(saving, block) /\ (KnownOn("server", block) \/ Led(saving, block))
        /\ \A i \in DOMAIN channel : KnownIn(channel[i], block) /\ Led(channel[i], block)
        /\ KnownIn(message, block) /\ Led(message, block)
    BY <1>16 DEF Settled
  <2>2. Headed("server", block)' => KnownOn("server", block)'
    BY <1>4, <1>12, <1>13, <2>1
  <2>3. KnownIn(rest, block) /\ (KnownOn("server", block)' \/ Led(rest, block))
    BY <1>4, <1>12, <2>1
  <2> QED BY <1>1, <1>2, <1>14, <2>1, <2>2, <2>3 DEF Settled
<1> QED BY <1>1, <1>14, <1>15, <1>16 DEF Flow

\* Users leave registers and headers alone.
LEMMA UserKeeps ==
  ASSUME IInv, NEW h \in Hosts, User(h), ~CleanAlternates(h)
  PROVE  /\ UNCHANGED <<main, link, asked, cleans>>
         /\ \A k \in Hosts : /\ memory'[k].values["eReg"] = memory[k].values["eReg"]
                             /\ memory'[k].headers = memory[k].headers
<1>1. \/ \E table, adress : SetReg(h, table, adress)
      \/ \E adress : SetReg32(h, adress)
  BY DEF User
<1>2. PICK m, new : m = memory[h] /\ memory' = [memory EXCEPT ![h] = new]
                    /\ (\/ \E table, adress, v : new = Put(m, table, adress, v)
                        \/ \E adress, v : new = Put32(m, adress, v, v))
  BY <1>1 DEF SetReg, SetReg32
<1>3. IsMemory(m) /\ "eReg" \in DOMAIN m.values
  BY <1>2 DEF IInv, Typed, Whole, WholeMemory, Hosts
<1>4. new.values["eReg"] = m.values["eReg"] /\ new.headers = m.headers
  BY <1>2, <1>3, PutRegisters
<1>5. \A k \in Hosts : memory'[k] = IF k = h THEN new ELSE memory[k]
  BY <1>2 DEF IInv, Typed
<1>6. UNCHANGED <<main, link, asked, cleans>>
  BY <1>1 DEF SetReg, SetReg32
<1> QED BY <1>2, <1>4, <1>5, <1>6

-----------------------------------------------------------------------------
(* AnswersKnown.                                                           *)

\* Headers are there to stay, unless a memory is cleaned.
HeadersStay == \A h \in Hosts : memory[h].headers \subseteq memory'[h].headers

LEMMA AskedKept ==
  ASSUME HeadersStay, NEW h \in Hosts, AskedFor(h), asked'[h] = asked[h]
  PROVE  AskedFor(h)'
BY DEF AskedFor, Headed, HeadersStay

\* The client's and the server's headers in the steps that touch them.
LEMMA StepHeaders ==
  ASSUME IInv, ReadSomething \/ SaveCommand
  PROVE  HeadersStay
<1>1. CASE ReadSomething
  <2>1. PICK table, adress, payload :
          memory' = [memory EXCEPT !["client"] = SaveAnswer(@, table, adress, payload)]
    BY <1>1 DEF ReadSomething, ReadTracer
  <2>2. PICK m, new : m = memory["client"] /\ new = SaveAnswer(m, table, adress, payload)
    OBVIOUS
  <2>3. m.headers \subseteq new.headers
    <3>1. IsMemory(m) /\ "eReg" \in DOMAIN m.values
      BY <2>2 DEF IInv, Typed, Whole, WholeMemory
    <3> QED BY <2>2, <3>1, AnsweredRegisters
  <2>4. memory'["client"] = new /\ memory'["server"] = memory["server"]
    BY <2>1, <2>2 DEF IInv, Typed, Hosts
  <2> QED BY <2>2, <2>3, <2>4 DEF HeadersStay, Hosts
<1>2. CASE SaveCommand
  <2>1. PICK m, c, new : /\ m = memory["server"] /\ c = Head(saving) /\ new = Save(m, c)
                         /\ memory' = [memory EXCEPT !["server"] = new] /\ saving # <<>>
    BY <1>2 DEF SaveCommand
  <2>2. IsMemory(m) /\ "eReg" \in DOMAIN m.values
    BY <2>1 DEF IInv, Typed, Whole, WholeMemory
  <2>3. c.type \in Types
    BY <2>1, Messages DEF IInv, Carried, CommandOK
  <2>4. m.headers \subseteq new.headers
    BY <2>1, <2>2, <2>3, SavedRegisters
  <2>5. memory'["server"] = new /\ memory'["client"] = memory["client"]
    BY <2>1 DEF IInv, Typed, Hosts
  <2> QED BY <2>1, <2>4, <2>5 DEF HeadersStay, Hosts
<1> QED BY <1>1, <1>2

\* A step that changes no registers, headers or messages.
LEMMA BlockedKept ==
  ASSUME Blocked, UNCHANGED <<message, channel, saving, asked>>,
         \A h \in Hosts : /\ memory'[h].values["eReg"] = memory[h].values["eReg"]
                          /\ memory'[h].headers = memory[h].headers,
         pc' # "idle" => pc # "idle"
  PROVE  Blocked'
<1>1. \A block \in Blocks : Flow(block)'
  BY FlowKept DEF Blocked
<1>2. \A h \in Hosts : AskedFor(h)'
  BY DEF Blocked, AskedFor, Headed
<1> QED BY <1>1, <1>2 DEF Blocked

\* A step that keeps the flow of every block and the headers.
LEMMA BlockedFlows ==
  ASSUME Blocked, asked' = asked, HeadersStay, \A block \in Blocks : Flow(block)'
  PROVE  Blocked'
<1>1. \A h \in Hosts : AskedFor(h)'
  BY AskedKept DEF Blocked
<1> QED BY <1>1 DEF Blocked

\* A display asks or answers.
LEMMA BlockedAsked ==
  ASSUME Blocked, NEW g \in Hosts, Display(g), asked = [h \in Hosts |-> asked[h]]
  PROVE  Blocked'
<1>1. UNCHANGED <<memory, main, link>>
  BY DEF Display, AskBlock, AnswerBlock
<1>2. \A block \in Blocks : Flow(block)'
  BY <1>1, FlowKept DEF Blocked, main, link
<1>3. ASSUME NEW h \in Hosts PROVE AskedFor(h)'
  <2>1. CASE AnswerBlock(g)
    <3>1. asked'[h] = <<>> \/ asked'[h] = asked[h]
      BY <2>1 DEF AnswerBlock
    <3> QED BY <1>1, <3>1 DEF Blocked, AskedFor, Headed
  <2>2. ASSUME NEW range \in Shown, AskBlock(g, range) PROVE AskedFor(h)'
    <3>1. /\ range[1] \in memory[g].headers
          /\ (h = g /\ asked'[h] = range) \/ asked'[h] = asked[h]
      BY <2>2 DEF AskBlock
    <3> QED BY <1>1, <3>1 DEF Blocked, AskedFor, Headed
  <2> QED BY <2>1, <2>2 DEF Display
<1> QED BY <1>2, <1>3 DEF Blocked

\* Whoever cleans does not undo it.
LEMMA CleaningCounts ==
  ASSUME IInv, \/ CleanServer \/ BeginClean \/ EndClean
               \/ \E h \in Hosts : CleanAlternates(h)
  PROVE  UNCHANGED <<main, asked>> /\ ~NeverCleaned'
<1>1. cleans \in [Hosts -> Nat]
  BY DEF IInv, Typed
<1>2. ASSUME NEW h \in Hosts, Cleaned(h) PROVE ~NeverCleaned'
  <2>1. cleans'[h] = cleans[h] + 1 /\ cleans[h] \in Nat
    BY <1>1, <1>2 DEF Cleaned
  <2>2. cleans'[h] # 0
    BY <2>1
  <2> QED BY <2>2 DEF NeverCleaned, Hosts
<1>3. CASE EndClean
  <2>1. cleaning = "yes" /\ cleans' = cleans
    BY <1>3 DEF EndClean
  <2> QED BY <1>3, <2>1, SequencesAre DEF EndClean, NeverCleaned
<1>4. CASE CleanServer \/ BeginClean \/ \E h \in Hosts : CleanAlternates(h)
  <2>1. \E h \in Hosts : Cleaned(h)
    BY <1>4 DEF CleanServer, BeginClean, CleanAlternates, Hosts
  <2>2. UNCHANGED <<main, asked>>
    BY <1>4 DEF CleanServer, BeginClean, CleanAlternates
  <2> QED BY <1>2, <2>1, <2>2
<1> QED BY <1>3, <1>4

\* Every step keeps the order of what is sent.
LEMMA WalkAlways == ASSUME IInv, Walk, [Next]_vars PROVE Walk'
<1>1. CASE BeginPass(EAll) \/ BeginPass(ERealtime) \/ MainStep
  BY <1>1, WalkStep
<1>2. CASE ReadSomething \/ SaveCommand
  <2>1. UNCHANGED <<main, cleans>>
    BY <1>2 DEF ReadSomething, ReadTracer, SaveCommand
  <2> QED BY <1>2, <2>1, WalkKept, StepHeaders DEF HeadersStay, Hosts, NeverCleaned
<1>3. CASE \/ Lose \/ Receive \/ UNCHANGED vars
           \/ \E h \in Hosts : Display(h)
  <2>1. UNCHANGED <<main, cleans, memory>>
    BY <1>3 DEF Lose, Receive, Display, AnswerBlock, AskBlock, vars
  <2> QED BY <2>1, WalkKept DEF NeverCleaned
<1>4. CASE \/ CleanServer \/ BeginClean \/ EndClean
           \/ \E h \in Hosts : CleanAlternates(h)
  BY <1>4, CleaningCounts, WalkKept
<1>5. ASSUME NEW h \in Hosts, User(h), ~CleanAlternates(h) PROVE Walk'
  <2>1. UNCHANGED <<main, cleans>> /\ memory'["client"].headers = memory["client"].headers
    BY <1>5, UserKeeps DEF Hosts
  <2> QED BY <2>1, WalkKept DEF NeverCleaned
<1> QED BY <1>1, <1>2, <1>3, <1>4, <1>5 DEF Next, Server

\* Every step keeps what is known of the blocks, unless it cleans a memory.
LEMMA BlockedAlways ==
  ASSUME IInv, KInv, [Next]_vars, NeverCleaned'
  PROVE  Blocked'
<1>1. ~(\/ CleanServer \/ BeginClean \/ EndClean \/ \E h \in Hosts : CleanAlternates(h))
  BY CleaningCounts
<1>2. cleans' = cleans
  <2>1. CASE MainStep \/ Lose \/ Server
    BY <2>1 DEF MainStep, Gather, Scan, EndScan, GetHeader, AddHeader, TestAlternate, GetAlternate,
                Send, Lose, Server, Receive, SaveCommand
  <2>2. CASE ReadSomething \/ BeginPass(EAll) \/ BeginPass(ERealtime) \/ UNCHANGED vars
    BY <2>2 DEF ReadSomething, ReadTracer, BeginPass, vars
  <2>3. ASSUME NEW h \in Hosts, User(h) \/ Display(h) PROVE cleans' = cleans
    BY <1>1, <2>3, UserKeeps DEF Display, AnswerBlock, AskBlock
  <2> QED BY <1>1, <2>1, <2>2, <2>3 DEF Next
<1>3. NeverCleaned /\ Blocked /\ Walk /\ asked = [h \in Hosts |-> asked[h]]
  BY <1>2 DEF NeverCleaned, KInv
<1>4. memory' = memory => HeadersStay
  BY DEF HeadersStay
<1>5. \A block \in Blocks : Flow(block)
  BY <1>3 DEF Blocked
<1>6. CASE ReadSomething \/ SaveCommand
  <2>1. asked' = asked
    BY <1>6 DEF ReadSomething, ReadTracer, SaveCommand
  <2>2. \A block \in Blocks : Flow(block)'
    BY <1>5, <1>6, FlowReads, FlowSaves
  <2> QED BY <1>3, <1>6, <2>1, <2>2, StepHeaders, BlockedFlows
<1>7. CASE BeginPass(EAll) \/ BeginPass(ERealtime)
  <2>1. asked' = asked /\ memory' = memory
    BY <1>7 DEF BeginPass
  <2>2. \A block \in Blocks : Flow(block)'
    BY <1>3, <1>5, <1>7, FlowBegins
  <2> QED BY <1>3, <1>4, <2>1, <2>2, BlockedFlows
<1>8. CASE Gather \/ AddHeader \/ GetAlternate \/ Send \/ Lose \/ Receive
  <2>1. asked' = asked /\ memory' = memory
    BY <1>8 DEF Gather, AddHeader, GetAlternate, Send, Lose, Receive
  <2>2. \A block \in Blocks : Flow(block)'
    BY <1>3, <1>5, <1>8, FlowGathers, FlowHeads, FlowOverrides, FlowLinks
  <2> QED BY <1>3, <1>4, <2>1, <2>2, BlockedFlows
<1>9. CASE Scan \/ EndScan \/ GetHeader \/ TestAlternate \/ UNCHANGED vars
  <2>1. UNCHANGED <<memory, message, channel, saving, asked>> /\ (pc' # "idle" => pc # "idle")
    BY <1>9 DEF Scan, EndScan, GetHeader, TestAlternate, Scanning, link, main, vars
  <2> QED BY <1>3, <2>1, BlockedKept
<1>10. ASSUME NEW h \in Hosts, User(h) PROVE Blocked'
  <2>1. /\ UNCHANGED <<message, channel, saving, asked, pc>>
        /\ \A k \in Hosts : /\ memory'[k].values["eReg"] = memory[k].values["eReg"]
                            /\ memory'[k].headers = memory[k].headers
    BY <1>1, <1>10, UserKeeps DEF main, link
  <2> QED BY <1>3, <2>1, BlockedKept
<1>11. ASSUME NEW h \in Hosts, Display(h) PROVE Blocked'
  BY <1>3, <1>11, BlockedAsked
<1> QED BY <1>1, <1>6, <1>7, <1>8, <1>9, <1>10, <1>11 DEF Next, MainStep, Server

LEMMA InitKnown == Init => KInv
<1> SUFFICES ASSUME Init PROVE KInv
  OBVIOUS
<1>1. /\ pc = "idle" /\ calls = <<>> /\ message = <<>> /\ channel = <<>> /\ saving = <<>>
      /\ asked = [h \in Hosts |-> <<>>]
      /\ \A h \in Hosts : memory[h].headers = {}
  BY DEF Init, Clean
<1>2. ASSUME NEW block \in Blocks PROVE Flow(block)
  <2>1. ~Headed("client", block) /\ ~Headed("server", block)
    BY <1>1 DEF Headed, Hosts
  <2>2. Quiet(block)
    BY <1>1, <2>1, NothingBrought DEF Quiet
  <2> QED BY <2>1, <2>2 DEF Flow
<1>3. Walk
  <2>1. NoHeaderCall(<<>>)
    BY DEF NoHeaderCall
  <2>2. \A block : Ordered(<<>>, message, block)
    BY <2>1, StillOrdered
  <2> QED BY <1>1, <2>2 DEF Walk
<1>4. \A h \in Hosts : AskedFor(h)
  BY <1>1 DEF AskedFor
<1> QED BY <1>1, <1>2, <1>3, <1>4 DEF KInv, Blocked

LEMMA StepKnown == ASSUME IInv, KInv, [Next]_vars PROVE KInv'
<1>1. Walk'
  BY WalkAlways DEF KInv
<1>2. asked' = [h \in Hosts |-> asked'[h]]
  <2>1. asked = [h \in Hosts |-> asked[h]]
    BY DEF KInv
  <2>2. asked' = asked \/ \E h \in Hosts : \E x : asked' = [asked EXCEPT ![h] = x]
    <3>1. CASE MainStep \/ Lose \/ Server
      BY <3>1 DEF MainStep, Gather, Scan, EndScan, GetHeader, AddHeader, TestAlternate, GetAlternate,
                  Send, Lose, Server, Receive, SaveCommand
    <3>2. CASE ReadSomething \/ BeginPass(EAll) \/ BeginPass(ERealtime) \/ UNCHANGED vars
      BY <3>2 DEF ReadSomething, ReadTracer, BeginPass, vars
    <3>3. CASE CleanServer \/ BeginClean \/ EndClean
      BY <3>3 DEF CleanServer, BeginClean, EndClean
    <3>4. ASSUME NEW h \in Hosts, User(h) \/ Display(h)
          PROVE  asked' = asked \/ \E x : asked' = [asked EXCEPT ![h] = x]
      BY <3>4, UserKeeps DEF CleanAlternates, Display, AnswerBlock, AskBlock
    <3> QED BY <3>1, <3>2, <3>3, <3>4 DEF Next
  <2> QED BY <2>1, <2>2
<1>3. NeverCleaned' => Blocked'
  BY BlockedAlways
<1> QED BY <1>1, <1>2, <1>3 DEF KInv

\* An answer begins with the registers of the block, and these have come.
LEMMA AnswerKnown ==
  ASSUME IInv, Blocked, NeverCleaned, NEW h \in Hosts, asked[h] # <<>>,
         NEW block \in Blocks, asked[h][1] = block[1]
  PROVE  \A k \in DOMAIN block : k \in DOMAIN Answer(h) /\ Answer(h)[k] # Unknown
<1>1. PICK range, m, seen : range = asked[h] /\ m = memory[h] /\ seen = Seen(m)
  OBVIOUS
<1>2. range \in Shown /\ range[1] = block[1] /\ Headed(h, block) /\ Flow(block)
  BY <1>1 DEF Blocked, AskedFor, Headed
<1>3. KnownOn(h, block)
  BY <1>2 DEF Flow, Quiet, Settled, Hosts
<1>4. m.list = List /\ OverridesIn(m, puts)
  <2>1. Excused = puts
    BY DEF NeverCleaned, Excused
  <2> QED BY <1>1, <2>1 DEF IInv, Typed, IsMemory, Held, Hosts
<1>5. ASSUME NEW k \in DOMAIN Registers, Within(block, k) PROVE seen[k] # Unknown
  <2>1. seen[k] = IF m.alternate[k] # None THEN m.alternate[k] ELSE m.values["eReg"][k]
    BY <1>1, <1>4 DEF Seen, Registers
  <2>2. m.values["eReg"][k] # Unknown
    BY <1>1, <1>3, <1>5 DEF KnownOn
  <2>3. ASSUME m.alternate[k] # None PROVE m.alternate[k] # Unknown
    <3>1. m.alternate[k] \in Nat /\ m.alternate[k] < Unknown
      BY <1>4, <2>3 DEF OverridesIn, IInv, Told
    <3> QED BY <3>1 DEF Unknown
  <2> QED BY <2>1, <2>2, <2>3
<1>6. PICK j \in DOMAIN Registers, l \in DOMAIN Registers :
        /\ j <= l /\ j \in Nat /\ l \in Nat
        /\ Len(block) = l - j + 1 /\ DOMAIN block = 1..(l - j + 1)
        /\ \A i \in DOMAIN block : block[i] = Registers[j + i - 1]
        /\ StartIndex(Registers, block[1]) = j
        /\ \A k \in DOMAIN Registers : Within(block, k) <=> k \in j..l
  BY BlockEntries
<1>7. PICK from \in Nat, to \in Nat : from = range[1] /\ to = range[2]
  BY <1>2, MirrorAssumption
<1>8. from = Registers[j] /\ Registers[l] <= to
  <2>1. 1 \in DOMAIN block /\ l - j + 1 \in DOMAIN block /\ j + 1 - 1 = j /\ j + (l - j + 1) - 1 = l
    BY <1>6
  <2>2. block[1] = Registers[j] /\ block[Len(block)] = Registers[l]
    BY <1>6, <2>1
  <2>3. PICK shown \in Blocks : shown[1] = range[1] /\ shown[Len(shown)] <= range[2]
    BY <1>2, MirrorAssumption
  <2>4. shown = block
    BY <1>2, <2>3, WideAssumption
  <2> QED BY <1>2, <1>7, <2>2, <2>3, <2>4
<1>9. PICK last : last = LastIndex(Registers, to)
  OBVIOUS
<1>10. Bounds(Registers, from, to, j, last) /\ Span(Registers, seen, from, to) = SubSeq(seen, j, last)
  <2>1. to \in Int
    BY <1>7
  <2>2. StartIndex(Registers, from) = j /\ j # NotFound
    BY <1>2, <1>6, <1>7, FoundIndex DEF NotFound
  <2> QED BY <1>9, <2>1, <2>2, RegistersAscend, SpanTakes
<1>11. last \in Nat /\ l <= last /\ last <= Len(Registers)
  <2>1. last \in 0..Len(Registers) /\ \A k \in DOMAIN Registers : k <= last <=> Registers[k] <= to
    BY <1>10 DEF Bounds
  <2> QED BY <1>6, <1>8, <2>1, FoundIndex
<1>12. PICK span, S : span = SubSeq(seen, j, last) /\ S = {seen[k] : k \in j..last}
  OBVIOUS
<1>13. /\ span \in Seq(S) /\ Len(span) = last - j + 1
       /\ \A i \in 1..(last - j + 1) : span[i] = seen[j + i - 1]
  <2>1. j \in Int /\ last \in Int /\ j <= last /\ \A i \in j..last : seen[i] \in S
    BY <1>6, <1>11, <1>12
  <2> QED BY <1>12, <2>1, SubSeqProperties
<1>14. ASSUME NEW k \in DOMAIN block PROVE k \in DOMAIN span /\ span[k] # Unknown
  <2>1. k \in 1..(last - j + 1) /\ j + k - 1 \in j..l /\ j + k - 1 \in DOMAIN Registers
    BY <1>6, <1>11, FoundIndex
  <2>2. k \in DOMAIN span /\ span[k] = seen[j + k - 1]
    BY <1>13, <2>1
  <2>3. Within(block, j + k - 1)
    BY <1>6, <2>1
  <2> QED BY <1>5, <2>1, <2>2, <2>3
<1>15. Answer(h) = span
  BY <1>1, <1>7, <1>10, <1>12 DEF Answer
<1> QED BY <1>14, <1>15

\* AnswersKnown holds of every behaviour: as long as no memory is cleaned, the
\* registers of a block whose header a display has found have all come, on the
\* client and, since headers are sent after all registers, on the server, whatever
\* registers behind the block the display asks for with it.
THEOREM AnswersKnownCorrect == Spec => []AnswersKnown
<1>1. Init => IInv /\ KInv
  BY InitOK, InitKnown
<1>2. IInv /\ KInv /\ [Next]_vars => IInv' /\ KInv'
  BY StepOK, StepKnown
<1>3. ASSUME IInv, KInv PROVE AnswersKnown
  <2> SUFFICES ASSUME NeverCleaned, NEW h \in Hosts, NEW block \in Blocks,
                      asked[h] # <<>>, asked[h][1] = block[1]
               PROVE  \A k \in DOMAIN block : k \in DOMAIN Answer(h) /\ Answer(h)[k] # Unknown
    BY DEF AnswersKnown, NeverCleaned, Hosts
  <2>1. Blocked
    BY <1>3 DEF KInv
  <2> QED BY <1>3, <2>1, AnswerKnown
<1>4. IInv /\ KInv => AnswersKnown
  BY <1>3
<1> QED BY <1>1, <1>2, <1>4, PTL DEF Spec
=============================================================================
