-------------------------------- MODULE Memory --------------------------------
(***************************************************************************)
(* The tables of cMemory (memory.c) and what its accessors do to them.     *)
(* An operator of this module is one critical section of mem_mtx.          *)
(*                                                                         *)
(* A memory holds for each type of data the addresses of its table, in     *)
(* ascending order, and their values; for the registers also the values    *)
(* users have put over them and the headers of blocks.  Indices start at 1 *)
(* here.  A header's bytes are not looked at by anybody, so only its       *)
(* presence is kept, and the two device infos are a table of two entries.  *)
(***************************************************************************)
EXTENDS Integers, Sequences

DeviceTables == {"eReg", "eCoil", "eDiscInp", "eDevInfo"}
UserTables == {"eUserReg", "eUserCoil"}
Tables == DeviceTables \cup UserTables

Unknown == 65535      \* 0xFFFF, what a table is filled with
None == -1            \* HaveAlternateValue is false
NotFound == 0         \* an index; -1 in the code
LastAdress == 65535   \* 0xFFFF

-----------------------------------------------------------------------------
(* Looking up.                                                             *)

\* GetRegStartIndex and its like: address 0 stands for the first entry.
StartIndex(list, adress) ==
  IF adress = 0 THEN 1
  ELSE IF \E k \in DOMAIN list : list[k] = adress
       THEN CHOOSE k \in DOMAIN list : list[k] = adress
       ELSE NotFound

\* GetRegister and its like: from the entry of one address up to another address.
\* (GetDiscInp compares a value with the last address, which makes no difference
\* for the whole table, the only range SendMem asks for.)
Span(list, values, from, to) ==
  LET first == StartIndex(list, from)
      last == CHOOSE n \in 0..Len(list) : \A k \in DOMAIN list : k <= n <=> list[k] <= to
  IN IF first = NotFound THEN <<>> ELSE SubSeq(values, first, last)

\* What a reader of registers sees who does not ask for the original values.
Seen(m) == [k \in DOMAIN m.list["eReg"] |->
              IF m.alternate[k] # None THEN m.alternate[k] ELSE m.values["eReg"][k]]

\* GetUserRegister, GetUserCoil: the first address found and the values in the range.
UserRange(m, table, from, to) ==
  LET within == {k \in DOMAIN m.list[table] : m.list[table][k] \in from..to}
      first == CHOOSE k \in within : \A j \in within : k <= j
      last == CHOOSE k \in within : \A j \in within : j <= k
  IN IF within = {} THEN [adress |-> 0, values |-> <<>>]
     ELSE [adress |-> m.list[table][first], values |-> SubSeq(m.values[table], first, last)]

\* Broken variant: each half is read as GetRegStr would.
HalvesMixed(m, adress) ==
  LET low == StartIndex(m.list["eReg"], adress)
      high == StartIndex(m.list["eReg"], adress + 1)
  IN IF low = NotFound \/ high = NotFound THEN <<>> ELSE <<Seen(m)[low], Seen(m)[high]>>

\* GetRegStr32: the two halves, or <<>>.  Overrides count only if both halves have one.
Halves(m, adress) ==
  LET user == {adress, adress + 1} \subseteq {m.list["eUserReg"][k] : k \in DOMAIN m.list["eUserReg"]}
      table == IF user THEN "eUserReg" ELSE "eReg"
      low == StartIndex(m.list[table], adress)
      high == StartIndex(m.list[table], adress + 1)
  IN IF adress = 0 \/ low = NotFound \/ high = NotFound THEN <<>>
     ELSE IF ~user /\ m.alternate[low] # None /\ m.alternate[high] # None
          THEN <<m.alternate[low], m.alternate[high]>>
     ELSE <<m.values[table][low], m.values[table][high]>>

-----------------------------------------------------------------------------
(* Changing.                                                               *)

\* The entries from one index on take the values of a payload.
Overwrite(values, first, payload) ==
  [k \in DOMAIN values |->
     IF first # NotFound /\ k \in first..(first + Len(payload) - 1)
     THEN payload[k - first + 1] ELSE values[k]]

\* Save of a command the server has received.  User values are saved only if the
\* first address exists and the entries from there on are enough.  A header for
\* 0xFFFF goes to an empty entry, where nobody looks for it.
Save(m, c) ==
  LET registers == StartIndex(m.list["eReg"], c.adress)
      first == StartIndex(m.list[c.type], c.adress)
  IN CASE c.type \in DeviceTables ->
            [m EXCEPT !.values[c.type] = Overwrite(@, first, c.payload)]
       [] c.type \in UserTables ->
            IF Len(c.payload) > Len(m.list[c.type]) - first + 1 THEN m
            ELSE [m EXCEPT !.values[c.type] = Overwrite(@, first, c.payload)]
       [] c.type = "eUser" ->
            [m EXCEPT !.alternate = Overwrite(@, registers, c.payload)]
       [] c.type = "eHeader" -> [m EXCEPT !.headers = @ \cup ({c.adress} \ {LastAdress})]

\* Save of an answer of the controller: a block of registers brings its header.
SaveAnswer(m, table, adress, payload) ==
  [m EXCEPT !.values[table] = Overwrite(@, StartIndex(m.list[table], adress), payload),
            !.headers = IF table = "eReg" /\ Len(payload) > 1 THEN @ \cup {adress} ELSE @]

\* PutRegStr, PutCoilStr: a user value is replaced, a register overridden.
Put(m, table, adress, value) ==
  LET user == IF table = "eReg" THEN "eUserReg" ELSE "eUserCoil"
      own == \E k \in DOMAIN m.list[user] : m.list[user][k] = adress
  IN CASE own -> [m EXCEPT !.values[user] = Overwrite(@, StartIndex(m.list[user], adress), <<value>>)]
       [] ~own /\ table = "eReg" /\ adress > 0 ->
            [m EXCEPT !.alternate = Overwrite(@, StartIndex(m.list["eReg"], adress), <<value>>)]
       [] OTHER -> m

\* PutRegStr32.  The high half of a user value goes to the entry after the low
\* half's, whatever address that has.
Put32(m, adress, low, high) ==
  LET user == \E k \in DOMAIN m.list["eUserReg"] : m.list["eUserReg"][k] = adress
      list == IF user THEN m.list["eUserReg"] ELSE m.list["eReg"]
      n == StartIndex(list, adress)
  IN CASE user /\ n < Len(list) ->
            [m EXCEPT !.values["eUserReg"] = Overwrite(@, n, <<low, high>>)]
       [] ~user /\ adress > 0 /\ n # NotFound /\ StartIndex(list, adress + 1) # NotFound ->
            [m EXCEPT !.alternate = Overwrite(@, n, <<low, high>>)]
       [] OTHER -> m

\* cleanalternate
CleanAlternate(m) == [m EXCEPT !.alternate = [k \in DOMAIN @ |-> None]]

\* clean: every table as at the start, with the configured user values.
Clean(m) ==
  [list |-> m.list,
   values |-> [t \in Tables |-> [k \in DOMAIN m.list[t] |-> Unknown]],
   alternate |-> [k \in DOMAIN m.list["eReg"] |-> None],
   headers |-> {}]
=============================================================================
