--------------------------------- MODULE Mttp ---------------------------------
(***************************************************************************)
(* The transport protocol between client and server (cMTTP, mttp.c): how a *)
(* message is built (AddCommand, CloseBuffer) and how AddMessage decodes   *)
(* what one recv has returned.  Bytes are numbers.                         *)
(*                                                                         *)
(* DLE marks the control bytes; a DLE among the data is doubled.           *)
(*   DLE STX length length action { DLE SCD type address address payload   *)
(*   DLE ECD } DLE ETX                                                     *)
(***************************************************************************)
EXTENDS Naturals, Sequences, SequencesExt

CONSTANT MAX_COMMANDS  \* 50 in mttp.h

ASSUME MttpAssumption == MAX_COMMANDS \in Nat \ {0}

DLE == 16
STX == 2
ETX == 3
SCD == 4
ECD == 5

-----------------------------------------------------------------------------
(* Encoding.  No type of common.h has the value of DLE: it is not escaped.   *)

Byte == 0..255
Word == 0..(256 * 256 - 1)
Command == [type : Byte \ {DLE}, address : Word, payload : Seq(Byte)]

\* Broken variant: control bytes among the data are sent as they are.
EscapedNot(b) == <<b>>

Escaped(b) == IF b = DLE THEN <<DLE, DLE>> ELSE <<b>>

EscapeAll(bytes) == FlattenSeq([n \in DOMAIN bytes |-> Escaped(bytes[n])])

\* Broken variant: the address is not escaped.
EncodedCommandRawAddress(c) ==
  <<DLE, SCD, c.type, c.address \div 256, c.address % 256>>
    \o EscapeAll(c.payload) \o <<DLE, ECD>>

EncodedCommand(c) ==
  <<DLE, SCD, c.type>> \o Escaped(c.address \div 256) \o Escaped(c.address % 256)
    \o EscapeAll(c.payload) \o <<DLE, ECD>>

\* Append bytes and add their number to the two length bytes of the header.
Extended(buffer, bytes) ==
  LET length == (256 * buffer[3] + buffer[4] + Len(bytes)) % (256 * 256)
  IN [buffer EXCEPT ![3] = length \div 256, ![4] = length % 256] \o bytes

ePut == 33
eHeartbeat == 41

Opened(act) == <<DLE, STX, 0, 5, act>>
WithCommand(buffer, c) == Extended(buffer, EncodedCommand(c))

Closed(buffer) == Extended(buffer, <<DLE, ETX>>)

\* The whole message of SendMem: opened, command after command, closed.
Encoded(message) ==
  LET built[n \in 0..Len(message)] ==
        IF n = 0 THEN Opened(ePut) ELSE WithCommand(built[n - 1], message[n])
  IN Closed(built[Len(message)])

-----------------------------------------------------------------------------
(* Decoding.                                                               *)

EmptySlot == [exist |-> FALSE, type |-> 0, address |-> 0, payload |-> <<>>]
NoCommands == [k \in 0..(MAX_COMMANDS - 1) |-> EmptySlot]

\* The state of AddMessage after some bytes.  header and part say how many bytes
\* of the message header and of the command header have been taken (3: all); end
\* is the number of the byte after which AddMessage returns, 0 if it goes on.
Fresh(slots, free) ==
  [dle |-> FALSE, stx |-> FALSE, scd |-> FALSE, ecd |-> FALSE,
   header |-> 3, part |-> 0, index |-> free, slots |-> slots, end |-> 0]

\* Broken variant: a second command overwrites the first.
OpenCommandInPlace(d, n) ==
  IF d.scd THEN [d EXCEPT !.end = n]
           ELSE [d EXCEPT !.scd = TRUE, !.dle = FALSE, !.ecd = FALSE]

\* DLE SCD: the first command takes the free slot, each further one the next.
OpenCommand(d, n) ==
  CASE d.scd -> [d EXCEPT !.end = n]
    [] ~d.scd /\ ~d.ecd -> [d EXCEPT !.scd = TRUE, !.dle = FALSE]
    [] ~d.scd /\ d.ecd /\ d.index + 1 = MAX_COMMANDS -> [d EXCEPT !.end = n]
    [] OTHER -> [d EXCEPT !.scd = TRUE, !.dle = FALSE, !.ecd = FALSE, !.index = @ + 1]

\* A byte that is no control byte: header, command header or payload.  next is the
\* byte behind it; behind the last one stands whatever the receive buffer held, and
\* an address read there is never handed out, for its command does not exist yet.
TakeByte(d, b, next) ==
  CASE ~d.stx \/ (~d.scd /\ d.header = 3) -> d
    [] d.stx /\ ~d.scd /\ d.header < 3 -> [d EXCEPT !.header = @ + 1]
    [] d.stx /\ d.scd /\ d.part = 0 ->
         [d EXCEPT !.slots[d.index].type = b, !.part = 1]
    [] d.stx /\ d.scd /\ d.part = 1 ->
         [d EXCEPT !.slots[d.index].address = 256 * b + next, !.part = 2]
    [] d.stx /\ d.scd /\ d.part = 2 ->
         [d EXCEPT !.slots[d.index].payload = <<>>, !.slots[d.index].exist = TRUE,
                   !.part = 3]
    [] OTHER -> [d EXCEPT !.slots[d.index].payload = Append(@, b)]

\* One round of the loop over the bytes.
DecodeByte(bytes, d, n) ==
  LET b == bytes[n]
      next == IF n < Len(bytes) THEN bytes[n + 1] ELSE 0
      unescaped == d.header < 3
  IN CASE d.end # 0 -> d
       [] d.end = 0 /\ b = DLE /\ ~unescaped /\ ~d.dle -> [d EXCEPT !.dle = TRUE]
       [] d.end = 0 /\ b = DLE /\ ~unescaped /\ d.dle ->
            TakeByte([d EXCEPT !.dle = FALSE], b, next)
       [] d.end = 0 /\ b = STX /\ d.dle ->
            [d EXCEPT !.stx = TRUE, !.dle = FALSE, !.header = 0]
       [] d.end = 0 /\ b = ETX /\ d.dle ->
            IF d.stx THEN [d EXCEPT !.end = n] ELSE [d EXCEPT !.dle = FALSE]
       [] d.end = 0 /\ b = SCD /\ d.dle -> OpenCommand(d, n)
       [] d.end = 0 /\ b = ECD /\ d.dle ->
            [d EXCEPT !.scd = FALSE, !.ecd = TRUE, !.dle = FALSE, !.part = 0]
       [] OTHER -> TakeByte(d, b, next)

FreeSlots(slots) == {k \in DOMAIN slots : ~slots[k].exist}

FirstFree(slots) == CHOOSE k \in FreeSlots(slots) : \A m \in FreeSlots(slots) : k <= m

\* The decoder's state after each of the bytes.
Decoding(slots, bytes) ==
  LET after[n \in 0..Len(bytes)] ==
        IF n = 0 THEN Fresh(slots, FirstFree(slots)) ELSE DecodeByte(bytes, after[n - 1], n)
  IN after

\* AddMessage: the slots afterwards and the number of bytes it says it processed.
AddMessage(slots, bytes) ==
  IF FreeSlots(slots) = {} THEN [slots |-> slots, processed |-> 0]
  ELSE LET d == Decoding(slots, bytes)[Len(bytes)]
       IN [slots |-> d.slots,
           processed |-> IF d.end # 0 THEN d.end ELSE Len(bytes) + 1]

\* The commands GetCommand hands out one by one before it finds an empty slot.
Decoded(slots) ==
  LET full == {k \in 0..MAX_COMMANDS : \A m \in 0..(k - 1) : slots[m].exist}
      count == CHOOSE k \in full : \A m \in full : m <= k
  IN [k \in 1..count |-> [type |-> slots[k - 1].type, address |-> slots[k - 1].address,
                          payload |-> slots[k - 1].payload]]

\* Broken variant: only the first command is taken.
TakenFirst(slots) == [slots EXCEPT ![0].exist = FALSE]

\* The slots after that: all of these are free again.
Taken(slots) ==
  [k \in DOMAIN slots |->
     IF k < Len(Decoded(slots)) THEN [slots[k] EXCEPT !.exist = FALSE] ELSE slots[k]]
=============================================================================
