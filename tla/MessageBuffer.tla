----------------------------- MODULE MessageBuffer -----------------------------
(***************************************************************************)
(* The writing side of a cMTTP object (mttp.c): the static MTTP of SendMem *)
(* collects commands until it is sent and initialised again, and           *)
(* mttpheartbeat is initialised once.  What is checked here is that the    *)
(* reader's AddMessage undoes what AddCommand and CloseBuffer have done,   *)
(* whatever bytes the values consist of.                                   *)
(***************************************************************************)
EXTENDS Mttp

CONSTANTS
  Commands,    \* the commands SendMem may add
  MaxCommands  \* bound on the commands of one message

ASSUME BufferAssumption == MaxCommands \in Nat /\ Commands \subseteq Command

VARIABLES
  buffer,  \* the bytes so far
  state,   \* the flags inited and closed: "raw", "open" or "closed"
  added    \* history: the commands added since InitBuffer

bufferVars == <<buffer, state, added>>

\* cMTTP(eNone)
BufferInit == buffer = <<>> /\ state = "raw" /\ added = <<>>

InitBuffer ==
  /\ buffer' = Opened(ePut)
  /\ state' = "open"
  /\ added' = <<>>

\* The heartbeat is written closed.
InitHeartbeat ==
  /\ buffer' = <<DLE, STX, 0, 7, eHeartbeat, DLE, ETX>>
  /\ state' = "closed"
  /\ added' = <<>>

AddCommand(c) ==
  /\ state = "open"
  /\ Len(added) < MaxCommands
  /\ buffer' = WithCommand(buffer, c)
  /\ added' = Append(added, c)
  /\ UNCHANGED state

\* GetBuffer closes the buffer if need be and hands out a copy.
GetBuffer ==
  /\ state # "raw"
  /\ buffer' = IF state = "open" THEN Closed(buffer) ELSE buffer
  /\ state' = "closed"
  /\ UNCHANGED added

BufferNext == InitBuffer \/ InitHeartbeat \/ (\E c \in Commands : AddCommand(c)) \/ GetBuffer

BufferSpec == BufferInit /\ [][BufferNext]_bufferVars

-----------------------------------------------------------------------------
Received(bytes) == AddMessage(NoCommands, bytes)

\* AddMessage consumes a finished message to its last byte and decodes exactly the
\* commands that were added, up to the MAX_COMMANDS it has slots for, whatever
\* control bytes occur in addresses, payloads, lengths.
RoundTrip ==
  state = "closed" =>
    /\ Decoded(Received(buffer).slots)
         = SubSeq(added, 1, IF Len(added) < MAX_COMMANDS THEN Len(added) ELSE MAX_COMMANDS)
    /\ Len(added) <= MAX_COMMANDS => Received(buffer).processed = Len(buffer)

\* A message cut anywhere by recv decodes to the first of its commands; only the
\* last one may have lost the end of its payload.
CutIsPrefix ==
  state = "closed" =>
    \A n \in 1..Len(buffer) :
      LET decoded == Decoded(Received(SubSeq(buffer, 1, n)).slots)
          last == Len(decoded)
      IN /\ last <= Len(added)
         /\ \A k \in 1..(last - 1) : decoded[k] = added[k]
         /\ last > 0 => /\ decoded[last].type = added[last].type
                        /\ decoded[last].address = added[last].address
                        /\ IsPrefix(decoded[last].payload, added[last].payload)
=============================================================================
