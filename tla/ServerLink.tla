------------------------------ MODULE ServerLink ------------------------------
(***************************************************************************)
(* The server's side of the link (cServer, server.c): accept a client,     *)
(* read what it sends, decode it with AddMessage and GetCommand, save the  *)
(* registers, and give up a client that is silent for too long.            *)
(*                                                                         *)
(* One call of action() is the steps Begin, WaitClient, Select and, when   *)
(* nothing arrives, SetTimeout; clients and network interleave with them.  *)
(* A recv and the decoding of what it has returned is one step: nobody     *)
(* else touches the receive buffer, and Save holds the memory's mutex.     *)
(***************************************************************************)
EXTENDS Mttp, Integers, FiniteSets, FiniteSetsExt

CONSTANTS
  Registers,         \* the addresses the memory has
  Messages,          \* the messages clients send: sequences of register commands
  MaxMessages,       \* bound: messages sent
  MaxClients,        \* bound: clients that connect, one after the other
  MaxAcceptFaults,   \* bound: accepts that fail
  MAXDECODINGLOOPS,  \* 100 in server.h
  CONNECTTIMEOUT,    \* 100 seconds; here the selects that time out before a heartbeat
  Delivery           \* what one recv returns: "message", "messages" or "bytes"

ASSUME ServerAssumption ==
  /\ IsFiniteSet(Registers) /\ Registers \subseteq 0..65535
  /\ {MaxMessages, MaxClients, MaxAcceptFaults, CONNECTTIMEOUT} \subseteq Nat
  /\ MAXDECODINGLOOPS \in Nat \ {0}
  /\ Delivery \in {"message", "messages", "bytes"}

\* Every command is an eReg.
ASSUME MessagesAssumption ==
  /\ Messages \subseteq Seq(Command)
  /\ \A message \in Messages : \A k \in DOMAIN message : message[k].type = 51

VARIABLES
  pc,             \* where action() is: "begin", "wait", "select" or "timeout"
  connected,      \* the flag connected
  sock,           \* sock2: "none" (-1) or the state of its connection, see below
  needreconnect,  \* the flag needreconnect
  quiet,          \* Now - LastClientMessage
  slots,          \* mttp.decoded_commands
  mem,            \* the registers of the server's memory
  waiting,        \* a client stands in the listen queue
  stream,         \* what the client has sent and recv has not returned yet
  budget,         \* messages sent, clients, failed accepts
  expected        \* history: the registers if each received message is saved once

server == <<pc, connected, sock, needreconnect, quiet, slots, mem>>
vars == <<server, waiting, stream, budget, expected>>

\* A connection is up, closed by the client (recv returns what is left, then 0),
\* silent (the client is gone and nobody noticed), probed (besides, a heartbeat was
\* sent that nobody will acknowledge) or reset (send and recv fail).

-----------------------------------------------------------------------------
(* The memory's part: Save for eReg.                                        *)

\* The registers a command writes; an odd last byte is completed by the zero the
\* command buffer was cleared with.
Values(c) ==
  LET byte(n) == IF n \in DOMAIN c.payload THEN c.payload[n] ELSE 0
  IN {<<c.address + k, 256 * byte(2 * k + 1) + byte(2 * k + 2)>> :
        k \in 0..((Len(c.payload) + 1) \div 2 - 1)}

Save(m, c) ==
  [r \in Registers |->
     IF \E v \in Values(c) : v[1] = r
     THEN (CHOOSE v \in Values(c) : v[1] = r)[2] ELSE m[r]]

SaveAll(m, commands) ==
  LET saved[n \in 0..Len(commands)] ==
        IF n = 0 THEN m ELSE Save(saved[n - 1], commands[n])
  IN saved[Len(commands)]

-----------------------------------------------------------------------------
(* The decoding loop of action().                                          *)

\* After a round: the slots, the memory and the variable processed.
Round(bytes, d) ==
  IF d.processed >= Len(bytes) THEN d
  ELSE LET added == AddMessage(d.slots, SubSeq(bytes, d.processed + 1, Len(bytes)))
       IN [slots |-> Taken(added.slots), processed |-> added.processed,
           mem |-> SaveAll(d.mem, Decoded(added.slots))]

Decode(bytes) ==
  LET round[n \in 0..MAXDECODINGLOOPS] ==
        IF n = 0 THEN [slots |-> slots, processed |-> 0, mem |-> mem]
        ELSE Round(bytes, round[n - 1])
  IN round[MAXDECODINGLOOPS]

-----------------------------------------------------------------------------
(* The stream.  An element is a message with the bytes of it still unread.  *)

Bytes(messages) == FlattenSeq([k \in DOMAIN messages |-> messages[k].bytes])
End(k) == Len(Bytes(SubSeq(stream, 1, k)))

\* How many bytes the next recv may return.
Chunks ==
  CASE Delivery = "message" -> {End(1)}
    [] Delivery = "messages" -> {End(k) : k \in DOMAIN stream}
    [] Delivery = "bytes" -> 1..End(Len(stream))

\* The messages that n bytes complete, and the stream without these bytes.
Complete(n) == SubSeq(stream, 1, CHOOSE k \in 0..Len(stream) :
                                   End(k) <= n /\ (k < Len(stream) => End(k + 1) > n))
Rest(n) ==
  LET rest == SubSeq(stream, Len(Complete(n)) + 1, Len(stream))
      left == n - End(Len(Complete(n)))
  IN IF left = 0 THEN rest
     ELSE [rest EXCEPT ![1].bytes = SubSeq(@, left + 1, Len(@))]

-----------------------------------------------------------------------------
(* action()                                                                *)

\* closeconnection does nothing when there is no socket to close.
ClosedSock == IF connected /\ sock # "none" THEN "none" ELSE sock
ClosedFlag == IF connected /\ sock # "none" THEN FALSE ELSE connected

\* The bytes of a connection are lost with it.
Lost == IF ClosedSock = sock THEN stream ELSE <<>>

Begin ==
  /\ pc = "begin"
  /\ IF needreconnect /\ connected
     THEN sock' = ClosedSock /\ connected' = ClosedFlag /\ stream' = Lost
     ELSE UNCHANGED <<sock, connected, stream>>
  /\ pc' = IF connected' THEN "select" ELSE "wait"
  /\ UNCHANGED <<needreconnect, quiet, slots, mem, waiting, budget, expected>>

\* Nobody connects within half a second.
NoClient ==
  /\ pc = "wait"
  /\ ~waiting
  /\ pc' = "begin"
  /\ UNCHANGED <<connected, sock, needreconnect, quiet, slots, mem,
                 waiting, stream, budget, expected>>

\* connected is set and the timeout restarted whether accept succeeds or not.
Accept(new) ==
  /\ pc = "wait"
  /\ waiting
  /\ waiting' = FALSE
  /\ sock' = new
  /\ connected' = TRUE
  /\ needreconnect' = FALSE
  /\ quiet' = 0
  /\ pc' = "select"
  /\ UNCHANGED <<slots, mem, stream, expected>>

AcceptClient == Accept("up") /\ UNCHANGED budget

AcceptFails ==
  /\ budget.faults < MaxAcceptFaults
  /\ Accept("none")
  /\ budget' = [budget EXCEPT !.faults = @ + 1]

Readable == stream # <<>> \/ sock \in {"closed", "reset"}

Receive ==
  /\ pc = "select"
  /\ sock # "none" /\ stream # <<>>
  /\ \E n \in Chunks :
       LET decoded == Decode(SubSeq(Bytes(stream), 1, n))
       IN /\ slots' = decoded.slots
          /\ mem' = decoded.mem
          /\ stream' = Rest(n)
          /\ expected' = SaveAll(expected, FlattenSeq([k \in DOMAIN Complete(n) |->
                                                         Complete(n)[k].commands]))
  /\ quiet' = 0
  /\ needreconnect' = FALSE
  /\ pc' = "begin"
  /\ UNCHANGED <<connected, sock, waiting, budget>>

\* recv returns 0 or fails.
EndOfStream ==
  /\ pc = "select"
  /\ \/ sock = "closed" /\ stream = <<>>
     \/ sock = "reset"
  /\ sock' = ClosedSock
  /\ connected' = ClosedFlag
  /\ stream' = Lost
  /\ pc' = "begin"
  /\ UNCHANGED <<needreconnect, quiet, slots, mem, waiting, budget, expected>>

\* Half a second without data.  Without a socket nothing is watched: select gets
\* nfds = 0, and the bit FD_SET(-1) sets is not looked at.
NoData ==
  /\ pc = "select"
  /\ sock = "none" \/ ~Readable
  /\ pc' = "timeout"
  /\ UNCHANGED <<connected, sock, needreconnect, quiet, slots, mem,
                 waiting, stream, budget, expected>>

\* Broken variant: the time is looked at, but no heartbeat is sent.
SetTimeoutOnly ==
  /\ pc = "timeout"
  /\ pc' = "begin"
  /\ quiet' = IF quiet < CONNECTTIMEOUT THEN quiet + 1 ELSE 0
  /\ UNCHANGED <<connected, sock, needreconnect, slots, mem, waiting, stream, budget,
                 expected>>

\* settimeout(false): stillconnected sends a heartbeat when the client is silent for
\* too long.
SetTimeout ==
  /\ pc = "timeout"
  /\ pc' = "begin"
  /\ IF quiet < CONNECTTIMEOUT
     THEN quiet' = quiet + 1 /\ UNCHANGED <<needreconnect, sock>>
     ELSE LET stillconnected == connected /\ sock \notin {"none", "reset"}
          IN /\ needreconnect' = ~stillconnected
             /\ quiet' = IF stillconnected THEN 0 ELSE quiet
             /\ sock' = IF stillconnected /\ sock = "silent" THEN "probed" ELSE sock
  /\ UNCHANGED <<connected, slots, mem, waiting, stream, budget, expected>>

action == Begin \/ NoClient \/ AcceptClient \/ AcceptFails \/ Receive \/ EndOfStream
            \/ NoData \/ SetTimeout

-----------------------------------------------------------------------------
(* Clients and network.                                                    *)

\* A client connects while no other is alive.  What it sends before it is accepted
\* waits in its own connection, as if sent later.
Connect ==
  /\ budget.clients < MaxClients
  /\ sock # "up" /\ ~waiting
  /\ waiting' = TRUE
  /\ budget' = [budget EXCEPT !.clients = @ + 1]
  /\ UNCHANGED <<server, stream, expected>>

Send(message) ==
  /\ sock = "up"
  /\ budget.messages < MaxMessages
  /\ stream' = Append(stream, [bytes |-> Encoded(message), commands |-> message])
  /\ budget' = [budget EXCEPT !.messages = @ + 1]
  /\ UNCHANGED <<server, waiting, expected>>

Leave ==
  /\ sock = "up" /\ sock' \in {"closed", "silent", "reset"}
  /\ UNCHANGED <<pc, connected, needreconnect, quiet, slots, mem,
                 waiting, stream, budget, expected>>

\* Nothing acknowledges the heartbeat: the kernel ends the connection.  Without
\* anything to send it would notice nothing.
KernelGivesUp ==
  /\ sock = "probed" /\ sock' = "reset"
  /\ UNCHANGED <<pc, connected, needreconnect, quiet, slots, mem,
                 waiting, stream, budget, expected>>

Client == Connect \/ Leave \/ KernelGivesUp \/ \E message \in Messages : Send(message)

Init ==
  /\ pc = "begin"
  /\ connected = FALSE /\ sock = "none" /\ needreconnect = FALSE /\ quiet = 0
  /\ slots = NoCommands
  /\ mem = [r \in Registers |-> 0]
  /\ waiting = FALSE /\ stream = <<>>
  /\ budget = [messages |-> 0, clients |-> 0, faults |-> 0]
  /\ expected = mem

Next == action \/ Client

Spec == Init /\ [][Next]_vars

\* The main loop calls action() for ever, and action() never blocks for longer than
\* its select; the kernel gives up a connection over which a heartbeat was sent that
\* nobody acknowledges.
FairSpec ==
  /\ Spec
  /\ []<><<action>>_vars
  /\ WF_vars(KernelGivesUp)

-----------------------------------------------------------------------------
\* The memory holds what the messages received so far say, message by message.
EveryMessageSaved == mem = expected

\* No decoded command is left in its slot for a later recv, which would save it again
\* over newer values.
NothingLeftBehind == FreeSlots(slots) = DOMAIN slots

\* A client that connects is served, even when its predecessor has fallen silent: it
\* must be found out by the heartbeats of settimeout and stillconnected (server.c:107-156),
\* for without one the connection would stay open for ever.  Only a failed accept puts an
\* end to it: connected is set without a socket to close (server.c:96-103, 122-130).
ClientServed == waiting ~> (~waiting \/ budget.faults > 0)
=============================================================================
