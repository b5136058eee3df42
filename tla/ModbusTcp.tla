-------------------------------- MODULE ModbusTcp --------------------------------
(***************************************************************************)
(* The Modbus TCP server of both hosts (modbusserver.c): one thread, a     *)
(* table of MAX_MODBUS_CLIENTS sockets, and the registers of the memory.   *)
(*                                                                         *)
(* A register's value is its own address here, so that an answer shows     *)
(* which registers it is made of.  Callers wait for the answer before they *)
(* ask again, and a request of twelve bytes is in one segment.             *)
(*                                                                         *)
(* `peer' is the caller's end of a connection and what the host's kernel   *)
(* knows of it: "open"; "closed", where a send succeeds but may make the   *)
(* connection "broken"; "reset", where the next call returns an error and  *)
(* leaves it "broken"; "broken", where a send raises SIGPIPE and a read    *)
(* returns 0; "vanished", where nobody knows; "lost", where something has  *)
(* been sent to one that vanished, until the kernel gives up.              *)
(***************************************************************************)
EXTENDS Memory

CONSTANTS
  Conns,               \* bound: connections at a time
  MAX_MODBUS_CLIENTS,  \* slots of the table
  MAX_REG,             \* registers in an answer
  Waiting,             \* length of the listen queue
  MaxFaults,           \* bound: accepts that fail, one after the other or not
  Registers,           \* the addresses of the memory's registers, ascending
  Requests             \* pairs of address and number that callers ask for

Width == LastAdress + 1  \* 2^16, of the addresses
Slots == 1..MAX_MODBUS_CLIENTS
NoConn == <<>>

ASSUME TcpAssumption ==
  /\ MAX_MODBUS_CLIENTS \in Nat \ {0} /\ MAX_REG \in Nat /\ Waiting \in Nat \ {0}
  /\ MaxFaults \in Nat
  /\ NoConn \notin Conns
  /\ Requests \subseteq (0..LastAdress) \X (0..LastAdress)

\* The table is in ascending order, and its addresses are not so low that one of
\* them could be asked for as address 0 (memory.c:30, 511-531).
ASSUME RegistersAssumption ==
  /\ Registers \in Seq((MAX_REG + 1)..(LastAdress - 1))
  /\ \A j, k \in DOMAIN Registers : j < k => Registers[j] < Registers[k]

VARIABLES
  conn,   \* the connections
  queue,  \* those that wait for accept
  slots,  \* clientsock, NoConn for 0
  pc,     \* where the thread is
  i,      \* its loop variable
  ready,  \* readfds after select
  stop,   \* "yes" once main has called Abort
  faults  \* number of failed accepts

thread == <<pc, i, ready>>
vars == <<conn, queue, slots, thread, stop, faults>>

Nothing == <<>>
Absent == [end |-> "none", peer |-> "none", asked |-> Nothing, sent |-> "none",
           answer |-> Nothing]

\* A connection whose two ends are closed is forgotten.
Settled(r) == IF r.peer # "open" /\ r.end \notin {"queued", "held"} THEN Absent ELSE r

HostClosed(r) == Settled([r EXCEPT !.end = "closed", !.sent = "none"])

Free == {k \in Slots : slots[k] = NoConn}
Held == {c \in Conns : conn[c].end = "held"}
Readable(c) == conn[c].sent = "yes" \/ conn[c].peer \in {"closed", "reset", "broken"}

At(where) == pc = where

-----------------------------------------------------------------------------
(* The answer to a request.                                                *)

\* The empty entries behind the table have LastAdress for an address, and are
\* found by it: the range begins there, and has no registers.
Begins(address) ==
  address = LastAdress \/ StartIndex(Registers, address) # NotFound

\* Broken: the last address is the one after it.
AnswerOneMore(address, number) ==
  LET found == Span(Registers, Registers, address, (address + number) % Width)
  IN IF number > MAX_REG \/ ~Begins(address) \/ Len(found) > MAX_REG
     THEN <<"error">> ELSE <<"registers", found>>

\* GetRegister from address to address + (number - 1), an uint16_t.
Answer(address, number) ==
  LET found == Span(Registers, Registers, address, (address + number - 1) % Width)
  IN IF number > MAX_REG \/ ~Begins(address) \/ Len(found) > MAX_REG
     THEN <<"error">> ELSE <<"registers", found>>

-----------------------------------------------------------------------------
(* send and read.                                                          *)

\* The kernel takes the bytes for a caller who does not read them.
SentTo(peer) ==
  CASE peer = "closed" -> {"closed", "broken"}
    [] peer \in {"vanished", "lost"} -> {"lost"}
    [] OTHER -> {peer}

\* SIGPIPE: the process is gone, and the kernel closes what it had open.
Kill ==
  /\ pc' = "killed"
  /\ conn' = [c \in Conns |-> IF conn[c].end \in {"queued", "held"}
                               THEN HostClosed(conn[c]) ELSE conn[c]]
  /\ queue' = <<>>
  /\ slots' = [k \in Slots |-> NoConn]

\* Broken: the loop goes on behind the last slot.
NextSlotPast(where) == i' = i + 1 /\ pc' = where

NextSlot(where) ==
  IF i < MAX_MODBUS_CLIENTS THEN i' = i + 1 /\ pc' = where
  ELSE i' = 1 /\ pc' = IF where = "check" THEN "drop" ELSE "sync"

-----------------------------------------------------------------------------
(* cModbusServer::Body                                                     *)

Select ==
  /\ At("sync") /\ stop = "no"
  /\ ready' = {c \in Held : Readable(c)}
  /\ ready' # {} \/ queue # <<>>
  /\ pc' = IF queue # <<>> THEN "accept" ELSE "scan"
  /\ i' = 1
  /\ UNCHANGED <<conn, queue, slots, stop, faults>>

\* The round is over, for everybody.  Without a descriptor for it the connection
\* goes on waiting, and the next round meets it again; one that the kernel has
\* aborted is gone.
AcceptFails ==
  /\ At("accept") /\ faults < MaxFaults
  /\ faults' = faults + 1
  /\ pc' = "sync"
  /\ \/ UNCHANGED <<conn, queue>>
     \/ /\ conn' = [conn EXCEPT ![Head(queue)] = HostClosed(@)]
        /\ queue' = Tail(queue)
  /\ UNCHANGED <<slots, i, ready, stop>>

\* A free slot (the code takes the first) for the new connection.
Accept ==
  /\ At("accept")
  /\ \E k \in Free :
       /\ \A j \in Free : k <= j
       /\ slots' = [slots EXCEPT ![k] = Head(queue)]
  /\ conn' = [conn EXCEPT ![Head(queue)].end = "held"]
  /\ queue' = Tail(queue)
  /\ pc' = "scan"
  /\ UNCHANGED <<i, ready, stop, faults>>

\* No slot: the clients are checked,
Full ==
  /\ At("accept") /\ Free = {}
  /\ pc' = "check"
  /\ UNCHANGED <<conn, queue, slots, i, ready, stop, faults>>

\* Broken: nothing is sent.
CheckNobody(c) == /\ UNCHANGED <<conn, queue, slots>> /\ NextSlot("check")

\* Broken: a client is closed, but its slot not emptied.
CheckClosesOnly(c) ==
  /\ conn[c].peer = "reset"
  /\ conn' = [conn EXCEPT ![c] = HostClosed(@)]
  /\ UNCHANGED <<slots, queue>>
  /\ NextSlot("check")

\* by a byte 0 to each: whoever cannot be sent to is closed,
Check(c) ==
  \/ /\ conn[c].peer \notin {"reset", "broken"}
     /\ \E peer \in SentTo(conn[c].peer) : conn' = [conn EXCEPT ![c].peer = peer]
     /\ UNCHANGED <<queue, slots>>
     /\ NextSlot("check")
  \/ /\ conn[c].peer = "reset"
     /\ conn' = [conn EXCEPT ![c] = HostClosed(@)]
     /\ slots' = [slots EXCEPT ![i] = NoConn]
     /\ UNCHANGED queue
     /\ NextSlot("check")
  \/ /\ conn[c].peer = "broken"
     /\ Kill /\ i' = i

CheckSlot ==
  /\ At("check")
  /\ IF slots[i] = NoConn THEN NextSlot("check") /\ UNCHANGED <<conn, queue, slots>>
     ELSE Check(slots[i])
  /\ UNCHANGED <<ready, stop, faults>>

\* Broken: the round ends here, as when accept fails.
DropEndsRound ==
  /\ At("drop")
  /\ conn' = [conn EXCEPT ![Head(queue)] = HostClosed(@)]
  /\ queue' = Tail(queue)
  /\ pc' = "sync"
  /\ UNCHANGED <<slots, i, ready, stop, faults>>

\* and the new one is closed, although there may be room now.
Drop ==
  /\ At("drop")
  /\ conn' = [conn EXCEPT ![Head(queue)] = HostClosed(@)]
  /\ queue' = Tail(queue)
  /\ pc' = "scan"
  /\ UNCHANGED <<slots, i, ready, stop, faults>>

\* Broken: a client whose end has come keeps its slot.
EndClientKeepsSlot(c) ==
  /\ conn[c].sent = "none" /\ conn[c].peer \in {"closed", "broken"}
  /\ UNCHANGED <<conn, slots>>

\* read returns 0.
EndClient(c) ==
  /\ conn[c].sent = "none" /\ conn[c].peer \in {"closed", "broken"}
  /\ conn' = [conn EXCEPT ![c] = HostClosed(@)]
  /\ slots' = [slots EXCEPT ![i] = NoConn]

\* read returns -1: process finds less than a request, and the slot stays.
ReadFails(c) ==
  /\ conn[c].peer = "reset"
  /\ conn' = [conn EXCEPT ![c].peer = "broken", ![c].sent = "none", ![c].asked = Nothing]
  /\ UNCHANGED slots

\* read returns a request, and process sends its answer.
Processed(r, peer) ==
  IF peer = "open"
  THEN [r EXCEPT !.sent = "none", !.answer = Answer(r.asked[1], r.asked[2])]
  ELSE [r EXCEPT !.sent = "none", !.peer = peer, !.asked = Nothing]

Process(c) ==
  /\ conn[c].sent = "yes" /\ conn[c].peer \notin {"reset", "broken"}
  /\ \E peer \in SentTo(conn[c].peer) : conn' = [conn EXCEPT ![c] = Processed(@, peer)]
  /\ UNCHANGED slots

ProcessBroken(c) ==
  /\ conn[c].sent = "yes" /\ conn[c].peer = "broken"
  /\ Kill /\ i' = i

ScanSlot ==
  /\ At("scan")
  /\ LET c == slots[i]
     IN \/ /\ c \notin ready
           /\ UNCHANGED <<conn, queue, slots>> /\ NextSlot("scan")
        \/ /\ c \in ready
           /\ \/ (EndClient(c) \/ ReadFails(c) \/ Process(c))
                 /\ UNCHANGED queue /\ NextSlot("scan")
              \/ ProcessBroken(c)
  /\ UNCHANGED <<ready, stop, faults>>

\* SyncPoint after Abort; main joins the thread, and the destructor closes everything.
Shutdown ==
  /\ At("sync") /\ stop = "yes"
  /\ pc' = "exited"
  /\ conn' = [c \in Conns |-> IF conn[c].end \in {"queued", "held"}
                               THEN HostClosed(conn[c]) ELSE conn[c]]
  /\ queue' = <<>>
  /\ slots' = [k \in Slots |-> NoConn]
  /\ UNCHANGED <<i, ready, stop, faults>>

Body ==
  Select \/ AcceptFails \/ Accept \/ Full \/ CheckSlot \/ Drop \/ ScanSlot \/ Shutdown

-----------------------------------------------------------------------------
(* The callers, the network and main.                                      *)

Running == pc \notin {"exited", "killed"}

Connect(c) ==
  /\ conn[c] = Absent /\ Running /\ Len(queue) < Waiting
  /\ conn' = [conn EXCEPT ![c] = [Absent EXCEPT !.end = "queued", !.peer = "open"]]
  /\ queue' = Append(queue, c)
  /\ UNCHANGED <<slots, thread, stop, faults>>

Ask(c) ==
  /\ conn[c].peer = "open" /\ conn[c].end \in {"queued", "held"} /\ conn[c].asked = Nothing
  /\ \E request \in Requests :
       conn' = [conn EXCEPT ![c].asked = request, ![c].sent = "yes"]
  /\ UNCHANGED <<queue, slots, thread, stop, faults>>

ReadAnswer(c) ==
  /\ conn[c].peer = "open" /\ conn[c].answer # Nothing
  /\ conn' = [conn EXCEPT ![c].asked = Nothing, ![c].answer = Nothing]
  /\ UNCHANGED <<queue, slots, thread, stop, faults>>

\* The caller closes, in peace or with something unread, or vanishes without a word.
Left(r, peer) ==
  Settled([r EXCEPT !.peer = peer, !.answer = Nothing,
                    !.asked = IF r.sent = "yes" THEN @ ELSE Nothing])

Leave(c) ==
  /\ conn[c].peer = "open"
  /\ \E peer \in {"closed", "reset", "vanished"} : conn' = [conn EXCEPT ![c] = Left(@, peer)]
  /\ UNCHANGED <<queue, slots, thread, stop, faults>>

GiveUp(c) ==
  /\ conn[c].peer = "lost"
  /\ conn' = [conn EXCEPT ![c].peer = "reset"]
  /\ UNCHANGED <<queue, slots, thread, stop, faults>>

Stop ==
  /\ Running /\ stop = "no"
  /\ stop' = "yes"
  /\ UNCHANGED <<conn, queue, slots, thread, faults>>

Init ==
  /\ conn = [c \in Conns |-> Absent]
  /\ queue = <<>>
  /\ slots = [k \in Slots |-> NoConn]
  /\ pc = "sync" /\ i = 1 /\ ready = {}
  /\ stop = "no" /\ faults = 0

Next ==
  \/ Body \/ Stop
  \/ \E c \in Conns : Connect(c) \/ Ask(c) \/ ReadAnswer(c) \/ Leave(c) \/ GiveUp(c)

Spec == Init /\ [][Next]_vars

\* The thread runs and its select has a time limit; the kernel gives up.
FairSpec == Spec /\ WF_vars(Body) /\ \A c \in Conns : WF_vars(GiveUp(c))

-----------------------------------------------------------------------------
(* Properties.                                                             *)

\* Types.
TypeOK ==
  /\ conn \in [Conns -> [end : {"none", "queued", "held", "closed"},
                         peer : {"none", "open", "closed", "reset", "broken", "vanished",
                                 "lost"},
                         asked : Requests \cup {Nothing}, sent : {"none", "yes"},
                         answer : {Nothing, <<"error">>}
                                    \cup ({"registers"} \X Seq(0..LastAdress))]]
  /\ queue \in Seq(Conns)
  /\ slots \in [Slots -> Conns \cup {NoConn}]
  /\ pc \in {"sync", "accept", "check", "drop", "scan", "exited", "killed"}
  /\ i \in Slots /\ ready \subseteq Conns
  /\ stop \in {"yes", "no"} /\ faults \in 0..MaxFaults

\* A connection the host has open has one slot of the table, and one that waits is in
\* the listen queue, however clients come, leave and are thrown out
\* (modbusserver.c:117-170, 274-294).
OneSlot ==
  /\ \A c \in Conns : conn[c].end = "held" <=> \E k \in Slots : slots[k] = c
  /\ \A j, k \in Slots : slots[j] = slots[k] /\ slots[j] # NoConn => j = k
  /\ \A c \in Conns : conn[c].end = "queued" <=> \E k \in DOMAIN queue : queue[k] = c
  /\ \A j, k \in DOMAIN queue : queue[j] = queue[k] => j = k

\* An answer with as many registers as were asked for has the right ones in order,
\* although the addresses of the table have gaps and the last address is computed in
\* 16 bits; and no answer has more than MAX_REG (modbusserver.c:236-266,
\* memory.c:612-632, 1446-1476).
Aligned ==
  \A c \in Conns :
    conn[c].answer # Nothing /\ conn[c].answer[1] = "registers" =>
      LET found == conn[c].answer[2]
      IN /\ Len(found) <= MAX_REG
         /\ Len(found) = conn[c].asked[2] =>
              \A k \in DOMAIN found : found[k] = conn[c].asked[1] + k - 1

\* A request is answered as long as the caller waits, unless its connection ends,
\* whatever the other clients do, and although accept fails before it: as long as
\* that is not for ever (MaxFaults), for no round gets beyond it
\* (modbusserver.c:133-137, 172-193).
Answered ==
  \A c \in Conns :
    (conn[c].end = "held" /\ conn[c].sent = "yes")
      ~> (conn[c].answer # Nothing \/ conn[c].peer # "open" \/ conn[c].end # "held")

\* A client that closed or broke its connection loses its slot.
LeftFreed ==
  \A c \in Conns :
    (conn[c].end = "held" /\ conn[c].peer \in {"closed", "reset", "broken"})
      ~> conn[c].end # "held"

\* One that vanished does if callers meet a full table again and again: nothing else
\* finds it out (modbusserver.c:130-146, 274-294).
VanishedFreed ==
  []<>(pc = "check") =>
    \A c \in Conns : (conn[c].end = "held" /\ conn[c].peer = "vanished")
                        ~> conn[c].end # "held"
=============================================================================
