----------------------------- MODULE CommandServer -----------------------------
(***************************************************************************)
(* The command server of a host (mtcpserver.c), which runs beside the main *)
(* loop of tracerclient and of tracerserver.                               *)
(*                                                                         *)
(* A cMtcpServer has an accepting thread and MAX_CLIENTS slots for threads *)
(* that handle one connection each.  A handler answers a command itself,   *)
(* from the memory or by the controller, or, where no controller is        *)
(* connected, passes it on to the other host's command server, which is    *)
(* this program with FORWARDS = "no" and seen here by what its callers     *)
(* observe.  Answers are not looked at.                                    *)
(*                                                                         *)
(* A connection is seen from the host: its own end (`end'), what has come  *)
(* (`input') and the caller (`peer').  A send to a caller that stays may   *)
(* block until it reads; the first send to one that is "gone" succeeds or  *)
(* fails, and after it, writing to the "broken" connection raises SIGPIPE, *)
(* which ends the process.                                                 *)
(***************************************************************************)
EXTENDS Integers, Sequences

CONSTANTS
  Conns,        \* bound: connections at a time
  MAX_CLIENTS,  \* slots
  Waiting,      \* length of the listen queue
  FORWARDS,     \* "no", or the server's host, which has a cMtcpClient per handler and
                \* knows the other host by "address" or by "name"
  MaxFailures   \* bound: the forwards that fail, of each slot

ASSUME CommandAssumption ==
  /\ MAX_CLIENTS \in Nat \ {0} /\ Waiting \in Nat \ {0} /\ MaxFailures \in [1..MAX_CLIENTS -> Nat]
  /\ FORWARDS \in {"no", "address", "name"}

Handlers == 1..MAX_CLIENTS
NoConn == <<>>

ASSUME NamesAssumption == NoConn \notin Conns

VARIABLES
  conn,      \* the connections
  queue,     \* those that wait for accept
  acceptor,  \* where the accepting thread is, or later main's destructor of it
  slot,      \* index of their loops over the slots
  stop,      \* "yes" once main has called Abort
  pc,        \* per handler: where its thread is; "none": the slot is free
  sock,      \* per handler: client_socket, or NoConn for -1
  abort,     \* per handler: "yes" once Abort has been called
  fsock,     \* per handler: the socket of its cMtcpClient, "none" for -1 or "open"
  fconnected, \* per handler: its flag connected, "yes" or "no"
  leaked,    \* history, per slot: sockets of cMtcpClient nobody can close any more
  failures   \* history, per slot: forwards that failed

forwarding == <<fsock, fconnected, leaked, failures>>
handlers == <<pc, sock, abort, forwarding>>
server == <<acceptor, slot, stop>>
vars == <<conn, queue, server, handlers>>

\* A connection the host has not got, or has closed.
Absent == [end |-> "none", input |-> "none", peer |-> "none"]

Running == acceptor \notin {"exited", "killed"}
Listening == acceptor \notin {"delete", "last", "exited", "killed"}

-----------------------------------------------------------------------------
(* The handler threads, cMtcpClientHandle::Body.                           *)

At(k, where) == Running /\ pc[k] = where
Goto(k, where) == pc' = [pc EXCEPT ![k] = where]

\* The top of the loop.  Without a connection the thread goes round it until Abort.
SyncPoint(k) ==
  /\ At(k, "sync")
  /\ \/ abort[k] = "yes" /\ Goto(k, "ended")
     \/ abort[k] = "no" /\ sock[k] # NoConn /\ Goto(k, "select")
  /\ UNCHANGED <<conn, queue, server, sock, abort, forwarding>>

\* A command is read: it is handled here, or is one for the controller of the other host.
Recv(k) ==
  /\ At(k, "select") /\ conn[sock[k]].input # "none"
  /\ conn' = [conn EXCEPT ![sock[k]].input = "none"]
  /\ Goto(k, "reply") \/ (FORWARDS # "no" /\ Goto(k, "connect"))
  /\ UNCHANGED <<queue, server, sock, abort, forwarding>>

CloseConnection(k) ==
  /\ conn' = [conn EXCEPT ![sock[k]] = Absent]
  /\ sock' = [sock EXCEPT ![k] = NoConn]

\* Broken: the thread ends without closeconnection.
RecvEndOnly(k) ==
  /\ At(k, "select") /\ conn[sock[k]].input = "none" /\ conn[sock[k]].peer # "open"
  /\ Goto(k, "ended")
  /\ UNCHANGED <<conn, queue, server, sock, abort, forwarding>>

\* recv returns 0 or -1: the thread ends.
RecvEnd(k) ==
  /\ At(k, "select") /\ conn[sock[k]].input = "none" /\ conn[sock[k]].peer # "open"
  /\ CloseConnection(k) /\ Goto(k, "ended")
  /\ UNCHANGED <<queue, server, abort, forwarding>>

\* Nothing to read for CONNECTTIMEOUT seconds: the thread goes on without a connection.
IdleTimeout(k) ==
  /\ At(k, "select") /\ conn[sock[k]].input = "none" /\ conn[sock[k]].peer = "open"
  /\ CloseConnection(k) /\ Goto(k, "sync")
  /\ UNCHANGED <<queue, server, abort, forwarding>>

\* send returns.
Answer(k) ==
  /\ \/ UNCHANGED conn
     \/ conn[sock[k]].peer = "gone" /\ conn' = [conn EXCEPT ![sock[k]].peer = "broken"]
  /\ Goto(k, "sync")

\* handlecommand has returned: send of the answer.  It may block when the caller does
\* not read.
Reply(k) ==
  LET peer == conn[sock[k]].peer
  IN /\ At(k, "reply") /\ peer # "broken"
     /\ \/ Answer(k)
        \/ peer = "open" /\ Goto(k, "blocked") /\ UNCHANGED conn
     /\ UNCHANGED <<queue, server, sock, abort, forwarding>>

\* The caller has closed its end: the kernel ends the wait.
Unblock(k) ==
  /\ At(k, "blocked") /\ conn[sock[k]].peer # "open"
  /\ Answer(k)
  /\ UNCHANGED <<queue, server, sock, abort, forwarding>>

\* The process is gone, and the kernel closes what it had open.
Die ==
  /\ conn' = [c \in Conns |-> Absent]
  /\ queue' = <<>>
  /\ acceptor' = "killed"
  /\ pc' = [j \in Handlers |-> "none"]
  /\ sock' = [j \in Handlers |-> NoConn]
  /\ fsock' = [j \in Handlers |-> "none"] /\ fconnected' = [j \in Handlers |-> "no"]
  /\ UNCHANGED <<slot, stop, abort, leaked, failures>>

\* SIGPIPE.
Killed(k) ==
  /\ At(k, "reply") /\ conn[sock[k]].peer = "broken"
  /\ Die

-----------------------------------------------------------------------------
(* Forwarding, cMtcpClient.                                                *)

Lose(k) == leaked' = [leaked EXCEPT ![k] = IF fsock[k] = "open" THEN @ + 1 ELSE @]
Fail(k) == failures[k] < MaxFailures[k] /\ failures' = [failures EXCEPT ![k] = @ + 1]

\* connect makes a new socket, whatever became of the one before.  It succeeds,
\* or fails at once or after the kernel's own time limit and leaves the socket open,
\* or there is no descriptor left for one.
ForwardConnect(k) ==
  /\ At(k, "connect")
  /\ Lose(k)
  /\ \/ /\ Goto(k, "send")
        /\ fsock' = [fsock EXCEPT ![k] = "open"]
        /\ fconnected' = [fconnected EXCEPT ![k] = "yes"]
        /\ UNCHANGED failures
     \/ /\ Fail(k) /\ Goto(k, "reply")
        /\ \E s \in {"open", "none"} : fsock' = [fsock EXCEPT ![k] = s]
        /\ UNCHANGED fconnected
  /\ UNCHANGED <<conn, queue, server, sock, abort>>

\* send fails where the connection is reset, and nobody closes it.
ForwardSend(k) ==
  /\ At(k, "send")
  /\ \/ Goto(k, "recv") /\ UNCHANGED failures
     \/ Fail(k) /\ Goto(k, "reply")
  /\ UNCHANGED <<conn, queue, server, sock, abort, fsock, fconnected, leaked>>

\* Broken: the answer is passed on without closeconnection.
ForwardRecvOnly(k) ==
  /\ At(k, "recv")
  /\ Goto(k, "reply") \/ Goto(k, "sync")
  /\ UNCHANGED <<conn, queue, server, sock, abort, forwarding>>

\* recv returns the answer, or 0: then the answer is empty and nothing is sent.
\* closeconnection.
ForwardRecv(k) ==
  /\ At(k, "recv")
  /\ Goto(k, "reply") \/ Goto(k, "sync")
  /\ fsock' = [fsock EXCEPT ![k] = "none"] /\ fconnected' = [fconnected EXCEPT ![k] = "no"]
  /\ UNCHANGED <<conn, queue, server, sock, abort, leaked, failures>>

\* recv returns -1, and confirmation.assign(recvmessage, -1) throws: the exception
\* ends the thread, whose connections stay open until it is deleted.
ForwardRecvFails(k) ==
  /\ At(k, "recv") \/ At(k, "lost")
  /\ Fail(k) /\ Goto(k, "dead")
  /\ UNCHANGED <<conn, queue, server, sock, abort, fsock, fconnected, leaked>>

Forward(k) ==
  ForwardConnect(k) \/ ForwardSend(k) \/ ForwardRecv(k) \/ ForwardRecvFails(k)

Handle(k) ==
  SyncPoint(k) \/ Recv(k) \/ RecvEnd(k) \/ IdleTimeout(k) \/ Reply(k) \/ Unblock(k)
  \/ Killed(k) \/ Forward(k)

-----------------------------------------------------------------------------
(* The accepting thread, cMtcpServer::Body, and main's destructor of it.   *)

\* Broken: the loop starts before the first slot.
RoundFromZero ==
  /\ acceptor = "sync"
  /\ acceptor' = IF stop = "yes" THEN "ended" ELSE "reap"
  /\ slot' = 0
  /\ UNCHANGED <<conn, queue, stop, handlers>>

Round ==
  /\ acceptor = "sync"
  /\ acceptor' = IF stop = "yes" THEN "ended" ELSE "reap"
  /\ slot' = 1
  /\ UNCHANGED <<conn, queue, stop, handlers>>

\* A slot is done with: the next one, or after the last the thread goes on to select.
NextSlot ==
  IF slot < MAX_CLIENTS THEN slot' = slot + 1 /\ acceptor' = "reap"
  ELSE slot' = 1 /\ acceptor' = "select"

\* A slot without a handler, or whose handler is connected.
Keep ==
  /\ acceptor = "reap" /\ (pc[slot] = "none" \/ sock[slot] # NoConn)
  /\ NextSlot
  /\ UNCHANGED <<conn, queue, stop, handlers>>

\* Broken: connected() is not asked.
AbortAny ==
  /\ acceptor = "reap" /\ pc[slot] # "none"
  /\ abort' = [abort EXCEPT ![slot] = "yes"]
  /\ acceptor' = "join"
  /\ UNCHANGED <<conn, queue, slot, stop, pc, sock, forwarding>>

\* A handler that has closed its connection is told to end, and waited for.
Abort ==
  /\ acceptor = "reap" /\ pc[slot] # "none" /\ sock[slot] = NoConn
  /\ abort' = [abort EXCEPT ![slot] = "yes"]
  /\ acceptor' = "join"
  /\ UNCHANGED <<conn, queue, slot, stop, pc, sock, forwarding>>

\* delete of a handler whose thread has ended closes what it has open, but the socket
\* of its cMtcpClient only if connected is set.
Delete(k) ==
  /\ pc' = [pc EXCEPT ![k] = "none"]
  /\ abort' = [abort EXCEPT ![k] = "no"]
  /\ sock' = [sock EXCEPT ![k] = NoConn]
  /\ conn' = [c \in Conns |-> IF c = sock[k] THEN Absent ELSE conn[c]]
  /\ fsock' = [fsock EXCEPT ![k] = "none"] /\ fconnected' = [fconnected EXCEPT ![k] = "no"]
  /\ IF fconnected[k] = "no" THEN Lose(k) ELSE UNCHANGED leaked
  /\ UNCHANGED failures

Join ==
  /\ acceptor = "join" /\ pc[slot] \in {"ended", "dead"}
  /\ Delete(slot)
  /\ NextSlot
  /\ UNCHANGED <<queue, stop>>

\* The first free slot.
Free(k) == pc[k] = "none" /\ \A j \in Handlers : j < k => pc[j] # "none"

\* select and accept: the connection gets the first free slot and a thread.
Accept ==
  /\ acceptor = "select" /\ queue # <<>>
  /\ \E k \in Handlers :
       /\ Free(k)
       /\ pc' = [pc EXCEPT ![k] = "sync"]
       /\ sock' = [sock EXCEPT ![k] = Head(queue)]
  /\ conn' = [conn EXCEPT ![Head(queue)].end = "open"]
  /\ queue' = Tail(queue)
  /\ acceptor' = "sync"
  /\ UNCHANGED <<slot, stop, abort, forwarding>>

\* accept fails for want of a descriptor: the connection stays in the queue.
AcceptFails ==
  /\ acceptor = "select" /\ queue # <<>>
  /\ acceptor' = "sync"
  /\ UNCHANGED <<conn, queue, slot, stop, handlers>>

\* The constructor of the handler's cMtcpClient looks up the other host and goes on
\* with the null pointer it gets when the name is not found: the process dies.
LookupFails ==
  /\ FORWARDS = "name"
  /\ acceptor = "select" /\ queue # <<>> /\ \E k \in Handlers : Free(k)
  /\ Die

\* Broken: the connection that is too many is not closed.
DropOnly ==
  /\ acceptor = "select" /\ queue # <<>> /\ \A k \in Handlers : pc[k] # "none"
  /\ conn' = [conn EXCEPT ![Head(queue)].end = "open"]
  /\ queue' = Tail(queue)
  /\ acceptor' = "sync"
  /\ UNCHANGED <<slot, stop, handlers>>

\* "Too many connections": it is closed again.
Drop ==
  /\ acceptor = "select" /\ queue # <<>> /\ \A k \in Handlers : pc[k] # "none"
  /\ conn' = [conn EXCEPT ![Head(queue)] = Absent]
  /\ queue' = Tail(queue)
  /\ acceptor' = "sync"
  /\ UNCHANGED <<slot, stop, handlers>>

\* Nobody connects for two seconds.
SelectTimeout ==
  /\ acceptor = "select" /\ queue = <<>>
  /\ acceptor' = "sync"
  /\ UNCHANGED <<conn, queue, slot, stop, handlers>>

\* main has joined the accepting thread; the destructor closes the listen socket,
CloseListen ==
  /\ acceptor = "ended"
  /\ acceptor' = "delete" /\ slot' = 1
  /\ queue' = <<>>
  /\ conn' = [c \in Conns |-> IF conn[c].end = "queued" THEN Absent ELSE conn[c]]
  /\ UNCHANGED <<stop, handlers>>

NextDeleted ==
  IF slot < MAX_CLIENTS THEN slot' = slot + 1 /\ acceptor' = "delete"
  ELSE slot' = 1 /\ acceptor' = "exited"

SkipLast ==
  /\ acceptor = "delete" /\ pc[slot] = "none"
  /\ NextDeleted
  /\ UNCHANGED <<conn, queue, stop, handlers>>

\* Broken: nobody is told.
AbortNobody ==
  /\ acceptor = "delete" /\ pc[slot] # "none"
  /\ acceptor' = "last"
  /\ UNCHANGED <<conn, queue, slot, stop, handlers>>

\* tells every handler to end,
AbortLast ==
  /\ acceptor = "delete" /\ pc[slot] # "none"
  /\ abort' = [abort EXCEPT ![slot] = "yes"]
  /\ acceptor' = "last"
  /\ UNCHANGED <<conn, queue, slot, stop, pc, sock, forwarding>>

\* and waits for it.
JoinLast ==
  /\ acceptor = "last" /\ pc[slot] \in {"ended", "dead"}
  /\ Delete(slot)
  /\ NextDeleted
  /\ UNCHANGED <<queue, stop>>

Serve ==
  Round \/ Keep \/ Abort \/ Join \/ Accept \/ AcceptFails \/ LookupFails \/ Drop
  \/ SelectTimeout \/ CloseListen \/ SkipLast \/ AbortLast \/ JoinLast

-----------------------------------------------------------------------------
(* The callers, the other host and the end.                                *)

Connect(c) ==
  /\ conn[c] = Absent /\ Listening /\ Len(queue) < Waiting
  /\ conn' = [conn EXCEPT ![c] = [end |-> "queued", input |-> "none", peer |-> "open"]]
  /\ queue' = Append(queue, c)
  /\ UNCHANGED <<server, handlers>>

\* A command, whether or not the one before has been answered.
Send(c) ==
  /\ conn[c].peer = "open" /\ conn[c].input = "none"
  /\ conn' = [conn EXCEPT ![c].input = "command"]
  /\ UNCHANGED <<queue, server, handlers>>

\* The caller reads on.
Read(k) ==
  /\ At(k, "blocked") /\ conn[sock[k]].peer = "open"
  /\ Goto(k, "sync")
  /\ UNCHANGED <<conn, queue, server, sock, abort, forwarding>>

\* The caller closes, whether or not it has its answer.
Leave(c) ==
  /\ conn[c].peer = "open"
  /\ conn' = [conn EXCEPT ![c].peer = "gone"]
  /\ UNCHANGED <<queue, server, handlers>>

\* SIGTERM: main leaves its loop and calls Abort.
Stop ==
  /\ Listening /\ stop = "no"
  /\ stop' = "yes"
  /\ UNCHANGED <<conn, queue, acceptor, slot, handlers>>

\* The other host is gone without a word, and recv has no time limit.
Vanish(k) ==
  /\ At(k, "recv") /\ Goto(k, "lost")
  /\ UNCHANGED <<conn, queue, server, sock, abort, forwarding>>

Init ==
  /\ conn = [c \in Conns |-> Absent]
  /\ queue = <<>>
  /\ acceptor = "sync" /\ slot = 1 /\ stop = "no"
  /\ pc = [k \in Handlers |-> "none"]
  /\ sock = [k \in Handlers |-> NoConn]
  /\ abort = [k \in Handlers |-> "no"]
  /\ fsock = [k \in Handlers |-> "none"] /\ fconnected = [k \in Handlers |-> "no"]
  /\ leaked = [k \in Handlers |-> 0] /\ failures = [k \in Handlers |-> 0]

Next ==
  \/ \E k \in Handlers : Handle(k) \/ Read(k) \/ Vanish(k)
  \/ \E c \in Conns : Connect(c) \/ Send(c) \/ Leave(c)
  \/ Serve \/ Stop

Spec == Init /\ [][Next]_vars

\* Every thread runs, every select has a time limit, and the kernel and the other
\* host answer or fail in the end.
FairSpec == Spec /\ (\A k \in Handlers : WF_vars(Handle(k))) /\ WF_vars(Serve)

-----------------------------------------------------------------------------
(* Properties.                                                             *)

\* Types.
TypeOK ==
  /\ conn \in [Conns -> [end : {"none", "queued", "open"},
                         input : {"none", "command"},
                         peer : {"none", "open", "gone", "broken"}]]
  /\ queue \in Seq(Conns)
  /\ acceptor \in {"sync", "reap", "join", "select", "ended", "delete", "last", "exited",
                   "killed"}
  /\ slot \in Handlers /\ stop \in {"yes", "no"}
  /\ pc \in [Handlers -> {"none", "sync", "select", "connect", "send", "recv", "lost",
                          "reply", "blocked", "ended", "dead"}]
  /\ sock \in [Handlers -> Conns \cup {NoConn}]
  /\ abort \in [Handlers -> {"yes", "no"}]
  /\ fsock \in [Handlers -> {"none", "open"}] /\ fconnected \in [Handlers -> {"yes", "no"}]
  /\ leaked \in [Handlers -> Nat] /\ failures \in [Handlers -> Nat]

\* A caller's connection the host has open belongs to one handler, and one that waits
\* is in the listen queue: no caller's descriptor is leaked, closed twice or used by two
\* threads, whatever the order in which handlers close, the accepting thread deletes and
\* accepts, and the destructor ends them (mtcpserver.c:71-164, 189-196).  What becomes of
\* the sockets to the other host is said by LeaksNeedFailures.
OneOwner ==
  /\ \A c \in Conns : conn[c].end = "open" <=> \E k \in Handlers : sock[k] = c
  /\ \A j, k \in Handlers : sock[j] = sock[k] /\ sock[j] # NoConn => j = k
  /\ \A c \in Conns : conn[c].end = "queued" <=> \E i \in DOMAIN queue : queue[i] = c
  /\ \A i, j \in DOMAIN queue : queue[i] = queue[j] => i = j

\* The accepting thread waits in Join only for handlers that are at their SyncPoint or
\* have ended: a handler that forwards a command, waits for one or is blocked by its
\* caller never keeps others from being accepted (mtcpserver.c:99-106).
AcceptorNeverBlocked ==
  acceptor = "join" => abort[slot] = "yes" /\ pc[slot] \in {"sync", "ended"}

\* cMtcpClient loses a socket only where a forward has failed, and one per failure:
\* connect overwrites the socket that a failed connect or send has left open, and the
\* destructor closes none without the flag (mtcpserver.c:626-636, 1162-1197).  A forward
\* that succeeds after a failed one costs nothing, nor does the deletion of a thread
\* that has died of one with the connection open.
LeaksNeedFailures == \A k \in Handlers : leaked[k] <= failures[k]

\* A thread waits without a time limit, for its caller or for a host that is gone.
Stuck == \E k \in Handlers : pc[k] \in {"blocked", "lost"}

\* When its caller has left, the connection's slot is free again for others, wherever
\* the handler was and whatever the others wait for; not so when the thread itself
\* waits for a host that is gone, or has died of an answer that was an error
\* (mtcpserver.c:97-109, 260-275, 634, 1220-1229).  From SIGTERM on ShutdownEnds has to
\* say it.
SlotsReclaimed ==
  \A k \in Handlers :
    (sock[k] # NoConn /\ conn[sock[k]].peer # "open")
      ~> (pc[k] \in {"none", "dead", "lost"} \/ stop = "yes")

\* SIGTERM ends the process, although threads are in the middle of a command: main
\* waits for every one of them (mtcpserver.c:71-86).  It waits for ever for one whose
\* caller stays and never reads its answer, or that has asked a host that is gone.
ShutdownEnds == []<>~Stuck => (stop = "yes" ~> ~Running)
=============================================================================
