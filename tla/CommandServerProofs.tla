-------------------------- MODULE CommandServerProofs --------------------------
(***************************************************************************)
(* Theorems about CommandServer, for every number of slots, connections    *)
(* and waiting callers.                                                    *)
(*                                                                         *)
(* The invariant adds to OneOwner what ties a handler's place in its loop  *)
(* to its socket (Holding), to AcceptorNeverBlocked that the handler       *)
(* waited for has no connection, and to LeaksNeedFailures that a socket    *)
(* which is open while its cMtcpClient does not use it is one more that a  *)
(* failed forward has cost (Accounted).                                    *)
(***************************************************************************)
EXTENDS CommandServer, TLAPS

Conn == [end : {"none", "queued", "open"},
         input : {"none", "command"},
         peer : {"none", "open", "gone", "broken"}]

Forwarding == {"send", "recv", "lost", "dead"}
Holders == Forwarding \cup {"select", "connect", "reply", "blocked"}
Places == Holders \cup {"none", "sync", "ended"}

\* A thread in the middle of a command has a connection; a free slot has none.
Holding ==
  \A k \in Handlers :
    /\ pc[k] \in Holders => sock[k] # NoConn
    /\ pc[k] = "none" => sock[k] = NoConn

Waited ==
  acceptor = "join" => /\ abort[slot] = "yes" /\ pc[slot] \in {"sync", "ended"}
                       /\ sock[slot] = NoConn

\* The parts of OneOwner.
Owned == \A c \in Conns : conn[c].end = "open" <=> \E k \in Handlers : sock[k] = c
Exclusive == \A j, k \in Handlers : sock[j] = sock[k] /\ sock[j] # NoConn => j = k
InQueue == \A c \in Conns : conn[c].end = "queued" <=> \E i \in DOMAIN queue : queue[i] = c
Once == \A i, j \in DOMAIN queue : queue[i] = queue[j] => i = j

\* The sockets of cMtcpClient that nobody uses any more, and those that nobody can close.
Stale(k) == IF fsock[k] = "open" /\ pc[k] \notin Forwarding THEN 1 ELSE 0

Accounted ==
  \A k \in Handlers :
    /\ pc[k] \in Forwarding => fconnected[k] = "yes"
    /\ leaked[k] + Stale(k) <= failures[k]

IInv ==
  TypeOK /\ Owned /\ Exclusive /\ InQueue /\ Once /\ Holding /\ Waited /\ Accounted

USE CommandAssumption, NamesAssumption

-----------------------------------------------------------------------------
(* Types.                                                                  *)

\* What is left of a connection the host has closed.
LEMMA AbsentType == Absent \in Conn /\ Absent.end = "none"
  BY DEF Absent, Conn

\* There is a first slot.
LEMMA SlotsExist == Handlers \subseteq Nat /\ 1 \in Handlers
  BY DEF Handlers

\* The next slot, or the first again.
LEMMA NextSlotType ==
  ASSUME slot \in Handlers, NextSlot \/ NextDeleted
  PROVE  slot' \in Handlers /\ acceptor' \in {"reap", "select", "delete", "exited"}
  BY DEF NextSlot, NextDeleted, Handlers

\* The types, with the names of this module.
Types ==
  /\ conn \in [Conns -> Conn] /\ queue \in Seq(Conns)
  /\ pc \in [Handlers -> Places] /\ sock \in [Handlers -> Conns \cup {NoConn}]
  /\ abort \in [Handlers -> {"yes", "no"}]
  /\ slot \in Handlers /\ stop \in {"yes", "no"}
  /\ acceptor \in {"sync", "reap", "join", "select", "ended", "delete", "last", "exited",
                   "killed"}

ForwardTypes ==
  /\ fsock \in [Handlers -> {"none", "open"}] /\ fconnected \in [Handlers -> {"yes", "no"}]
  /\ leaked \in [Handlers -> Nat] /\ failures \in [Handlers -> Nat]

\* TypeOK is their conjunction.
LEMMA TypeParts == TypeOK <=> Types /\ ForwardTypes
  BY DEF TypeOK, Types, ForwardTypes, Conn, Places, Holders, Forwarding

\* The initial types.
LEMMA InitType == Init => TypeOK
<1> SUFFICES ASSUME Init PROVE Types /\ ForwardTypes
  BY TypeParts
<1>1. Types
  BY SlotsExist, AbsentType DEF Init, Types, Places
<1>2. ForwardTypes
  BY DEF Init, ForwardTypes
<1> QED
  BY <1>1, <1>2

\* Of a command server that dies nothing is left.
LEMMA DieType ==
  ASSUME Types, Die
  PROVE  Types'
<1>1. conn' \in [Conns -> Conn] /\ queue' \in Seq(Conns)
  BY AbsentType DEF Die
<1>2. pc' \in [Handlers -> Places] /\ sock' \in [Handlers -> Conns \cup {NoConn}]
  BY DEF Die, Places
<1> QED
  BY <1>1, <1>2 DEF Die, Types

\* What goes on in a thread: its own steps and what its caller and the other host do.
Thread(k) == Handle(k) \/ Read(k) \/ Vanish(k)

\* The threads' steps.
LEMMA ThreadType ==
  ASSUME Types, Holding, NEW k \in Handlers, Thread(k)
  PROVE  Types'
<1>0. conn \in [Conns -> Conn] /\ sock \in [Handlers -> Conns \cup {NoConn}]
  BY DEF Types
<1>1. CASE SyncPoint(k) \/ Read(k) \/ Vanish(k)
  <2>1. \E where \in Places : pc' = [pc EXCEPT ![k] = where]
    BY <1>1 DEF SyncPoint, Read, Vanish, Goto, Places, Holders, Forwarding
  <2> QED
    BY <1>1, <2>1 DEF SyncPoint, Read, Vanish, Types, server
<1>2. CASE Recv(k)
  <2>1. sock[k] \in Conns
    BY <1>0, <1>2 DEF Recv, At, Holding, Holders
  <2>2. conn' \in [Conns -> Conn]
    BY <1>0, <1>2, <2>1 DEF Recv, Conn
  <2>3. \E where \in Places : pc' = [pc EXCEPT ![k] = where]
    BY <1>2 DEF Recv, Goto, Places, Holders
  <2> QED
    BY <1>2, <2>2, <2>3 DEF Recv, Types, server
<1>3. CASE RecvEnd(k) \/ IdleTimeout(k)
  <2>1. conn' \in [Conns -> Conn] /\ sock' \in [Handlers -> Conns \cup {NoConn}]
    BY <1>0, <1>3, AbsentType DEF RecvEnd, IdleTimeout, CloseConnection
  <2>2. \E where \in Places : pc' = [pc EXCEPT ![k] = where]
    BY <1>3 DEF RecvEnd, IdleTimeout, Goto, Places
  <2> QED
    BY <1>3, <2>1, <2>2 DEF RecvEnd, IdleTimeout, Types, server
<1>4. CASE Reply(k) \/ Unblock(k)
  <2>1. conn' \in [Conns -> Conn]
    BY <1>0, <1>4 DEF Reply, Unblock, Answer, Conn
  <2>2. \E where \in Places : pc' = [pc EXCEPT ![k] = where]
    BY <1>4 DEF Reply, Unblock, Answer, Goto, Places, Holders
  <2> QED
    BY <1>4, <2>1, <2>2 DEF Reply, Unblock, Types, server
<1>5. CASE Killed(k)
  BY <1>5, DieType DEF Killed
<1>6. CASE Forward(k)
  <2>1. \E where \in Places : pc' = [pc EXCEPT ![k] = where]
    BY <1>6 DEF Forward, ForwardConnect, ForwardSend, ForwardRecv, ForwardRecvFails, Goto,
                Places, Holders, Forwarding
  <2> QED
    BY <1>6, <2>1 DEF Forward, ForwardConnect, ForwardSend, ForwardRecv, ForwardRecvFails,
                      Types, server
<1> QED
  BY <1>1, <1>2, <1>3, <1>4, <1>5, <1>6 DEF Thread, Handle

\* delete of a handler.
LEMMA DeleteType ==
  ASSUME Types, NEW k \in Handlers, Delete(k)
  PROVE  /\ conn' \in [Conns -> Conn]
         /\ pc' \in [Handlers -> Places]
         /\ sock' \in [Handlers -> Conns \cup {NoConn}]
         /\ abort' \in [Handlers -> {"yes", "no"}]
<1>1. conn' \in [Conns -> Conn]
  BY AbsentType DEF Delete, Types
<1>2. pc' \in [Handlers -> Places]
  BY DEF Delete, Types, Places
<1> QED
  BY <1>1, <1>2 DEF Delete, Types

\* The accepting thread's and the destructor's steps.
LEMMA ServeType ==
  ASSUME Types, Serve
  PROVE  Types'
<1>0. conn \in [Conns -> Conn] /\ queue \in Seq(Conns) /\ slot \in Handlers
  BY DEF Types
<1>1. CASE Round
  BY <1>1, SlotsExist DEF Round, Types, handlers
<1>2. CASE Keep \/ SkipLast
  BY <1>2, NextSlotType DEF Keep, SkipLast, Types, handlers
<1>3. CASE Abort \/ AbortLast
  BY <1>3 DEF Abort, AbortLast, Types
<1>4. CASE Join \/ JoinLast
  <2>1. Delete(slot) /\ (NextSlot \/ NextDeleted)
    BY <1>4 DEF Join, JoinLast
  <2> QED
    BY <1>0, <1>4, <2>1, DeleteType, NextSlotType DEF Join, JoinLast, Types
<1>5. CASE Accept
  <2>1. Head(queue) \in Conns /\ Tail(queue) \in Seq(Conns)
    BY <1>0, <1>5 DEF Accept
  <2>2. conn' \in [Conns -> Conn]
    BY <1>0, <1>5, <2>1 DEF Accept, Conn
  <2>3. pc' \in [Handlers -> Places] /\ sock' \in [Handlers -> Conns \cup {NoConn}]
    BY <1>5, <2>1 DEF Accept, Types, Places
  <2> QED
    BY <1>5, <2>1, <2>2, <2>3 DEF Accept, Types
<1>6. CASE Drop
  <2>1. Head(queue) \in Conns /\ Tail(queue) \in Seq(Conns)
    BY <1>0, <1>6 DEF Drop
  <2>2. conn' \in [Conns -> Conn]
    BY <1>0, <1>6, AbsentType DEF Drop
  <2> QED
    BY <1>6, <2>1, <2>2 DEF Drop, Types, handlers
<1>7. CASE SelectTimeout \/ AcceptFails
  BY <1>7 DEF SelectTimeout, AcceptFails, Types, handlers
<1>8. CASE CloseListen
  <2>1. conn' \in [Conns -> Conn] /\ queue' \in Seq(Conns)
    BY <1>0, <1>8, AbsentType DEF CloseListen
  <2> QED
    BY <1>8, <2>1, SlotsExist DEF CloseListen, Types, handlers
<1>9. CASE LookupFails
  BY <1>9, DieType DEF LookupFails
<1> QED
  BY <1>1, <1>2, <1>3, <1>4, <1>5, <1>6, <1>7, <1>8, <1>9 DEF Serve

Caller(c) == Connect(c) \/ Send(c) \/ Leave(c)

\* The callers' steps.
LEMMA CallerType ==
  ASSUME Types, NEW c \in Conns, Caller(c)
  PROVE  Types'
<1>0. conn \in [Conns -> Conn] /\ queue \in Seq(Conns)
  BY DEF Types
<1>1. CASE Connect(c)
  <2>1. conn' \in [Conns -> Conn] /\ queue' \in Seq(Conns)
    BY <1>0, <1>1 DEF Connect, Conn
  <2> QED
    BY <1>1, <2>1 DEF Connect, Types, server, handlers
<1>2. CASE Send(c) \/ Leave(c)
  <2>1. conn' \in [Conns -> Conn]
    BY <1>0, <1>2 DEF Send, Leave, Conn
  <2> QED
    BY <1>2, <2>1 DEF Send, Leave, Types, server, handlers
<1> QED
  BY <1>1, <1>2 DEF Caller

-----------------------------------------------------------------------------
(* Who owns a connection.                                                  *)

Owners == Owned /\ Exclusive /\ InQueue /\ Once

\* Steps that close, accept and hand over nothing.
LEMMA SameOwners ==
  ASSUME Owners, sock' = sock, queue' = queue,
         \A c \in Conns : conn'[c].end = conn[c].end
  PROVE  Owners'
  BY DEF Owners, Owned, Exclusive, InQueue, Once

\* closeconnection of a handler, or its deletion: the only owner gives up what is
\* closed, and nothing that waits is touched.
LEMMA OwnerCloses ==
  ASSUME Types, Owners, NEW k \in Handlers, queue' = queue,
         sock' = [sock EXCEPT ![k] = NoConn],
         conn' = [c \in Conns |-> IF c = sock[k] THEN Absent ELSE conn[c]]
  PROVE  Owners'
<1>1. sock \in [Handlers -> Conns \cup {NoConn}]
  BY DEF Types
<1>2. /\ \A j \in Handlers : sock'[j] = IF j = k THEN NoConn ELSE sock[j]
      /\ \A c \in Conns : c # sock[k] => conn'[c].end = conn[c].end
      /\ sock[k] \in Conns => conn'[sock[k]].end = "none"
  BY <1>1, AbsentType
<1>3. \A c \in Conns : c = sock[k] => conn[c].end = "open"
  BY DEF Owners, Owned
<1>4. Owned'
  <2> SUFFICES ASSUME NEW c \in Conns
               PROVE  conn'[c].end = "open" <=> \E j \in Handlers : sock'[j] = c
    BY DEF Owned
  <2>1. CASE c = sock[k]
    <3>1. \A j \in Handlers : sock'[j] # c
      BY <1>2, <2>1, NamesAssumption DEF Owners, Exclusive
    <3> QED
      BY <1>2, <2>1, <3>1
  <2>2. CASE c # sock[k]
    BY <1>2, <2>2, NamesAssumption DEF Owners, Owned
  <2> QED
    BY <2>1, <2>2
<1>5. Exclusive'
  BY <1>2 DEF Owners, Exclusive
<1>6. InQueue'
  <2> SUFFICES ASSUME NEW c \in Conns
               PROVE  conn'[c].end = "queued" <=> \E i \in DOMAIN queue : queue[i] = c
    BY DEF InQueue
  <2>1. conn[c].end = "queued" <=> \E i \in DOMAIN queue : queue[i] = c
    BY DEF Owners, InQueue
  <2>2. conn'[c].end = "queued" <=> conn[c].end = "queued"
    BY <1>2, <1>3
  <2> QED
    BY <2>1, <2>2
<1> QED
  BY <1>4, <1>5, <1>6 DEF Owners, Once

\* A command server that dies owns nothing.
LEMMA DieOwners ==
  ASSUME Types, Die
  PROVE  Owners'
<1>1. \A c \in Conns : conn'[c].end = "none"
  BY AbsentType DEF Die
<1>2. queue' = <<>> /\ \A j \in Handlers : sock'[j] = NoConn
  BY DEF Die
<1> QED
  BY <1>1, <1>2, NamesAssumption DEF Owners, Owned, Exclusive, InQueue, Once

\* The threads' steps.
LEMMA ThreadOwners ==
  ASSUME Types, Owners, Holding, NEW k \in Handlers, Thread(k)
  PROVE  Owners'
<1>0. /\ conn \in [Conns -> Conn] /\ sock \in [Handlers -> Conns \cup {NoConn}]
      /\ queue \in Seq(Conns)
  BY DEF Types
<1>1. CASE SyncPoint(k) \/ Read(k) \/ Vanish(k) \/ Forward(k)
  BY <1>1, SameOwners
     DEF SyncPoint, Read, Vanish, Forward, ForwardConnect, ForwardSend, ForwardRecv,
         ForwardRecvFails, server
<1>2. CASE Recv(k) \/ Reply(k) \/ Unblock(k)
  <2>1. \A c \in Conns : conn'[c].end = conn[c].end
    BY <1>0, <1>2 DEF Recv, Reply, Unblock, Answer, Conn
  <2>2. sock' = sock /\ queue' = queue
    BY <1>2 DEF Recv, Reply, Unblock
  <2> QED
    BY <2>1, <2>2, SameOwners
<1>3. CASE RecvEnd(k) \/ IdleTimeout(k)
  <2>1. queue' = queue /\ CloseConnection(k)
    BY <1>3 DEF RecvEnd, IdleTimeout
  <2>2. conn' = [c \in Conns |-> IF c = sock[k] THEN Absent ELSE conn[c]]
    BY <1>0, <2>1 DEF CloseConnection
  <2> QED
    BY <2>1, <2>2, OwnerCloses DEF CloseConnection
<1>4. CASE Killed(k)
  BY <1>4, DieOwners DEF Killed
<1> QED
  BY <1>1, <1>2, <1>3, <1>4 DEF Thread, Handle

\* The first connection of the listen queue and the others.
LEMMA FirstLeaves ==
  ASSUME Types, Owners, queue # <<>>, queue' = Tail(queue),
         \A c \in Conns : c # Head(queue) => conn'[c].end = conn[c].end,
         conn'[Head(queue)].end # "queued"
  PROVE  InQueue' /\ Once' /\ Head(queue) \in Conns /\ conn[Head(queue)].end = "queued"
<1>1. /\ queue \in Seq(Conns) /\ Len(queue) \in Nat \ {0} /\ Head(queue) = queue[1]
      /\ DOMAIN queue = 1..Len(queue) /\ Head(queue) \in Conns
  BY DEF Types
<1>2. DOMAIN queue' = 1..(Len(queue) - 1) /\ \A i \in DOMAIN queue' : queue'[i] = queue[i + 1]
  BY <1>1
<1>3. Once'
  BY <1>1, <1>2 DEF Owners, Once
<1>4. \A i \in DOMAIN queue' : queue'[i] # Head(queue)
  BY <1>1, <1>2 DEF Owners, Once
<1>5. \A c \in Conns : c # Head(queue) =>
        ((\E i \in DOMAIN queue : queue[i] = c) <=> \E i \in DOMAIN queue' : queue'[i] = c)
  <2> SUFFICES ASSUME NEW c \in Conns, c # Head(queue)
               PROVE  (\E i \in DOMAIN queue : queue[i] = c)
                        <=> \E i \in DOMAIN queue' : queue'[i] = c
    OBVIOUS
  <2>1. ASSUME NEW i \in DOMAIN queue, queue[i] = c
        PROVE  \E j \in DOMAIN queue' : queue'[j] = c
    <3>1. i - 1 \in DOMAIN queue' /\ queue'[i - 1] = c
      BY <1>1, <1>2, <2>1
    <3> QED
      BY <3>1
  <2>2. ASSUME NEW i \in DOMAIN queue', queue'[i] = c
        PROVE  \E j \in DOMAIN queue : queue[j] = c
    <3>1. i + 1 \in DOMAIN queue /\ queue[i + 1] = c
      BY <1>1, <1>2, <2>2
    <3> QED
      BY <3>1
  <2> QED
    BY <2>1, <2>2
<1>6. InQueue'
  <2> SUFFICES ASSUME NEW c \in Conns
               PROVE  conn'[c].end = "queued" <=> \E i \in DOMAIN queue' : queue'[i] = c
    BY DEF InQueue
  <2>1. CASE c = Head(queue)
    BY <1>4, <2>1
  <2>2. CASE c # Head(queue)
    BY <1>5, <2>2 DEF Owners, InQueue
  <2> QED
    BY <2>1, <2>2
<1>7. conn[Head(queue)].end = "queued"
  BY <1>1 DEF Owners, InQueue
<1> QED
  BY <1>1, <1>3, <1>6, <1>7

\* The accepting thread's and the destructor's steps.
LEMMA ServeOwners ==
  ASSUME Types, Owners, Holding, Serve
  PROVE  Owners'
<1>0. /\ conn \in [Conns -> Conn] /\ sock \in [Handlers -> Conns \cup {NoConn}]
      /\ queue \in Seq(Conns) /\ slot \in Handlers
  BY DEF Types
<1>1. CASE Round \/ Keep \/ Abort \/ SelectTimeout \/ AcceptFails \/ SkipLast \/ AbortLast
  BY <1>1, SameOwners
     DEF Round, Keep, Abort, SelectTimeout, AcceptFails, SkipLast, AbortLast, handlers
<1>2. CASE Join \/ JoinLast
  BY <1>0, <1>2, OwnerCloses DEF Join, JoinLast, Delete
<1>3. CASE Accept
  <2>1. /\ \A c \in Conns : c # Head(queue) => conn'[c].end = conn[c].end
        /\ Head(queue) \in Conns => conn'[Head(queue)].end = "open"
    BY <1>0, <1>3 DEF Accept, Conn
  <2>2. Head(queue) \in Conns
    BY <1>0, <1>3 DEF Accept
  <2>3. InQueue' /\ Once' /\ conn[Head(queue)].end = "queued"
    BY <1>3, <2>1, <2>2, FirstLeaves DEF Accept
  <2>4. PICK k \in Handlers : pc[k] = "none" /\ sock' = [sock EXCEPT ![k] = Head(queue)]
    BY <1>3 DEF Accept, Free
  <2>5. sock[k] = NoConn /\ \A j \in Handlers : sock[j] # Head(queue)
    BY <2>2, <2>3, <2>4 DEF Holding, Owners, Owned
  <2>6. \A j \in Handlers : sock'[j] = IF j = k THEN Head(queue) ELSE sock[j]
    BY <1>0, <2>4
  <2>7. Exclusive'
    BY <2>5, <2>6 DEF Owners, Exclusive
  <2>8. Owned'
    <3> SUFFICES ASSUME NEW c \in Conns
                 PROVE  conn'[c].end = "open" <=> \E j \in Handlers : sock'[j] = c
      BY DEF Owned
    <3>1. CASE c = Head(queue)
      BY <2>1, <2>6, <3>1
    <3>2. CASE c # Head(queue)
      BY <2>1, <2>5, <2>6, <3>2, NamesAssumption DEF Owners, Owned
    <3> QED
      BY <3>1, <3>2
  <2> QED
    BY <2>3, <2>7, <2>8 DEF Owners
<1>4. CASE Drop
  <2>1. Head(queue) \in Conns
    BY <1>0, <1>4 DEF Drop
  <2>2. /\ \A c \in Conns : c # Head(queue) => conn'[c].end = conn[c].end
        /\ conn'[Head(queue)].end = "none"
    BY <1>0, <1>4, <2>1, AbsentType DEF Drop
  <2>3. InQueue' /\ Once' /\ conn[Head(queue)].end = "queued"
    BY <1>4, <2>2, FirstLeaves DEF Drop
  <2>4. sock' = sock
    BY <1>4 DEF Drop, handlers
  <2>5. \A c \in Conns : conn'[c].end = "open" <=> conn[c].end = "open"
    BY <2>2, <2>3
  <2>6. Owned' /\ Exclusive'
    BY <2>4, <2>5 DEF Owners, Owned, Exclusive
  <2> QED
    BY <2>3, <2>6 DEF Owners
<1>5. CASE CloseListen
  <2>1. \A c \in Conns : /\ conn[c].end # "queued" => conn'[c].end = conn[c].end
                         /\ conn[c].end = "queued" => conn'[c].end = "none"
    BY <1>0, <1>5, AbsentType DEF CloseListen
  <2>2. queue' = <<>> /\ sock' = sock
    BY <1>5 DEF CloseListen, handlers
  <2>3. InQueue' /\ Once'
    BY <2>1, <2>2 DEF InQueue, Once
  <2>4. \A c \in Conns : conn'[c].end = "open" <=> conn[c].end = "open"
    BY <2>1
  <2>5. Owned' /\ Exclusive'
    BY <2>2, <2>4 DEF Owners, Owned, Exclusive
  <2> QED
    BY <2>3, <2>5 DEF Owners
<1>6. CASE LookupFails
  BY <1>6, DieOwners DEF LookupFails
<1> QED
  BY <1>1, <1>2, <1>3, <1>4, <1>5, <1>6 DEF Serve

\* The callers' steps.
LEMMA CallerOwners ==
  ASSUME Types, Owners, NEW c \in Conns, Caller(c)
  PROVE  Owners'
<1>0. /\ conn \in [Conns -> Conn] /\ queue \in Seq(Conns) /\ Len(queue) \in Nat
      /\ DOMAIN queue = 1..Len(queue)
  BY DEF Types
<1>1. CASE Connect(c)
  <2>1. sock' = sock /\ queue' = Append(queue, c) /\ conn[c].end = "none"
    BY <1>1 DEF Connect, handlers, Absent
  <2>2. conn'[c].end = "queued" /\ \A d \in Conns : d # c => conn'[d].end = conn[d].end
    BY <1>0, <1>1 DEF Connect, Conn
  <2>3. \A i \in DOMAIN queue : queue[i] # c
    BY <2>1 DEF Owners, InQueue
  <2>4. /\ DOMAIN queue' = 1..(Len(queue) + 1) /\ queue'[Len(queue) + 1] = c
        /\ \A i \in DOMAIN queue : queue'[i] = queue[i]
    BY <1>0, <2>1
  <2>5. Once'
    BY <1>0, <2>3, <2>4 DEF Owners, Once
  <2>6. InQueue'
    <3> SUFFICES ASSUME NEW d \in Conns
                 PROVE  conn'[d].end = "queued" <=> \E i \in DOMAIN queue' : queue'[i] = d
      BY DEF InQueue
    <3>1. CASE d = c
      <4>1. Len(queue) + 1 \in DOMAIN queue'
        BY <1>0, <2>4
      <4> QED
        BY <2>2, <2>4, <3>1, <4>1
    <3>2. CASE d # c
      <4>1. (\E i \in DOMAIN queue : queue[i] = d) <=> \E i \in DOMAIN queue' : queue'[i] = d
        BY <1>0, <2>4, <3>2
      <4> QED
        BY <2>2, <3>2, <4>1 DEF Owners, InQueue
    <3> QED
      BY <3>1, <3>2
  <2>7. \A d \in Conns : conn'[d].end = "open" <=> conn[d].end = "open"
    BY <2>1, <2>2
  <2>8. Owned' /\ Exclusive'
    BY <2>1, <2>7 DEF Owners, Owned, Exclusive
  <2> QED
    BY <2>5, <2>6, <2>8 DEF Owners
<1>2. CASE Send(c) \/ Leave(c)
  <2>1. \A d \in Conns : conn'[d].end = conn[d].end
    <3>1. \/ conn' = [conn EXCEPT ![c].input = "command"]
          \/ conn' = [conn EXCEPT ![c].peer = "gone"]
      BY <1>2 DEF Send, Leave
    <3>2. conn'[c].end = conn[c].end
      BY <1>0, <3>1 DEF Conn
    <3>3. \A d \in Conns : d # c => conn'[d] = conn[d]
      BY <1>0, <3>1
    <3> QED
      BY <3>2, <3>3
  <2>2. sock' = sock /\ queue' = queue
    BY <1>2 DEF Send, Leave, handlers
  <2> QED
    BY <2>1, <2>2, SameOwners
<1> QED
  BY <1>1, <1>2 DEF Caller

-----------------------------------------------------------------------------
(* Where the threads are.                                                  *)

\* Of a command server that dies no thread is left.
LEMMA DiePlaces ==
  ASSUME Die
  PROVE  Holding' /\ Waited'
  BY DEF Die, Holding, Waited, Holders, Forwarding

\* A thread's step changes its own place, and its socket at most to NoConn.
LEMMA ThreadHolding ==
  ASSUME Types, Holding, NEW k \in Handlers, Thread(k)
  PROVE  Holding'
<1>0. pc \in [Handlers -> Places] /\ sock \in [Handlers -> Conns \cup {NoConn}]
  BY DEF Types
<1>1. CASE SyncPoint(k)
  <2>1. \/ pc' = [pc EXCEPT ![k] = "ended"]
        \/ sock[k] # NoConn /\ pc' = [pc EXCEPT ![k] = "select"]
    BY <1>1 DEF SyncPoint, Goto
  <2>2. sock' = sock
    BY <1>1 DEF SyncPoint
  <2> QED
    BY <1>0, <2>1, <2>2 DEF Holding, Holders, Forwarding
<1>2. CASE RecvEnd(k) \/ IdleTimeout(k)
  <2>1. sock' = [sock EXCEPT ![k] = NoConn]
    BY <1>2 DEF RecvEnd, IdleTimeout, CloseConnection
  <2>2. \E where \in {"ended", "sync"} : pc' = [pc EXCEPT ![k] = where]
    BY <1>2 DEF RecvEnd, IdleTimeout, Goto
  <2> QED
    BY <1>0, <2>1, <2>2 DEF Holding, Holders, Forwarding
<1>3. CASE Recv(k) \/ Reply(k) \/ Unblock(k) \/ Read(k) \/ Vanish(k) \/ Forward(k)
  <2>1. sock' = sock
    BY <1>3 DEF Recv, Reply, Unblock, Read, Vanish, Forward, ForwardConnect, ForwardSend,
                ForwardRecv, ForwardRecvFails
  <2>2. pc[k] \in Holders
    BY <1>3 DEF Recv, Reply, Unblock, Read, Vanish, Forward, ForwardConnect, ForwardSend,
                ForwardRecv, ForwardRecvFails, At, Holders, Forwarding
  <2>3. \E where \in Holders \cup {"sync"} : pc' = [pc EXCEPT ![k] = where]
    BY <1>3 DEF Recv, Reply, Unblock, Answer, Read, Vanish, Forward, ForwardConnect,
                ForwardSend, ForwardRecv, ForwardRecvFails, Goto, Holders, Forwarding
  <2>4. sock[k] # NoConn
    BY <2>2 DEF Holding
  <2> QED
    BY <1>0, <2>1, <2>3, <2>4 DEF Holding, Holders, Forwarding
<1>4. CASE Killed(k)
  BY <1>4, DiePlaces DEF Killed
<1> QED
  BY <1>1, <1>2, <1>3, <1>4 DEF Thread, Handle

\* The handler the accepting thread waits for can only end.
LEMMA ThreadWaited ==
  ASSUME Types, Waited, NEW k \in Handlers, Thread(k)
  PROVE  Waited'
<1>0. /\ pc \in [Handlers -> Places] /\ sock \in [Handlers -> Conns \cup {NoConn}]
      /\ slot \in Handlers
  BY DEF Types
<1>1. CASE Killed(k)
  BY <1>1, DiePlaces DEF Killed
<1>2. CASE ~Killed(k)
  <2>1. acceptor' = acceptor /\ slot' = slot /\ abort' = abort
    BY <1>2 DEF Thread, Handle, SyncPoint, Recv, RecvEnd, IdleTimeout, Reply, Unblock, Read,
                Vanish, Forward, ForwardConnect, ForwardSend, ForwardRecv, ForwardRecvFails,
                server
  <2>2. /\ \A j \in Handlers : j # k => pc'[j] = pc[j]
        /\ \A j \in Handlers : j # k => sock'[j] = sock[j]
    <3>1. \E where \in Places : pc' = [pc EXCEPT ![k] = where]
      BY <1>2 DEF Thread, Handle, SyncPoint, Recv, RecvEnd, IdleTimeout, Reply, Unblock,
                  Answer, Read, Vanish, Forward, ForwardConnect, ForwardSend, ForwardRecv,
                  ForwardRecvFails, Goto, Places, Holders, Forwarding
    <3>2. sock' = sock \/ sock' = [sock EXCEPT ![k] = NoConn]
      BY <1>2 DEF Thread, Handle, SyncPoint, Recv, RecvEnd, IdleTimeout, CloseConnection,
                  Reply, Unblock, Read, Vanish, Forward, ForwardConnect, ForwardSend,
                  ForwardRecv, ForwardRecvFails
    <3> QED
      BY <1>0, <3>1, <3>2
  <2>3. CASE k = slot /\ acceptor = "join"
    <3>1. SyncPoint(k)
      BY <1>2, <2>3
         DEF Waited, Thread, Handle, Recv, RecvEnd, IdleTimeout, Reply, Unblock, Read, Vanish,
             Forward, ForwardConnect, ForwardSend, ForwardRecv, ForwardRecvFails, At
    <3>2. pc'[k] = "ended" /\ sock' = sock
      BY <1>0, <2>3, <3>1 DEF SyncPoint, Goto, Waited
    <3> QED
      BY <2>1, <2>3, <3>2 DEF Waited
  <2>4. CASE ~(k = slot /\ acceptor = "join")
    BY <1>0, <2>1, <2>2, <2>4 DEF Waited
  <2> QED
    BY <2>3, <2>4
<1> QED
  BY <1>1, <1>2

\* The accepting thread and the destructor empty slots, fill one and wait.
LEMMA ServePlaces ==
  ASSUME Types, Holding, Waited, Serve
  PROVE  Holding' /\ Waited'
<1>0. /\ pc \in [Handlers -> Places] /\ sock \in [Handlers -> Conns \cup {NoConn}]
      /\ slot \in Handlers /\ abort \in [Handlers -> {"yes", "no"}]
  BY DEF Types
<1>1. CASE Round \/ SelectTimeout \/ AcceptFails \/ Drop \/ CloseListen
  <2>1. acceptor' # "join" /\ pc' = pc /\ sock' = sock
    BY <1>1 DEF Round, SelectTimeout, AcceptFails, Drop, CloseListen, handlers
  <2> QED
    BY <2>1 DEF Holding, Waited
<1>2. CASE Keep \/ SkipLast
  <2>1. acceptor' # "join" /\ pc' = pc /\ sock' = sock
    BY <1>0, <1>2, NextSlotType DEF Keep, SkipLast, handlers
  <2> QED
    BY <2>1 DEF Holding, Waited
<1>3. CASE Abort
  BY <1>0, <1>3 DEF Abort, Holding, Waited, Places, Holders, Forwarding
<1>4. CASE AbortLast
  BY <1>4 DEF AbortLast, Holding, Waited
<1>5. CASE Join \/ JoinLast
  <2>1. acceptor' # "join"
    BY <1>0, <1>5, NextSlotType DEF Join, JoinLast
  <2>2. pc' = [pc EXCEPT ![slot] = "none"] /\ sock' = [sock EXCEPT ![slot] = NoConn]
    BY <1>5 DEF Join, JoinLast, Delete
  <2> QED
    BY <1>0, <2>1, <2>2 DEF Holding, Waited, Holders, Forwarding
<1>6. CASE Accept
  <2>1. acceptor' # "join"
    BY <1>6 DEF Accept
  <2>2. PICK k \in Handlers : pc' = [pc EXCEPT ![k] = "sync"]
                             /\ sock' = [sock EXCEPT ![k] = Head(queue)]
    BY <1>6 DEF Accept
  <2> QED
    BY <1>0, <2>1, <2>2 DEF Holding, Waited, Holders, Forwarding
<1>7. CASE LookupFails
  BY <1>7, DiePlaces DEF LookupFails
<1> QED
  BY <1>1, <1>2, <1>3, <1>4, <1>5, <1>6, <1>7 DEF Serve

-----------------------------------------------------------------------------
(* The sockets of cMtcpClient.                                             *)

\* A handler that is not in the middle of a forward and stays so, with its socket as it
\* was.
LEMMA SameAccount ==
  ASSUME Accounted, forwarding' = forwarding,
         \A k \in Handlers : pc'[k] \in Forwarding <=> pc[k] \in Forwarding
  PROVE  Accounted'
  BY DEF Accounted, Stale, forwarding

\* A forward: what is overwritten was left by a failed one, and what a failure leaves is
\* counted (mtcpserver.c:618-641, 1162-1197).
LEMMA ForwardAccounted ==
  ASSUME Types, ForwardTypes, Accounted, NEW k \in Handlers, Forward(k)
  PROVE  ForwardTypes' /\ Accounted'
<1>0. pc \in [Handlers -> Places]
  BY DEF Types
<1>1. CASE ForwardConnect(k)
  <2>1. PICK where \in {"send", "reply"} :
             /\ pc' = [pc EXCEPT ![k] = where]
             /\ where = "send" => /\ failures' = failures
                                 /\ fconnected' = [fconnected EXCEPT ![k] = "yes"]
             /\ where = "reply" => /\ failures' = [failures EXCEPT ![k] = failures[k] + 1]
                                  /\ fconnected' = fconnected
    <3>1. CASE Goto(k, "send")
      BY <1>0, <1>1, <3>1 DEF ForwardConnect, Goto
    <3>2. CASE Goto(k, "reply")
      BY <1>0, <1>1, <3>2 DEF ForwardConnect, Fail, Goto
    <3> QED
      BY <1>1, <3>1, <3>2 DEF ForwardConnect
  <2>2. PICK s \in {"open", "none"} : fsock' = [fsock EXCEPT ![k] = s]
    BY <1>1 DEF ForwardConnect
  <2>3. leaked' = [leaked EXCEPT ![k] = leaked[k] + Stale(k)]
    <3>1. Lose(k) /\ pc[k] \notin Forwarding
      BY <1>1 DEF ForwardConnect, At, Forwarding
    <3>2. leaked[k] \in Nat
      BY DEF ForwardTypes
    <3>3. leaked[k] + Stale(k) = IF fsock[k] = "open" THEN leaked[k] + 1 ELSE leaked[k]
      BY <3>1, <3>2 DEF Stale
    <3> QED
      BY <3>1, <3>3, Zenon DEF Lose
  <2>4. \/ /\ where = "send" /\ failures' = failures
           /\ fconnected' = [fconnected EXCEPT ![k] = "yes"]
        \/ /\ where = "reply" /\ failures' = [failures EXCEPT ![k] = failures[k] + 1]
           /\ fconnected' = fconnected
    BY <2>1
  <2>5. Stale(k) \in {0, 1} /\ leaked[k] \in Nat /\ failures[k] \in Nat
    BY DEF Stale, ForwardTypes
  <2>6. ForwardTypes'
    <3>1. fsock' \in [Handlers -> {"none", "open"}]
      BY <2>2 DEF ForwardTypes
    <3>2. fconnected' \in [Handlers -> {"yes", "no"}]
      BY <2>4 DEF ForwardTypes
    <3>3. leaked' \in [Handlers -> Nat]
      <4>1. PICK n \in Nat : n = leaked[k] + Stale(k)
        BY <2>5
      <4>2. leaked \in [Handlers -> Nat] /\ leaked' = [leaked EXCEPT ![k] = n]
        BY <2>3, <4>1, Zenon DEF ForwardTypes
      <4> QED
        BY <4>2
    <3>4. failures' \in [Handlers -> Nat]
      <4>1. failures' = failures \/ failures' = [failures EXCEPT ![k] = failures[k] + 1]
        BY <2>4
      <4>2. failures \in [Handlers -> Nat] /\ failures[k] + 1 \in Nat
        BY DEF ForwardTypes
      <4>3. CASE failures' = failures
        BY <4>2, <4>3
      <4>4. CASE failures' = [failures EXCEPT ![k] = failures[k] + 1]
        BY <4>2, <4>4
      <4> QED
        BY <4>1, <4>3, <4>4
    <3> QED
      BY <3>1, <3>2, <3>3, <3>4 DEF ForwardTypes
  <2>7. ASSUME NEW j \in Handlers, j # k
        PROVE  /\ pc'[j] = pc[j] /\ fsock'[j] = fsock[j] /\ fconnected'[j] = fconnected[j]
               /\ leaked'[j] = leaked[j] /\ failures'[j] = failures[j]
    BY <1>0, <2>1, <2>2, <2>3, <2>4, <2>7 DEF ForwardTypes
  <2>8. /\ pc'[k] = where /\ leaked'[k] = leaked[k] + Stale(k)
        /\ where = "send" => fconnected'[k] = "yes" /\ failures'[k] = failures[k]
        /\ where = "reply" => failures'[k] = failures[k] + 1
    BY <1>0, <2>1, <2>3, <2>4 DEF ForwardTypes
  <2>9. /\ where = "send" => Stale(k)' = 0
        /\ Stale(k)' \in {0, 1}
    BY <2>8 DEF Stale, Forwarding
  <2>10. /\ pc'[k] \in Forwarding => fconnected'[k] = "yes"
         /\ leaked'[k] + Stale(k)' <= failures'[k]
    <3>1. leaked[k] + Stale(k) <= failures[k]
      BY DEF Accounted
    <3>2. CASE where = "send"
      BY <2>5, <2>8, <2>9, <3>1, <3>2
    <3>3. CASE where = "reply"
      <4>1. pc'[k] \notin Forwarding
        BY <2>8, <3>3 DEF Forwarding
      <4> QED
        BY <2>5, <2>8, <2>9, <3>1, <3>3, <4>1
    <3> QED
      BY <2>1, <3>2, <3>3
  <2> QED
    BY <2>6, <2>7, <2>10 DEF Accounted, Stale
<1>2. CASE ForwardSend(k)
  <2>1. pc[k] = "send" /\ fsock' = fsock /\ fconnected' = fconnected /\ leaked' = leaked
    BY <1>2 DEF ForwardSend, At
  <2>2. CASE pc' = [pc EXCEPT ![k] = "recv"] /\ failures' = failures
    <3>1. \A j \in Handlers : pc'[j] \in Forwarding <=> pc[j] \in Forwarding
      BY <1>0, <2>1, <2>2 DEF Forwarding
    <3> QED
      BY <2>1, <2>2, <3>1, SameAccount DEF ForwardTypes, forwarding
  <2>3. CASE /\ pc' = [pc EXCEPT ![k] = "reply"]
             /\ failures' = [failures EXCEPT ![k] = failures[k] + 1]
    <3>1. /\ leaked[k] \in Nat /\ failures[k] \in Nat
          /\ \A j \in Handlers : j # k => pc'[j] = pc[j] /\ failures'[j] = failures[j]
          /\ pc'[k] = "reply" /\ failures'[k] = failures[k] + 1
      BY <1>0, <2>3 DEF ForwardTypes
    <3>2. ForwardTypes'
      BY <2>1, <2>3, <3>1 DEF ForwardTypes
    <3>3. Stale(k) = 0 /\ Stale(k)' \in {0, 1} /\ pc'[k] \notin Forwarding
      BY <2>1, <3>1 DEF Stale, Forwarding
    <3>4. leaked'[k] + Stale(k)' <= failures'[k]
      <4>1. leaked[k] + Stale(k) <= failures[k]
        BY DEF Accounted
      <4> QED
        BY <2>1, <3>1, <3>3, <4>1
    <3>5. \A j \in Handlers : j # k => Stale(j)' = Stale(j)
      BY <2>1, <3>1 DEF Stale
    <3> QED
      BY <2>1, <3>1, <3>2, <3>3, <3>4, <3>5 DEF Accounted
  <2> QED
    BY <1>2, <2>2, <2>3 DEF ForwardSend, Fail, Goto
<1>3. CASE ForwardRecv(k)
  <2>1. PICK where \in {"reply", "sync"} : pc' = [pc EXCEPT ![k] = where]
    BY <1>3 DEF ForwardRecv, Goto
  <2>2. /\ pc[k] = "recv" /\ leaked' = leaked /\ failures' = failures
        /\ fsock' = [fsock EXCEPT ![k] = "none"]
        /\ fconnected' = [fconnected EXCEPT ![k] = "no"]
    BY <1>3 DEF ForwardRecv, At
  <2>3. ForwardTypes'
    BY <2>2 DEF ForwardTypes
  <2>4. /\ \A j \in Handlers : j # k => /\ pc'[j] = pc[j] /\ fsock'[j] = fsock[j]
                                       /\ fconnected'[j] = fconnected[j]
        /\ pc'[k] = where /\ fsock'[k] = "none"
    BY <1>0, <2>1, <2>2 DEF ForwardTypes
  <2>5. Stale(k) = 0 /\ Stale(k)' = 0 /\ pc'[k] \notin Forwarding
    BY <2>1, <2>2, <2>4 DEF Stale, Forwarding
  <2>6. \A j \in Handlers : j # k => Stale(j)' = Stale(j)
    BY <2>4 DEF Stale
  <2> QED
    BY <2>2, <2>3, <2>4, <2>5, <2>6 DEF Accounted
<1>4. CASE ForwardRecvFails(k)
  <2>1. /\ pc[k] \in {"recv", "lost"} /\ pc' = [pc EXCEPT ![k] = "dead"]
        /\ fsock' = fsock /\ fconnected' = fconnected /\ leaked' = leaked
        /\ failures' = [failures EXCEPT ![k] = failures[k] + 1]
    BY <1>4 DEF ForwardRecvFails, Fail, At, Goto
  <2>2. ForwardTypes'
    BY <2>1 DEF ForwardTypes
  <2>3. \A j \in Handlers : pc'[j] \in Forwarding <=> pc[j] \in Forwarding
    BY <1>0, <2>1 DEF Forwarding
  <2>4. \A j \in Handlers : Stale(j)' = Stale(j)
    BY <2>1, <2>3 DEF Stale
  <2>5. \A j \in Handlers : /\ failures[j] \in Nat /\ leaked[j] \in Nat /\ Stale(j) \in {0, 1}
                            /\ failures'[j] \in {failures[j], failures[j] + 1}
    BY <2>1 DEF ForwardTypes, Stale
  <2>6. ASSUME NEW j \in Handlers
        PROVE  leaked[j] + Stale(j) <= failures'[j]
    <3>1. leaked[j] + Stale(j) <= failures[j]
      BY DEF Accounted
    <3> QED
      BY <2>5, <3>1
  <2> QED
    BY <2>1, <2>2, <2>3, <2>4, <2>6 DEF Accounted
<1> QED
  BY <1>1, <1>2, <1>3, <1>4 DEF Forward

\* delete closes a socket in use, and loses one that a failed forward has left
\* (mtcpserver.c:1162-1165, 1189-1197).
LEMMA DeleteAccounted ==
  ASSUME Types, ForwardTypes, Accounted, NEW k \in Handlers, Delete(k)
  PROVE  ForwardTypes' /\ Accounted'
<1>1. /\ pc' = [pc EXCEPT ![k] = "none"] /\ failures' = failures
      /\ fsock' = [fsock EXCEPT ![k] = "none"] /\ fconnected' = [fconnected EXCEPT ![k] = "no"]
  BY DEF Delete
<1>2. leaked' = leaked \/ leaked' = [leaked EXCEPT ![k] = leaked[k] + Stale(k)]
  BY DEF Delete, Lose, Stale, Accounted, ForwardTypes
<1>3. Stale(k) \in {0, 1} /\ leaked[k] \in Nat /\ failures[k] \in Nat
  BY DEF Stale, ForwardTypes
<1>4. ForwardTypes'
  BY <1>1, <1>2, <1>3 DEF ForwardTypes
<1>5. /\ \A j \in Handlers : j # k => /\ pc'[j] = pc[j] /\ fsock'[j] = fsock[j]
                                     /\ fconnected'[j] = fconnected[j]
                                     /\ leaked'[j] = leaked[j]
      /\ pc'[k] = "none" /\ fsock'[k] = "none" /\ leaked'[k] \in {leaked[k], leaked[k] + Stale(k)}
  BY <1>1, <1>2 DEF Types, ForwardTypes
<1>6. Stale(k)' = 0 /\ pc'[k] \notin Forwarding
  BY <1>5 DEF Stale, Forwarding
<1>7. leaked'[k] + Stale(k)' <= failures[k]
  <2>1. leaked[k] + Stale(k) <= failures[k]
    BY DEF Accounted
  <2> QED
    BY <1>3, <1>5, <1>6, <2>1
<1>8. \A j \in Handlers : j # k => Stale(j)' = Stale(j)
  BY <1>5 DEF Stale
<1> QED
  BY <1>1, <1>4, <1>5, <1>6, <1>7, <1>8 DEF Accounted

\* The kernel closes all of them.
LEMMA DieAccounted ==
  ASSUME ForwardTypes, Accounted, Die
  PROVE  ForwardTypes' /\ Accounted'
<1>1. ForwardTypes'
  BY DEF Die, ForwardTypes
<1>2. \A k \in Handlers : Stale(k)' = 0 /\ pc'[k] \notin Forwarding /\ Stale(k) \in {0, 1}
  BY DEF Die, Stale, Forwarding
<1>3. ASSUME NEW k \in Handlers
      PROVE  leaked[k] + 0 <= failures[k]
  <2>1. leaked[k] + Stale(k) <= failures[k] /\ leaked[k] \in Nat /\ failures[k] \in Nat
    BY DEF Accounted, ForwardTypes
  <2> QED
    BY <1>2, <2>1
<1> QED
  BY <1>1, <1>2, <1>3 DEF Die, Accounted

\* The threads' steps.
LEMMA ThreadAccounted ==
  ASSUME Types, ForwardTypes, Accounted, NEW k \in Handlers, Thread(k)
  PROVE  ForwardTypes' /\ Accounted'
<1>1. CASE Forward(k)
  BY <1>1, ForwardAccounted
<1>2. CASE Killed(k)
  BY <1>2, DieAccounted DEF Killed
<1>3. CASE ~Forward(k) /\ ~Killed(k)
  <2>1. forwarding' = forwarding
    BY <1>3 DEF Thread, Handle, SyncPoint, Recv, RecvEnd, IdleTimeout, Reply, Unblock, Read,
                Vanish, forwarding
  <2>2. \/ pc[k] \notin Forwarding /\ \E where \in Places \ Forwarding :
                                          pc' = [pc EXCEPT ![k] = where]
        \/ pc[k] \in Forwarding /\ pc' = [pc EXCEPT ![k] = "lost"]
    BY <1>3 DEF Thread, Handle, SyncPoint, Recv, RecvEnd, IdleTimeout, Reply, Unblock,
                Answer, Read, Vanish, At, Goto, Places, Holders, Forwarding
  <2>3. \A j \in Handlers : pc'[j] \in Forwarding <=> pc[j] \in Forwarding
    BY <2>2 DEF Types, Forwarding
  <2> QED
    BY <2>1, <2>3, SameAccount DEF ForwardTypes, forwarding
<1> QED
  BY <1>1, <1>2, <1>3

\* The accepting thread's and the destructor's steps.
LEMMA ServeAccounted ==
  ASSUME Types, ForwardTypes, Accounted, Serve
  PROVE  ForwardTypes' /\ Accounted'
<1>1. CASE Join \/ JoinLast
  BY <1>1, DeleteAccounted DEF Join, JoinLast, Types
<1>2. CASE LookupFails
  BY <1>2, DieAccounted DEF LookupFails
<1>3. CASE Accept
  <2>1. forwarding' = forwarding
    BY <1>3 DEF Accept, forwarding
  <2>2. PICK k \in Handlers : pc[k] = "none" /\ pc' = [pc EXCEPT ![k] = "sync"]
    BY <1>3 DEF Accept, Free
  <2>3. \A j \in Handlers : pc'[j] \in Forwarding <=> pc[j] \in Forwarding
    BY <2>2 DEF Types, Forwarding
  <2> QED
    BY <2>1, <2>3, SameAccount DEF ForwardTypes, forwarding
<1>4. CASE ~Join /\ ~JoinLast /\ ~LookupFails /\ ~Accept
  <2>1. forwarding' = forwarding /\ pc' = pc
    BY <1>4 DEF Serve, Round, Keep, Abort, AcceptFails, Drop, SelectTimeout, CloseListen,
                SkipLast, AbortLast, handlers, forwarding
  <2> QED
    BY <2>1, SameAccount DEF ForwardTypes, forwarding
<1> QED
  BY <1>1, <1>2, <1>3, <1>4

-----------------------------------------------------------------------------
(* The invariant.                                                          *)

\* Init satisfies the invariant.
LEMMA InitIInv == Init => IInv
<1> SUFFICES ASSUME Init PROVE IInv
  OBVIOUS
<1>1. TypeOK
  BY InitType
<1>2. Owned /\ Exclusive
  BY NamesAssumption DEF Init, Owned, Exclusive, Absent
<1>3. InQueue /\ Once
  BY DEF Init, InQueue, Once, Absent
<1>4. Holding /\ Waited
  BY DEF Init, Holding, Waited, Holders, Forwarding
<1>5. Accounted
  BY DEF Init, Accounted, Stale, Forwarding
<1> QED
  BY <1>1, <1>2, <1>3, <1>4, <1>5 DEF IInv

\* Every step preserves the invariant.
LEMMA StepIInv == IInv /\ [Next]_vars => IInv'
<1> SUFFICES ASSUME IInv, [Next]_vars PROVE IInv'
  OBVIOUS
<1>0. Types /\ ForwardTypes /\ Owners /\ Holding /\ Waited /\ Accounted
  BY TypeParts DEF IInv, Owners
<1>1. ASSUME NEW k \in Handlers, Thread(k)
      PROVE  Types' /\ ForwardTypes' /\ Owners' /\ Holding' /\ Waited' /\ Accounted'
  BY <1>0, <1>1, ThreadType, ThreadOwners, ThreadHolding, ThreadWaited, ThreadAccounted
<1>2. ASSUME Serve
      PROVE  Types' /\ ForwardTypes' /\ Owners' /\ Holding' /\ Waited' /\ Accounted'
  BY <1>0, <1>2, ServeType, ServeOwners, ServePlaces, ServeAccounted
<1>3. ASSUME NEW c \in Conns, Caller(c)
      PROVE  Types' /\ ForwardTypes' /\ Owners' /\ Holding' /\ Waited' /\ Accounted'
  <2>1. Types' /\ Owners'
    BY <1>0, <1>3, CallerType, CallerOwners
  <2>2. server' = server /\ handlers' = handlers
    BY <1>3 DEF Caller, Connect, Send, Leave
  <2>3. Holding' /\ Waited'
    BY <1>0, <2>2 DEF Holding, Waited, server, handlers
  <2>4. ForwardTypes' /\ Accounted'
    BY <1>0, <2>2 DEF ForwardTypes, Accounted, Stale, handlers, forwarding
  <2> QED
    BY <2>1, <2>3, <2>4
<1>4. ASSUME Stop \/ UNCHANGED vars
      PROVE  Types' /\ ForwardTypes' /\ Owners' /\ Holding' /\ Waited' /\ Accounted'
  <2>1. /\ conn' = conn /\ queue' = queue /\ handlers' = handlers /\ acceptor' = acceptor
        /\ slot' = slot /\ stop' \in {"yes", stop}
    BY <1>4 DEF Stop, vars, server
  <2>2. Types' /\ ForwardTypes'
    BY <1>0, <2>1 DEF Types, ForwardTypes, handlers, forwarding
  <2>3. Owners' /\ Holding' /\ Waited'
    BY <1>0, <2>1 DEF Owners, Owned, Exclusive, InQueue, Once, Holding, Waited, handlers
  <2>4. Accounted'
    BY <1>0, <2>1 DEF Accounted, Stale, handlers, forwarding
  <2> QED
    BY <2>2, <2>3, <2>4
<1>5. Types' /\ ForwardTypes' /\ Owners' /\ Holding' /\ Waited' /\ Accounted'
  BY <1>1, <1>2, <1>3, <1>4 DEF Next, Caller, Thread
<1>6. (TypeOK <=> Types /\ ForwardTypes)'
  BY TypeParts, PTL
<1> QED
  BY <1>5, <1>6 DEF IInv, Owners

\* The invariant holds in every reachable state.
LEMMA Invariance == Spec => []IInv
  BY InitIInv, StepIInv, PTL DEF Spec

-----------------------------------------------------------------------------

\* Every reachable state of the command server has the right types (mtcpserver.c).
THEOREM TypeCorrect == Spec => []TypeOK
<1>1. IInv => TypeOK
  BY DEF IInv
<1> QED
  BY <1>1, Invariance, PTL

\* However many handlers close, are deleted and started beside each other, every open
\* connection has one owner and every other one waits or is closed
\* (mtcpserver.c:71-164, 189-196).
THEOREM OneOwnerCorrect == Spec => []OneOwner
<1>1. IInv => OneOwner
  BY DEF IInv, OneOwner, Owned, Exclusive, InQueue, Once
<1> QED
  BY <1>1, Invariance, PTL

\* Only a handler that needs nothing but to run is waited for (mtcpserver.c:99-106).
THEOREM AcceptorNeverBlockedCorrect == Spec => []AcceptorNeverBlocked
<1>1. IInv => AcceptorNeverBlocked
  BY DEF IInv, Waited, AcceptorNeverBlocked
<1> QED
  BY <1>1, Invariance, PTL

\* However forwards fail and threads die and are deleted, no more sockets are lost than
\* forwards have failed (mtcpserver.c:618-641, 1162-1197).
THEOREM LeaksNeedFailuresCorrect == Spec => []LeaksNeedFailures
<1>1. ASSUME IInv PROVE LeaksNeedFailures
  <2> SUFFICES ASSUME NEW k \in Handlers PROVE leaked[k] <= failures[k]
    BY DEF LeaksNeedFailures
  <2>1. leaked[k] \in Nat /\ failures[k] \in Nat /\ Stale(k) \in {0, 1}
    BY <1>1 DEF IInv, TypeOK, Stale
  <2>2. leaked[k] + Stale(k) <= failures[k]
    BY <1>1 DEF IInv, Accounted
  <2> QED
    BY <2>1, <2>2
<1> QED
  BY <1>1, Invariance, PTL
=============================================================================
