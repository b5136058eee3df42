----------------------------- MODULE LifecycleProofs -----------------------------
(***************************************************************************)
(* Proofs about Lifecycle, for every set of handlers.  IInv says who can   *)
(* be where (Roles), that only main's instance is locked and who has its   *)
(* mutex (LockInv), that a joined thread has ended (JoinInv), that nobody  *)
(* holds a deleted instance before main is done (AliveInv), and, as long   *)
(* as main's instance is the only one, how far main has got (AloneInv).    *)
(***************************************************************************)
EXTENDS Lifecycle, TLAPS

Before == pc[Main] \notin {"stopped", "exited"}

Roles ==
  /\ pc[Main] \notin {"sync", "receive", "ended", "dead"}
  /\ \A t \in Threads : pc[t] \notin {"open", "loop", "stopping", "stopped", "exited"}
  /\ lines \subseteq {Main}
  /\ process = "tracerclient" =>
       pc[Main] \notin {"connect", "recv"} /\ (pc[Main] = "loop" => holds[Main] # Null)

LockInv ==
  \A t \in All : /\ pc[t] \in {"lock", "talk"} => holds[t] = Main
                 /\ pc[t] = "talk" => owner[Main] = t

JoinInv ==
  /\ pc[Main] = "stopped" => \A t \in Threads : abort[t] = "joined"
  /\ \A t \in Threads : abort[t] = "joined" => pc[t] \in {"ended", "dead"}

AliveInv ==
  Before =>
    /\ instance \in alive \cup {Null}
    /\ \A t \in All : /\ holds[t] \in alive \cup {Null}
                      /\ pc[t] \in {"open", "assign"} => t \in alive

AloneInv ==
  Before =>
    /\ Main \in alive /\ pc[Main] \notin {"open", "assign"} => instance # Null
    /\ pc[Main] = "construct" => Main \notin alive
    /\ pc[Main] = "assign" => Main \in lines
    /\ Alone => /\ connected = "yes"
                /\ pc[Main] \in {"open", "assign"} \/ (instance = Main /\ lines = {Main})
                /\ Started => holds[Main] = Main

IInv == TypeOK /\ Roles /\ LockInv /\ JoinInv /\ AliveInv /\ AloneInv

LEMMA GetKeeps ==
  ASSUME IInv, NEW t \in All, Get(t)
  PROVE  IInv'
<1> USE ThreadsAssumption DEF IInv, Get, At, Goto, Exit, Home, Running, Before,
           Threads, All, singleton
<1>1. TypeOK'  BY DEF TypeOK, Roles, Places
<1>2. Roles'  BY DEF TypeOK, Roles
<1>3. LockInv'  BY DEF TypeOK, Roles, LockInv
<1>4. JoinInv'  BY DEF TypeOK, Roles, JoinInv
<1>5. AliveInv'  BY DEF TypeOK, Roles, JoinInv, AliveInv
<1>6. AloneInv'  BY DEF TypeOK, Roles, JoinInv, AliveInv, AloneInv, Alone, Started,
                            Starting
<1> QED  BY <1>1, <1>2, <1>3, <1>4, <1>5, <1>6 DEF IInv

LEMMA ConstructKeeps ==
  ASSUME IInv, NEW t \in All, Construct(t)
  PROVE  IInv'
<1> USE ThreadsAssumption DEF IInv, Construct, At, Goto, Exit, Home, Running, Before,
           Threads, All, singleton
<1>1. TypeOK'  BY DEF TypeOK, Roles, Places
<1>2. Roles'  BY DEF TypeOK, Roles
<1>3. LockInv'  BY DEF TypeOK, Roles, LockInv
<1>4. JoinInv'  BY DEF TypeOK, Roles, JoinInv
<1>5. AliveInv'  BY DEF TypeOK, Roles, JoinInv, AliveInv
<1>6. AloneInv'  BY DEF TypeOK, Roles, JoinInv, AliveInv, AloneInv, Alone, Started,
                            Starting
<1> QED  BY <1>1, <1>2, <1>3, <1>4, <1>5, <1>6 DEF IInv

LEMMA OpenKeeps ==
  ASSUME IInv, NEW t \in All, Open(t)
  PROVE  IInv'
<1> USE ThreadsAssumption DEF IInv, Open, At, Goto, Exit, Home, Running, Before,
           Threads, All, singleton
<1>1. TypeOK'  BY DEF TypeOK, Roles, Places
<1>2. Roles'  BY DEF TypeOK, Roles
<1>3. LockInv'  BY DEF TypeOK, Roles, LockInv
<1>4. JoinInv'  BY DEF TypeOK, Roles, JoinInv
<1>5. AliveInv'  BY DEF TypeOK, Roles, JoinInv, AliveInv
<1>6. AloneInv'  BY DEF TypeOK, Roles, JoinInv, AliveInv, AloneInv, Alone, Started,
                            Starting
<1> QED  BY <1>1, <1>2, <1>3, <1>4, <1>5, <1>6 DEF IInv

LEMMA AssignKeeps ==
  ASSUME IInv, NEW t \in All, Assign(t)
  PROVE  IInv'
<1> USE ThreadsAssumption DEF IInv, Assign, At, Goto, Exit, Home, Running, Before,
           Threads, All, singleton
<1>1. TypeOK'  BY DEF TypeOK, Roles, Places
<1>2. Roles'  BY DEF TypeOK, Roles
<1>3. LockInv'  BY DEF TypeOK, Roles, LockInv
<1>4. JoinInv'  BY DEF TypeOK, Roles, JoinInv
<1>5. AliveInv'  BY DEF TypeOK, Roles, JoinInv, AliveInv
<1>6. AloneInv'  BY DEF TypeOK, Roles, JoinInv, AliveInv, AloneInv, Alone, Started,
                            Starting
<1> QED  BY <1>1, <1>2, <1>3, <1>4, <1>5, <1>6 DEF IInv

LEMMA CheckKeeps ==
  ASSUME IInv, NEW t \in All, Check(t)
  PROVE  IInv'
<1> USE ThreadsAssumption DEF IInv, Check, At, Goto, Exit, Home, Running, Before,
           Threads, All, singleton
<1>1. TypeOK'  BY DEF TypeOK, Roles, Places
<1>2. Roles'  BY DEF TypeOK, Roles
<1>3. LockInv'  BY DEF TypeOK, Roles, LockInv
<1>4. JoinInv'  BY DEF TypeOK, Roles, JoinInv
<1>5. AliveInv'  BY DEF TypeOK, Roles, JoinInv, AliveInv
<1>6. AloneInv'  BY DEF TypeOK, Roles, JoinInv, AliveInv, AloneInv, Alone, Started,
                            Starting
<1> QED  BY <1>1, <1>2, <1>3, <1>4, <1>5, <1>6 DEF IInv

LEMMA LockKeeps ==
  ASSUME IInv, NEW t \in All, Lock(t)
  PROVE  IInv'
<1> USE ThreadsAssumption DEF IInv, Lock, At, Goto, Exit, Home, Running, Before,
           Threads, All, singleton
<1>1. TypeOK'  BY DEF TypeOK, Roles, Places
<1>2. Roles'  BY DEF TypeOK, Roles
<1>3. LockInv'  BY DEF TypeOK, Roles, LockInv
<1>4. JoinInv'  BY DEF TypeOK, Roles, JoinInv
<1>5. AliveInv'  BY DEF TypeOK, Roles, JoinInv, AliveInv
<1>6. AloneInv'  BY DEF TypeOK, Roles, JoinInv, AliveInv, AloneInv, Alone, Started,
                            Starting
<1> QED  BY <1>1, <1>2, <1>3, <1>4, <1>5, <1>6 DEF IInv

LEMMA TalkKeeps ==
  ASSUME IInv, NEW t \in All, Talk(t)
  PROVE  IInv'
<1> USE ThreadsAssumption DEF IInv, Talk, At, Goto, Exit, Home, Running, Before,
           Threads, All, singleton
<1>1. TypeOK'  BY DEF TypeOK, Roles, Places
<1>2. Roles'  BY DEF TypeOK, Roles
<1>3. LockInv'  BY DEF TypeOK, Roles, LockInv
<1>4. JoinInv'  BY DEF TypeOK, Roles, JoinInv
<1>5. AliveInv'  BY DEF TypeOK, Roles, JoinInv, AliveInv
<1>6. AloneInv'  BY DEF TypeOK, Roles, JoinInv, AliveInv, AloneInv, Alone, Started,
                            Starting
<1> QED  BY <1>1, <1>2, <1>3, <1>4, <1>5, <1>6 DEF IInv

LEMMA ForwardConnectKeeps ==
  ASSUME IInv, NEW t \in All, ForwardConnect(t)
  PROVE  IInv'
<1> USE ThreadsAssumption DEF IInv, ForwardConnect, At, Goto, Exit, Home, Running, Before,
           Threads, All, singleton
<1>1. TypeOK'  BY DEF TypeOK, Roles, Places
<1>2. Roles'  BY DEF TypeOK, Roles
<1>3. LockInv'  BY DEF TypeOK, Roles, LockInv
<1>4. JoinInv'  BY DEF TypeOK, Roles, JoinInv
<1>5. AliveInv'  BY DEF TypeOK, Roles, JoinInv, AliveInv
<1>6. AloneInv'  BY DEF TypeOK, Roles, JoinInv, AliveInv, AloneInv, Alone, Started,
                            Starting
<1> QED  BY <1>1, <1>2, <1>3, <1>4, <1>5, <1>6 DEF IInv

LEMMA ForwardRecvKeeps ==
  ASSUME IInv, NEW t \in All, ForwardRecv(t)
  PROVE  IInv'
<1> USE ThreadsAssumption DEF IInv, ForwardRecv, At, Goto, Exit, Home, Running, Before,
           Threads, All, singleton
<1>1. TypeOK'  BY DEF TypeOK, Roles, Places
<1>2. Roles'  BY DEF TypeOK, Roles
<1>3. LockInv'  BY DEF TypeOK, Roles, LockInv
<1>4. JoinInv'  BY DEF TypeOK, Roles, JoinInv
<1>5. AliveInv'  BY DEF TypeOK, Roles, JoinInv, AliveInv
<1>6. AloneInv'  BY DEF TypeOK, Roles, JoinInv, AliveInv, AloneInv, Alone, Started,
                            Starting
<1> QED  BY <1>1, <1>2, <1>3, <1>4, <1>5, <1>6 DEF IInv

LEMMA SyncPointKeeps ==
  ASSUME IInv, NEW t \in Threads, SyncPoint(t)
  PROVE  IInv'
<1> USE ThreadsAssumption DEF IInv, SyncPoint, At, Goto, Exit, Home, Running, Before,
           Threads, All, singleton
<1>1. TypeOK'  BY DEF TypeOK, Roles, Places
<1>2. Roles'  BY DEF TypeOK, Roles
<1>3. LockInv'  BY DEF TypeOK, Roles, LockInv
<1>4. JoinInv'  BY DEF TypeOK, Roles, JoinInv
<1>5. AliveInv'  BY DEF TypeOK, Roles, JoinInv, AliveInv
<1>6. AloneInv'  BY DEF TypeOK, Roles, JoinInv, AliveInv, AloneInv, Alone, Started,
                            Starting
<1> QED  BY <1>1, <1>2, <1>3, <1>4, <1>5, <1>6 DEF IInv

LEMMA ReceiveLocalKeeps ==
  ASSUME IInv, NEW t \in Threads, ReceiveLocal(t)
  PROVE  IInv'
<1> USE ThreadsAssumption DEF IInv, ReceiveLocal, At, Goto, Exit, Home, Running, Before,
           Threads, All, singleton
<1>1. TypeOK'  BY DEF TypeOK, Roles, Places
<1>2. Roles'  BY DEF TypeOK, Roles
<1>3. LockInv'  BY DEF TypeOK, Roles, LockInv
<1>4. JoinInv'  BY DEF TypeOK, Roles, JoinInv
<1>5. AliveInv'  BY DEF TypeOK, Roles, JoinInv, AliveInv
<1>6. AloneInv'  BY DEF TypeOK, Roles, JoinInv, AliveInv, AloneInv, Alone, Started,
                            Starting
<1> QED  BY <1>1, <1>2, <1>3, <1>4, <1>5, <1>6 DEF IInv

LEMMA ReceiveKeeps ==
  ASSUME IInv, NEW t \in Threads, Receive(t)
  PROVE  IInv'
<1> USE ThreadsAssumption DEF IInv, Receive, At, Goto, Exit, Home, Running, Before,
           Threads, All, singleton
<1>1. TypeOK'  BY DEF TypeOK, Roles, Places
<1>2. Roles'  BY DEF TypeOK, Roles
<1>3. LockInv'  BY DEF TypeOK, Roles, LockInv
<1>4. JoinInv'  BY DEF TypeOK, Roles, JoinInv
<1>5. AliveInv'  BY DEF TypeOK, Roles, JoinInv, AliveInv
<1>6. AloneInv'  BY DEF TypeOK, Roles, JoinInv, AliveInv, AloneInv, Alone, Started,
                            Starting
<1> QED  BY <1>1, <1>2, <1>3, <1>4, <1>5, <1>6 DEF IInv

LEMMA ReceiveFailsKeeps ==
  ASSUME IInv, NEW t \in Threads, ReceiveFails(t)
  PROVE  IInv'
<1> USE ThreadsAssumption DEF IInv, ReceiveFails, At, Goto, Exit, Home, Running, Before,
           Threads, All, singleton
<1>1. TypeOK'  BY DEF TypeOK, Roles, Places
<1>2. Roles'  BY DEF TypeOK, Roles
<1>3. LockInv'  BY DEF TypeOK, Roles, LockInv
<1>4. JoinInv'  BY DEF TypeOK, Roles, JoinInv
<1>5. AliveInv'  BY DEF TypeOK, Roles, JoinInv, AliveInv
<1>6. AloneInv'  BY DEF TypeOK, Roles, JoinInv, AliveInv, AloneInv, Alone, Started,
                            Starting
<1> QED  BY <1>1, <1>2, <1>3, <1>4, <1>5, <1>6 DEF IInv

LEMMA LoopRequestKeeps ==
  ASSUME IInv, LoopRequest
  PROVE  IInv'
<1> USE ThreadsAssumption DEF IInv, LoopRequest, At, Goto, Exit, Home, Running, Before,
           Threads, All, singleton
<1>1. TypeOK'  BY DEF TypeOK, Roles, Places
<1>2. Roles'  BY DEF TypeOK, Roles
<1>3. LockInv'  BY DEF TypeOK, Roles, LockInv
<1>4. JoinInv'  BY DEF TypeOK, Roles, JoinInv
<1>5. AliveInv'  BY DEF TypeOK, Roles, JoinInv, AliveInv
<1>6. AloneInv'  BY DEF TypeOK, Roles, JoinInv, AliveInv, AloneInv, Alone, Started,
                            Starting
<1> QED  BY <1>1, <1>2, <1>3, <1>4, <1>5, <1>6 DEF IInv

LEMMA LoopEndsKeeps ==
  ASSUME IInv, LoopEnds
  PROVE  IInv'
<1> USE ThreadsAssumption DEF IInv, LoopEnds, At, Goto, Exit, Home, Running, Before,
           Threads, All, singleton
<1>1. TypeOK'  BY DEF TypeOK, Roles, Places
<1>2. Roles'  BY DEF TypeOK, Roles
<1>3. LockInv'  BY DEF TypeOK, Roles, LockInv
<1>4. JoinInv'  BY DEF TypeOK, Roles, JoinInv
<1>5. AliveInv'  BY DEF TypeOK, Roles, JoinInv, AliveInv
<1>6. AloneInv'  BY DEF TypeOK, Roles, JoinInv, AliveInv, AloneInv, Alone, Started,
                            Starting
<1> QED  BY <1>1, <1>2, <1>3, <1>4, <1>5, <1>6 DEF IInv

LEMMA DeleteKeeps ==
  ASSUME IInv, Delete
  PROVE  IInv'
<1> USE ThreadsAssumption DEF IInv, Delete, At, Goto, Exit, Home, Running, Before,
           Threads, All, singleton
<1>1. TypeOK'  BY DEF TypeOK, Roles, Places
<1>2. Roles'  BY DEF TypeOK, Roles
<1>3. LockInv'  BY DEF TypeOK, Roles, LockInv
<1>4. JoinInv'  BY DEF TypeOK, Roles, JoinInv
<1>5. AliveInv'  BY DEF TypeOK, Roles, JoinInv, AliveInv
<1>6. AloneInv'  BY DEF TypeOK, Roles, JoinInv, AliveInv, AloneInv, Alone, Started,
                            Starting
<1> QED  BY <1>1, <1>2, <1>3, <1>4, <1>5, <1>6 DEF IInv

LEMMA ReturnKeeps ==
  ASSUME IInv, Return
  PROVE  IInv'
<1> USE ThreadsAssumption DEF IInv, Return, At, Goto, Exit, Home, Running, Before,
           Threads, All, singleton
<1>1. TypeOK'  BY DEF TypeOK, Roles, Places
<1>2. Roles'  BY DEF TypeOK, Roles
<1>3. LockInv'  BY DEF TypeOK, Roles, LockInv
<1>4. JoinInv'  BY DEF TypeOK, Roles, JoinInv
<1>5. AliveInv'  BY DEF TypeOK, Roles, JoinInv, AliveInv
<1>6. AloneInv'  BY DEF TypeOK, Roles, JoinInv, AliveInv, AloneInv, Alone, Started,
                            Starting
<1> QED  BY <1>1, <1>2, <1>3, <1>4, <1>5, <1>6 DEF IInv

LEMMA AbortKeeps ==
  ASSUME IInv, NEW t \in Threads, Abort(t)
  PROVE  IInv'
<1> USE ThreadsAssumption DEF IInv, Abort, At, Goto, Exit, Home, Running, Before,
           Threads, All, singleton
<1>1. TypeOK'  BY DEF TypeOK, Roles, Places
<1>2. Roles'  BY DEF TypeOK, Roles
<1>3. LockInv'  BY DEF TypeOK, Roles, LockInv
<1>4. JoinInv'  BY DEF TypeOK, Roles, JoinInv
<1>5. AliveInv'  BY DEF TypeOK, Roles, JoinInv, AliveInv
<1>6. AloneInv'  BY DEF TypeOK, Roles, JoinInv, AliveInv, AloneInv, Alone, Started,
                            Starting
<1> QED  BY <1>1, <1>2, <1>3, <1>4, <1>5, <1>6 DEF IInv

LEMMA JoinKeeps ==
  ASSUME IInv, NEW t \in Threads, Join(t)
  PROVE  IInv'
<1> USE ThreadsAssumption DEF IInv, Join, At, Goto, Exit, Home, Running, Before,
           Threads, All, singleton
<1>1. TypeOK'  BY DEF TypeOK, Roles, Places
<1>2. Roles'  BY DEF TypeOK, Roles
<1>3. LockInv'  BY DEF TypeOK, Roles, LockInv
<1>4. JoinInv'  BY DEF TypeOK, Roles, JoinInv
<1>5. AliveInv'  BY DEF TypeOK, Roles, JoinInv, AliveInv
<1>6. AloneInv'  BY DEF TypeOK, Roles, JoinInv, AliveInv, AloneInv, Alone, Started,
                            Starting
<1> QED  BY <1>1, <1>2, <1>3, <1>4, <1>5, <1>6 DEF IInv

LEMMA SignalKeeps ==
  ASSUME IInv, Signal
  PROVE  IInv'
<1> USE ThreadsAssumption DEF IInv, Signal, At, Goto, Exit, Home, Running, Before,
           Threads, All, singleton
<1>1. TypeOK'  BY DEF TypeOK, Roles, Places
<1>2. Roles'  BY DEF TypeOK, Roles
<1>3. LockInv'  BY DEF TypeOK, Roles, LockInv
<1>4. JoinInv'  BY DEF TypeOK, Roles, JoinInv
<1>5. AliveInv'  BY DEF TypeOK, Roles, JoinInv, AliveInv
<1>6. AloneInv'  BY DEF TypeOK, Roles, JoinInv, AliveInv, AloneInv, Alone, Started,
                            Starting
<1> QED  BY <1>1, <1>2, <1>3, <1>4, <1>5, <1>6 DEF IInv

LEMMA VanishKeeps ==
  ASSUME IInv, Vanish
  PROVE  IInv'
<1> USE ThreadsAssumption DEF IInv, Vanish, At, Goto, Exit, Home, Running, Before,
           Threads, All, singleton
<1>1. TypeOK'  BY DEF TypeOK, Roles, Places
<1>2. Roles'  BY DEF TypeOK, Roles
<1>3. LockInv'  BY DEF TypeOK, Roles, LockInv
<1>4. JoinInv'  BY DEF TypeOK, Roles, JoinInv
<1>5. AliveInv'  BY DEF TypeOK, Roles, JoinInv, AliveInv
<1>6. AloneInv'  BY DEF TypeOK, Roles, JoinInv, AliveInv, AloneInv, Alone, Started,
                            Starting
<1> QED  BY <1>1, <1>2, <1>3, <1>4, <1>5, <1>6 DEF IInv

LEMMA InitKeeps == Init => IInv
<1> SUFFICES ASSUME Init PROVE IInv
    OBVIOUS
<1> USE ThreadsAssumption DEF Init, All, Threads
<1>1. TypeOK  BY DEF TypeOK, Roles, Places
<1>2. Roles  BY DEF Roles
<1>3. LockInv  BY DEF LockInv
<1>4. JoinInv  BY DEF JoinInv
<1>5. AliveInv  BY DEF AliveInv
<1>6. AloneInv  BY DEF AloneInv, Alone, Started, Starting
<1> QED  BY <1>1, <1>2, <1>3, <1>4, <1>5, <1>6 DEF IInv

LEMMA StutterKeeps ==
  ASSUME IInv, UNCHANGED vars
  PROVE  IInv'
<1> USE DEF vars, singleton
<1>1. TypeOK' /\ Roles'  BY DEF IInv, TypeOK, Roles
<1>2. LockInv' /\ JoinInv'  BY DEF IInv, LockInv, JoinInv
<1>3. AliveInv' /\ AloneInv'  BY DEF IInv, AliveInv, AloneInv, Before, Alone, Started
<1> QED  BY <1>1, <1>2, <1>3 DEF IInv

LEMMA StepKeeps == IInv /\ [Next]_vars => IInv'
<1> SUFFICES ASSUME IInv, [Next]_vars PROVE IInv'
    OBVIOUS
<1>1. CASE Signal  BY <1>1, SignalKeeps
<1>2. CASE Vanish  BY <1>2, VanishKeeps
<1>3. CASE \E t \in All : Lock(t)  BY <1>3, LockKeeps
<1>4. CASE \E t \in All : Step(t)
  <2> PICK t \in All : Step(t)
      BY <1>4
  <2>1. CASE Controller(t)
        BY <2>1, GetKeeps, ConstructKeeps, OpenKeeps, AssignKeeps, CheckKeeps, TalkKeeps
        DEF Controller
  <2>2. CASE ForwardConnect(t) \/ ForwardRecv(t)
        BY <2>2, ForwardConnectKeeps, ForwardRecvKeeps
  <2>3. CASE t = Main /\ Loop
        BY <2>3, LoopRequestKeeps, LoopEndsKeeps, DeleteKeeps, ReturnKeeps, AbortKeeps, JoinKeeps
        DEF Loop
  <2>4. CASE t # Main /\ Body(t)
    <3>1. t \in Threads  BY <2>4 DEF All
    <3> QED  BY <2>4, <3>1, SyncPointKeeps, ReceiveLocalKeeps, ReceiveKeeps, ReceiveFailsKeeps
             DEF Body
  <2> QED  BY <2>1, <2>2, <2>3, <2>4 DEF Step
<1>5. CASE UNCHANGED vars  BY <1>5, StutterKeeps
<1> QED  BY <1>1, <1>2, <1>3, <1>4, <1>5 DEF Next

THEOREM Invariant == Spec => []IInv
  BY InitKeeps, StepKeeps, PTL DEF Spec

(* Every reachable state has the right types; no thread is in a request with no    *)
(* instance (GetInstance never returns NULL, tracerctr.c:51-56).                   *)
THEOREM TypeCorrect == Spec => []TypeOK
<1>1. IInv => TypeOK  BY DEF IInv
<1> QED  BY Invariant, <1>1, PTL

(* However many instances the threads construct beside main's, only main's has the *)
(* device, so its mutex keeps the requests on the line apart.                      *)
THEOREM OneOnTheLineCorrect == Spec => []OneOnTheLine
<1>1. IInv => OneOnTheLine  BY ThreadsAssumption DEF IInv, LockInv, OneOnTheLine
<1> QED  BY Invariant, <1>1, PTL

(* main deletes an instance when every thread has ended.                           *)
THEOREM NoUseAfterDeleteCorrect == Spec => []NoUseAfterDelete
<1>1. ASSUME IInv  PROVE NoUseAfterDelete
  <2> SUFFICES ASSUME Running, NEW t \in All, pc[t] \in {"check", "lock", "talk"}
               PROVE  holds[t] \in alive
      BY DEF NoUseAfterDelete
  <2>1. holds[t] # Null  BY <1>1 DEF IInv, TypeOK
  <2>2. pc[Main] # "stopped"
        BY <1>1, ThreadsAssumption DEF IInv, JoinInv, All
  <2> QED  BY <1>1, <2>1, <2>2 DEF IInv, AliveInv, Before, Running
<1> QED  BY Invariant, <1>1, PTL

(* The controller stays in use to the end unless a thread was in between the       *)
(* constructor and the assignment.                                                 *)
THEOREM StaysConnectedCorrect == Spec => []StaysConnected
<1>1. IInv => StaysConnected
      BY DEF IInv, AloneInv, StaysConnected, Before, Started, Starting
<1> QED  BY Invariant, <1>1, PTL
=============================================================================
