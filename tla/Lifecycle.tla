-------------------------------- MODULE Lifecycle --------------------------------
(***************************************************************************)
(* The threads of tracerclient and of tracerserver from start to end: main *)
(* (tracerclient.c, tracerserver.c), the display's thread (display.c) and  *)
(* those of the command interface, and how they reach the controller:      *)
(* through the only instance of cTracerCtr (tracerctr.c), or by forwarding *)
(* to the process that has one.                                            *)
(*                                                                         *)
(* An instance is called after the thread that constructs it.  The other   *)
(* threads run before main constructs the one with the device, and one     *)
(* that asks in between may construct a second, without a device.          *)
(*                                                                         *)
(* A pass of main's loop makes one request here; the threads that do not   *)
(* use the controller are in ClientQueue, CommandServer and ModbusTcp.     *)
(***************************************************************************)
EXTENDS Integers, FiniteSets

CONSTANTS
  Handlers,  \* bound: threads of the command interface
  Main, Display

Threads == Handlers \cup {Display}
All == Threads \cup {Main}
Null == <<>>

ASSUME ThreadsAssumption == Main \notin Threads /\ Display \notin Handlers /\ Null \notin All

VARIABLES
  process,    \* "tracerclient" or "tracerserver"
  pc,         \* where each thread is; "exited" for main means the whole process
  stop,       \* KillMe
  abort,      \* what main has done about each thread: "no", "yes" (Abort), "joined"
  instance,   \* cTracerCtr::Instance
  connected,  \* cTracerCtr::TracerConnected
  alive,      \* the instances that are constructed and not deleted
  lines,      \* those that have the device open
  owner,      \* who holds the modbus_mtx of each instance
  holds,      \* the instance each thread has got
  remote      \* the process commands are forwarded to: "there", "vanished"

singleton == <<instance, connected, alive, lines>>
vars == <<process, pc, stop, abort, singleton, owner, holds, remote>>

Places ==
  {"get", "construct", "open", "assign", "check", "lock", "talk", "connect", "recv", "sync",
   "receive", "ended", "dead", "loop", "stopping", "stopped", "exited"}

Running == pc[Main] # "exited"
At(t, where) == Running /\ pc[t] = where
Goto(t, where) == pc' = [pc EXCEPT ![t] = where]
Exit == Goto(Main, "exited")

\* Where a thread goes on when it is done with the controller.
Home(t) == IF t = Main THEN "loop" ELSE "sync"

\* main has set its signal handlers.
Starting == {"get", "construct", "open", "assign", "connect", "recv"}
Started == pc[Main] \notin Starting

-----------------------------------------------------------------------------
(* The instance.                                                           *)

\* Broken: what Instance is at the moment.
GetUntested(t) ==
  /\ At(t, "get")
  /\ holds' = [holds EXCEPT ![t] = instance]
  /\ Goto(t, IF t = Main THEN "loop" ELSE "check")
  /\ UNCHANGED <<process, stop, abort, singleton, owner, remote>>

\* GetInstance and CreateInstance: the tests of Instance, and its return.
Get(t) ==
  /\ At(t, "get")
  /\ \/ instance = Null /\ Goto(t, "construct") /\ UNCHANGED holds
     \/ /\ instance # Null
        /\ holds' = [holds EXCEPT ![t] = instance]
        /\ Goto(t, IF t = Main THEN "loop" ELSE "check")
  /\ UNCHANGED <<process, stop, abort, singleton, owner, remote>>

\* Broken: with the default arguments.
ConstructDefault(t) ==
  /\ At(t, "construct")
  /\ connected' = "no"
  /\ alive' = alive \cup {t}
  /\ Goto(t, "assign")
  /\ UNCHANGED <<process, stop, abort, instance, lines, owner, holds, remote>>

\* The constructor sets TracerConnected for everybody; with a device it then opens it.
Construct(t) ==
  /\ At(t, "construct")
  /\ connected' = IF t = Main THEN "yes" ELSE "no"
  /\ alive' = alive \cup {t}
  /\ Goto(t, IF t = Main THEN "open" ELSE "assign")
  /\ UNCHANGED <<process, stop, abort, instance, lines, owner, holds, remote>>

\* Connect, or exit.
Open(t) ==
  /\ At(t, "open")
  /\ \/ lines' = lines \cup {t} /\ Goto(t, "assign")
     \/ Exit /\ UNCHANGED lines
  /\ UNCHANGED <<process, stop, abort, instance, connected, alive, owner, holds, remote>>

\* Instance = new cTracerCtr, whatever Instance is by now; GetInstance then returns it.
Assign(t) ==
  /\ At(t, "assign")
  /\ instance' = t
  /\ Goto(t, "get")
  /\ UNCHANGED <<process, stop, abort, connected, alive, lines, owner, holds, remote>>

-----------------------------------------------------------------------------
(* modbus_send_request                                                     *)

Check(t) ==
  /\ At(t, "check")
  /\ Goto(t, IF connected = "yes" /\ holds[t] \in lines THEN "lock" ELSE Home(t))
  /\ UNCHANGED <<process, stop, abort, singleton, owner, holds, remote>>

\* Broken: nobody is waited for.
LockNobody(t) ==
  /\ At(t, "lock")
  /\ owner' = [owner EXCEPT ![holds[t]] = t]
  /\ Goto(t, "talk")
  /\ UNCHANGED <<process, stop, abort, singleton, holds, remote>>

Lock(t) ==
  /\ At(t, "lock") /\ owner[holds[t]] = Null
  /\ owner' = [owner EXCEPT ![holds[t]] = t]
  /\ Goto(t, "talk")
  /\ UNCHANGED <<process, stop, abort, singleton, holds, remote>>

\* Broken: the mutex is kept where the device had to be opened again.
TalkKeepsLock(t) ==
  /\ At(t, "talk")
  /\ owner' \in {owner, [owner EXCEPT ![holds[t]] = Null]}
  /\ Goto(t, Home(t))
  /\ UNCHANGED <<process, stop, abort, singleton, holds, remote>>

\* The request is answered or not, after a time limit, or the device opened again; or it
\* cannot be, and the process ends with the mutex held.
Talk(t) ==
  /\ At(t, "talk")
  /\ \/ owner' = [owner EXCEPT ![holds[t]] = Null] /\ Goto(t, Home(t))
     \/ Exit /\ UNCHANGED owner
  /\ UNCHANGED <<process, stop, abort, singleton, holds, remote>>

Controller(t) == Get(t) \/ Construct(t) \/ Open(t) \/ Assign(t) \/ Check(t) \/ Talk(t)

-----------------------------------------------------------------------------
(* Forwarding.                                                             *)

\* Connected, and the request is sent; or refused.  The display's thread sends all the
\* same, which raises SIGPIPE.
ForwardConnect(t) ==
  /\ At(t, "connect")
  /\ \/ remote = "there" /\ Goto(t, "recv")
     \/ IF t = Display THEN Exit ELSE Goto(t, Home(t))
  /\ UNCHANGED <<process, stop, abort, singleton, owner, holds, remote>>

\* recv returns an answer, or none: an exception then ends the thread, except main,
\* which only prints the message.
ForwardRecv(t) ==
  /\ At(t, "recv") /\ remote = "there"
  /\ \E where \in {Home(t), IF t = Main THEN Home(t) ELSE "dead"} : Goto(t, where)
  /\ UNCHANGED <<process, stop, abort, singleton, owner, holds, remote>>

-----------------------------------------------------------------------------
(* cDisplay::Body, and a handler's thread.                                 *)

\* Broken: only a deep abort is noticed.
SyncPointDeep(t) ==
  /\ At(t, "sync")
  /\ Goto(t, "receive")
  /\ UNCHANGED <<process, stop, abort, singleton, owner, holds, remote>>

SyncPoint(t) ==
  /\ At(t, "sync")
  /\ Goto(t, IF abort[t] = "yes" THEN "ended" ELSE "receive")
  /\ UNCHANGED <<process, stop, abort, singleton, owner, holds, remote>>

\* Nothing comes, or what can be answered here: from the memory, or that there is no
\* controller.
ReceiveLocal(t) ==
  /\ At(t, "receive")
  /\ Goto(t, "sync")
  /\ UNCHANGED <<process, stop, abort, singleton, owner, holds, remote>>

\* A request for the controller.
Receive(t) ==
  /\ At(t, "receive")
  /\ \/ connected = "yes" /\ Goto(t, "get")
     \/ connected = "no" /\ process = "tracerserver" /\ Goto(t, "connect")
  /\ UNCHANGED <<process, stop, abort, singleton, owner, holds, remote>>

\* The display's own line cannot be opened again.
ReceiveFails(t) ==
  /\ At(t, "receive") /\ t = Display
  /\ Exit
  /\ UNCHANGED <<process, stop, abort, singleton, owner, holds, remote>>

Body(t) == SyncPoint(t) \/ ReceiveLocal(t) \/ Receive(t) \/ ReceiveFails(t)

-----------------------------------------------------------------------------
(* main                                                                    *)

LoopRequest ==
  /\ At(Main, "loop") /\ stop = "no" /\ process = "tracerclient"
  /\ Goto(Main, "check")
  /\ UNCHANGED <<process, stop, abort, singleton, owner, holds, remote>>

LoopEnds ==
  /\ At(Main, "loop") /\ stop = "yes"
  /\ Goto(Main, "stopping")
  /\ UNCHANGED <<process, stop, abort, singleton, owner, holds, remote>>

\* One after the other, the display first (the order of the others is cMtcpServer's).
Abort(t) ==
  /\ At(Main, "stopping") /\ abort[t] = "no"
  /\ \A u \in Threads : abort[u] # "yes"
  /\ t # Display => abort[Display] = "joined"
  /\ abort' = [abort EXCEPT ![t] = "yes"]
  /\ UNCHANGED <<process, pc, stop, singleton, owner, holds, remote>>

\* Broken: nothing is waited for.
JoinAtOnce(t) ==
  /\ At(Main, "stopping") /\ abort[t] = "yes"
  /\ abort' = [abort EXCEPT ![t] = "joined"]
  /\ UNCHANGED <<process, pc, stop, singleton, owner, holds, remote>>

Join(t) ==
  /\ At(Main, "stopping") /\ abort[t] = "yes" /\ pc[t] \in {"ended", "dead"}
  /\ abort' = [abort EXCEPT ![t] = "joined"]
  /\ UNCHANGED <<process, pc, stop, singleton, owner, holds, remote>>

\* DeleteInstance deletes what Instance is, in tracerclient.
Delete ==
  /\ At(Main, "stopping") /\ \A t \in Threads : abort[t] = "joined"
  /\ Goto(Main, "stopped")
  /\ alive' = alive \ {instance}
  /\ lines' = lines \ {instance}
  /\ instance' = Null
  /\ UNCHANGED <<process, stop, abort, connected, owner, holds, remote>>

Return ==
  /\ At(Main, "stopped")
  /\ Exit
  /\ UNCHANGED <<process, stop, abort, singleton, owner, holds, remote>>

Loop == LoopRequest \/ LoopEnds \/ Delete \/ Return \/ \E t \in Threads : Abort(t) \/ Join(t)

Step(t) ==
  Controller(t) \/ ForwardConnect(t) \/ ForwardRecv(t) \/ IF t = Main THEN Loop ELSE Body(t)

\* A signal ends the process as long as main has not set its handlers.
Signal ==
  /\ Running /\ stop = "no"
  /\ \/ Started /\ stop' = "yes" /\ UNCHANGED pc
     \/ ~Started /\ Exit /\ UNCHANGED stop
  /\ UNCHANGED <<process, abort, singleton, owner, holds, remote>>

Vanish ==
  /\ remote = "there" /\ remote' = "vanished"
  /\ UNCHANGED <<process, pc, stop, abort, singleton, owner, holds>>

\* main has started the threads.
Init ==
  /\ process \in {"tracerclient", "tracerserver"}
  /\ pc = [t \in All |-> IF t \in Threads THEN "sync"
                         ELSE IF process = "tracerclient" THEN "get" ELSE "connect"]
  /\ stop = "no" /\ abort = [t \in Threads |-> "no"]
  /\ instance = Null /\ connected = "no" /\ alive = {} /\ lines = {}
  /\ owner = [t \in All |-> Null] /\ holds = [t \in All |-> Null]
  /\ remote = "there"

Next == Signal \/ Vanish \/ \E t \in All : Step(t) \/ Lock(t)

Spec == Init /\ [][Next]_vars

\* Threads run, and a thread that finds the mutex free again and again gets it.
FairSpec == Spec /\ \A t \in All : WF_vars(Step(t)) /\ SF_vars(Lock(t))

-----------------------------------------------------------------------------
(* Properties.                                                             *)

\* Types.
TypeOK ==
  /\ process \in {"tracerclient", "tracerserver"}
  /\ pc \in [All -> Places]
  /\ stop \in {"no", "yes"} /\ abort \in [Threads -> {"no", "yes", "joined"}]
  /\ instance \in All \cup {Null} /\ connected \in {"no", "yes"}
  /\ alive \subseteq All /\ lines \subseteq All
  /\ owner \in [All -> All \cup {Null}] /\ holds \in [All -> All \cup {Null}]
  /\ \A t \in All : pc[t] \in {"check", "lock", "talk"} => holds[t] # Null
  /\ remote \in {"there", "vanished"}

\* Never two requests on the controller's line at once, although each instance has a
\* mutex of its own and there may be several (tracerctr.c:34-67, 102-110).
OneOnTheLine == \A t, u \in All : pc[t] = "talk" /\ pc[u] = "talk" => t = u

\* No thread uses an instance that is deleted, not even one that main knows nothing of
\* (tracerclient.c:461-489, tracerctr.c:42-56).
NoUseAfterDelete ==
  Running => \A t \in All : pc[t] \in {"check", "lock", "talk"} => holds[t] \in alive

\* No other thread has constructed an instance, nor is about to.
Alone ==
  process = "tracerclient" /\ alive = {Main} /\ \A t \in Threads : pc[t] # "construct"

\* Unless a thread got between the constructor and the assignment, the controller stays
\* in use to the end, for everybody (tracerclient.c:216-230, tracerctr.c:34-62).
StaysConnected ==
  Started /\ pc[Main] \notin {"stopped", "exited"} /\ Alone
    => connected = "yes" /\ instance = Main /\ lines = {Main} /\ holds[Main] = Main

\* Every request ends, whoever else uses the controller, unless the process does or
\* the one it is forwarded to vanished (display.c:84-180, mtcpserver.c:765-859).
RequestsEnd ==
  \A t \in Threads :
    pc[t] \notin {"sync", "receive", "ended", "dead"}
      ~> (pc[t] \in {"sync", "ended", "dead"} \/ ~Running \/ remote = "vanished")

\* So does the process, on a signal (tracerclient.c:451-491, tracerserver.c:215-249).
ShutdownEnds == stop = "yes" ~> (~Running \/ remote = "vanished")
=============================================================================
