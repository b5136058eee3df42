------------------------------ MODULE UpdateLoop ------------------------------
(***************************************************************************)
(* The update loop of the client process (main of tracerclient.c) together *)
(* with the four update flags of cTracerCtr (tracerctr.h, tracerctr.c).    *)
(*                                                                         *)
(* The main thread reads the flags, polls the solar controller, resets the *)
(* flags it served and queues the memory for the server.  Other threads    *)
(* (the handlers of cMtcpServer, cDisplay) write registers and coils of    *)
(* the controller through modbus_send_request and raise all four flags,    *)
(* one after the other, under modbus_mtx.  The flags themselves are plain  *)
(* static bools that no lock protects.                                     *)
(*                                                                         *)
(* Data is abstracted to version numbers: dev counts the writes each group *)
(* of registers of the controller has taken, mem is the version the client *)
(* memory holds and sent the version last queued for the server.           *)
(***************************************************************************)
EXTENDS Naturals, Sequences

CONSTANTS
  Writers,       \* threads other than main that write to the controller
  WriteTargets,  \* the groups of registers such a write changes
  MaxWrites,     \* bound: writes each group may take
  MaxTries,      \* attempts for each group of registers (4 in the code)
  Timeout,       \* seconds after which SetTimeout raises a flag, per flag
  HasClient,     \* a server is configured (client # NULL)
  Faults         \* failures the environment may produce, see FaultKinds

TR == "TracerRealtime"
TS == "TracerStatistic"
SR == "ServerRealtime"
SS == "ServerStatistic"
Flags == {TR, TS, SR, SS}

\* The requests with which main polls the controller, in its order, on TR and on
\* TS, each named for the registers it asks for.
RealtimeReads  == <<"Reg3100", "Reg3200", "Reg3302", "Reg3300", "Reg3301", "Reg331D",
                    "Reg331E">>
StatisticReads == <<"DeviceInfo1", "DeviceInfo2", "Reg3000", "Reg9000", "RTC",
                    "DiscInp2000", "DiscInp200C">>
Groups == {"Reg3100", "Reg3200", "Reg3302", "Reg3300", "Reg3301", "Reg331D", "Reg331E",
           "DeviceInfo1", "DeviceInfo2", "Reg3000", "Reg9000", "RTC", "DiscInp2000",
           "DiscInp200C"}

\* Where a Read... function begins with its first request, and the end of the list.
RealtimeStarts  == {1, 2, 3, 8}
StatisticStarts == {1, 2, 3, 4, 6, 8}

\* What the realtime message has: registers 0x3100-0x31FF, 0x3200-0x32FF and
\* 0x3302-0x33FF.  0x3300 and 0x3301 only go with the whole memory.
RealtimeGroups == {"Reg3100", "Reg3200", "Reg3302", "Reg331D", "Reg331E"}

\* "controller": a request times out, is garbled, or its answer is lost;
\* "send": the message does not fit the send buffer, for which GetBuffer and
\* sendmessage return -1;
\* "exit": the serial device is gone and 20 reconnects fail.
FaultKinds == {"controller", "send", "exit"}

\* The order in which main samples the flags and a writer raises them.
SnapshotOrder == <<TR, TS, SR, SS>>
TriggerOrder  == <<TS, TR, SS, SR>>

ASSUME ConstantsAssumption ==
  /\ WriteTargets \subseteq Groups
  /\ MaxWrites \in Nat
  /\ MaxTries \in Nat \ {0}
  /\ Timeout \in [Flags -> Nat]
  /\ HasClient \in BOOLEAN
  /\ Faults \subseteq FaultKinds

VARIABLES
  need,     \* the flags of cTracerCtr that are raised
  pc,       \* where main is in its loop
  i,        \* position in the snapshot or in the list of reads
  tries,    \* failed attempts at the current read
  snap,     \* the flags main has sampled as raised in this pass
  age,      \* seconds since Last...Update, saturating one past the timeout
  trigger,  \* per writer: 0, or the next flag to raise while in modbus_mtx
  dev,      \* versions of the controller's registers
  mem,      \* versions in the client memory
  sent,     \* versions last queued for the server
  raised,   \* history: the versions whose four triggers have been raised
  base,     \* history: what this pass owes to triggers raised before it
  outcome   \* history: "complete" unless a read or send of this pass failed

vars == <<need, pc, i, tries, snap, age, trigger, dev, mem, sent,
          raised, base, outcome>>
history == <<raised, base>>

Zero == [g \in Groups |-> 0]
Expired(f) == Timeout[f] + 1
PcValues == {"snapshot", "readRealtime", "readStatistic", "sendAll",
             "resetServerStatistic", "resetServerRealtime", "sendRealtime",
             "resetRealtime", "setTimeout", "exited"}

Init ==
  /\ need = Flags
  /\ pc = "snapshot" /\ i = 1 /\ tries = 0
  /\ snap = {}
  /\ age = [f \in Flags |-> Expired(f)]
  /\ trigger = [w \in Writers |-> 0]
  /\ dev = Zero /\ mem = Zero /\ sent = Zero
  /\ raised = Zero /\ base = Zero
  /\ outcome = "complete"

\* modbus_mtx: main holds it only inside a step, a writer across its triggers.
BusFree == \A w \in Writers : trigger[w] = 0

-----------------------------------------------------------------------------
(* The main loop.                                                          *)

\* The first sample opens the pass; the history notes what it must serve.
OpenPass ==
  /\ base' = IF need = Flags THEN dev ELSE Zero
  /\ outcome' = "complete"

\* One of the four lines that copy the flags on top of the loop.
Snapshot ==
  /\ pc = "snapshot"
  /\ snap' = (snap \ {SnapshotOrder[i]}) \cup (need \cap {SnapshotOrder[i]})
  /\ \/ i = 1 /\ OpenPass
     \/ i # 1 /\ UNCHANGED <<base, outcome>>
  /\ IF i < 4 THEN pc' = pc /\ i' = i + 1
              ELSE pc' = "readRealtime" /\ i' = 1
  /\ UNCHANGED <<need, tries, age, trigger, dev, mem, sent, raised>>

\* A request of a Read... function is answered, and the answer saved to the memory.
ReadSucceeds(reads, starts) ==
  /\ i <= Len(reads) /\ BusFree
  /\ mem' = [mem EXCEPT ![reads[i]] = dev[reads[i]]]
  /\ i' = i + 1
  /\ tries' = IF i + 1 \in starts THEN 0 ELSE tries
  /\ UNCHANGED <<need, pc, snap, age, trigger, dev, sent, outcome, history>>

\* It is not, and the function returns -1, whatever it has saved before: main calls
\* it again, or goes on to the next one after the last try.
ReadFails(reads, starts) ==
  /\ "controller" \in Faults
  /\ i <= Len(reads) /\ BusFree
  /\ \/ /\ tries + 1 < MaxTries
        /\ i' \in {s \in starts : s <= i /\ \A t \in starts : t <= i => t <= s}
        /\ tries' = tries + 1 /\ outcome' = outcome
     \/ /\ tries + 1 = MaxTries
        /\ i' \in {s \in starts : s > i /\ \A t \in starts : t > i => t >= s}
        /\ tries' = 0 /\ outcome' = "incomplete"
  /\ UNCHANGED <<need, pc, snap, age, trigger, dev, mem, sent, history>>

\* All reads done, well or not: note the time and reset the flag.
ReadsDone(reads, flag, next) ==
  /\ i > Len(reads)
  /\ age' = [age EXCEPT ![flag] = 0]
  /\ need' = need \ {flag}
  /\ pc' = next /\ i' = 1
  /\ UNCHANGED <<tries, snap, trigger, dev, mem, sent, outcome, history>>

Skip(next) ==
  /\ pc' = next
  /\ UNCHANGED <<need, i, tries, snap, age, trigger, dev, mem, sent, outcome, history>>

ReadRealtime ==
  /\ pc = "readRealtime"
  /\ \/ TR \in snap /\ ReadSucceeds(RealtimeReads, RealtimeStarts)
     \/ TR \in snap /\ ReadFails(RealtimeReads, RealtimeStarts)
     \/ TR \in snap /\ ReadsDone(RealtimeReads, TR, "readStatistic")
     \/ TR \notin snap /\ Skip("readStatistic")

ReadStatistic ==
  /\ pc = "readStatistic"
  /\ \/ TS \in snap /\ ReadSucceeds(StatisticReads, StatisticStarts)
     \/ TS \in snap /\ ReadFails(StatisticReads, StatisticStarts)
     \/ TS \in snap /\ ReadsDone(StatisticReads, TS, "sendAll")
     \/ TS \notin snap /\ Skip("sendAll")

\* Broken variant: the cases of SendMem's switch do not fall through.
SendAllNoFallthrough ==
  /\ pc = "sendAll" /\ SS \in snap /\ HasClient
  /\ sent' = [g \in Groups |-> IF g \in RealtimeGroups THEN mem[g] ELSE sent[g]]
  /\ pc' = "resetServerStatistic"
  /\ age' = [age EXCEPT ![SS] = 0, ![SR] = 0]
  /\ UNCHANGED <<need, i, tries, snap, trigger, dev, mem, outcome, history>>

\* SendMem(eAll): the whole memory goes to the send queue.
SendAll ==
  /\ pc = "sendAll" /\ SS \in snap /\ HasClient
  /\ sent' = mem
  /\ pc' = "resetServerStatistic"
  /\ age' = [age EXCEPT ![SS] = 0, ![SR] = 0]
  /\ UNCHANGED <<need, i, tries, snap, trigger, dev, mem, outcome, history>>

\* Broken variant: the flags are reset whatever SendMem returns.
SendAllFailsUnnoticed ==
  /\ pc = "sendAll" /\ SS \in snap /\ HasClient
  /\ "send" \in Faults
  /\ pc' = "resetServerStatistic" /\ outcome' = "incomplete"
  /\ UNCHANGED <<need, i, tries, snap, age, trigger, dev, mem, sent, history>>

SendAllFails ==
  /\ pc = "sendAll" /\ SS \in snap /\ HasClient
  /\ "send" \in Faults
  /\ pc' = "sendRealtime" /\ outcome' = "incomplete"
  /\ UNCHANGED <<need, i, tries, snap, age, trigger, dev, mem, sent, history>>

SkipSendAll ==
  /\ pc = "sendAll" /\ ~(SS \in snap /\ HasClient)
  /\ Skip("sendRealtime")

Reset(from, flag, next) ==
  /\ pc = from
  /\ need' = need \ {flag}
  /\ pc' = next
  /\ UNCHANGED <<i, tries, snap, age, trigger, dev, mem, sent, outcome, history>>

ResetServer ==
  \/ Reset("resetServerStatistic", SS, "resetServerRealtime")
  \/ Reset("resetServerRealtime", SR, "sendRealtime")
  \/ Reset("resetRealtime", SR, "setTimeout")

\* The six realtime pieces in one message (of the polled registers only those of
\* three ranges), then user registers and coils.
SendRealtime ==
  /\ pc = "sendRealtime" /\ SR \in snap /\ HasClient
  /\ sent' = [g \in Groups |-> IF g \in RealtimeGroups THEN mem[g] ELSE sent[g]]
  /\ pc' = "resetRealtime"
  /\ age' = [age EXCEPT ![SR] = 0]
  /\ UNCHANGED <<need, i, tries, snap, trigger, dev, mem, outcome, history>>

SendRealtimeFails ==
  /\ pc = "sendRealtime" /\ SR \in snap /\ HasClient
  /\ "send" \in Faults
  /\ pc' = "setTimeout" /\ outcome' = "incomplete"
  /\ UNCHANGED <<need, i, tries, snap, age, trigger, dev, mem, sent, history>>

SkipSendRealtime ==
  /\ pc = "sendRealtime" /\ ~(SR \in snap /\ HasClient)
  /\ Skip("setTimeout")

\* Broken variant: the line for the statistic data of the controller is missing.
SetTimeoutWithoutStatistic ==
  /\ pc = "setTimeout"
  /\ need' = need \cup {f \in Flags \ {TS} : age[f] > Timeout[f]}
  /\ pc' = "snapshot"
  /\ UNCHANGED <<i, tries, snap, age, trigger, dev, mem, sent, outcome, history>>

\* SetTimeout: raise every flag whose data is older than its timeout.
SetTimeout ==
  /\ pc = "setTimeout"
  /\ need' = need \cup {f \in Flags : age[f] > Timeout[f]}
  /\ pc' = "snapshot"
  /\ UNCHANGED <<i, tries, snap, age, trigger, dev, mem, sent, outcome, history>>

Send == SendAll \/ SkipSendAll \/ SendRealtime \/ SkipSendRealtime
SendFails == SendAllFails \/ SendRealtimeFails

Main == Snapshot \/ ReadRealtime \/ ReadStatistic \/ Send \/ SendFails
        \/ ResetServer \/ SetTimeout

-----------------------------------------------------------------------------
(* The other threads, the clock and the end of the process.                *)

\* modbus_send_request of a write that the controller executes and answers.
Write(w, g) ==
  /\ pc # "exited" /\ BusFree
  /\ dev[g] < MaxWrites
  /\ dev' = [dev EXCEPT ![g] = @ + 1]
  /\ trigger' = [trigger EXCEPT ![w] = 1]
  /\ UNCHANGED <<need, pc, i, tries, snap, age, mem, sent, outcome, history>>

\* The controller executes the write, its answer is lost: nothing is raised.
WriteUnanswered(g) ==
  /\ "controller" \in Faults
  /\ pc # "exited" /\ BusFree
  /\ dev[g] < MaxWrites
  /\ dev' = [dev EXCEPT ![g] = @ + 1]
  /\ UNCHANGED <<need, pc, i, tries, snap, age, trigger, mem, sent, outcome, history>>

\* Broken variant: the lock is not released after the fourth call.
TriggerKeepsLock(w) ==
  /\ pc # "exited" /\ trigger[w] > 0
  /\ need' = need \cup {TriggerOrder[trigger[w]]}
  /\ trigger' = [trigger EXCEPT ![w] = @ + 1]
  /\ raised' = IF trigger[w] = 4 THEN dev ELSE raised
  /\ UNCHANGED <<pc, i, tries, snap, age, dev, mem, sent, base, outcome>>

\* One Trigger... call; after the fourth the lock is released.
Trigger(w) ==
  /\ pc # "exited" /\ trigger[w] > 0
  /\ need' = need \cup {TriggerOrder[trigger[w]]}
  /\ trigger' = [trigger EXCEPT ![w] = (@ + 1) % 5]
  /\ raised' = IF trigger[w] = 4 THEN dev ELSE raised
  /\ UNCHANGED <<pc, i, tries, snap, age, dev, mem, sent, base, outcome>>

\* One of the trigger...update commands of the telnet server.
UserTrigger(f) ==
  /\ pc # "exited"
  /\ need' = need \cup {f}
  /\ UNCHANGED <<pc, i, tries, snap, age, trigger, dev, mem, sent, outcome, history>>

\* A second passes.
Tick ==
  /\ pc # "exited"
  /\ age' = [f \in Flags |-> IF age[f] < Expired(f) THEN age[f] + 1 ELSE age[f]]
  /\ UNCHANGED <<need, pc, i, tries, snap, trigger, dev, mem, sent, outcome, history>>

\* exit(0) in modbus_send_request after 20 failed reconnects.
Exit ==
  /\ "exit" \in Faults /\ pc # "exited"
  /\ pc' = "exited"
  /\ UNCHANGED <<need, i, tries, snap, age, trigger, dev, mem, sent, outcome, history>>

Next ==
  \/ Main
  \/ \E w \in Writers : Trigger(w)
  \/ \E w \in Writers, g \in WriteTargets : Write(w, g)
  \/ \E g \in WriteTargets : WriteUnanswered(g)
  \/ \E f \in Flags : UserTrigger(f)
  \/ Tick
  \/ Exit

Spec == Init /\ [][Next]_vars

\* A try at the group g succeeds.
Answers(g) ==
  \/ /\ pc = "readRealtime" /\ TR \in snap
     /\ i <= Len(RealtimeReads) /\ RealtimeReads[i] = g
     /\ ReadSucceeds(RealtimeReads, RealtimeStarts)
  \/ /\ pc = "readStatistic" /\ TS \in snap
     /\ i <= Len(StatisticReads) /\ StatisticReads[i] = g
     /\ ReadSucceeds(StatisticReads, StatisticStarts)

\* The requests for what is written, and those before them in the same function.
Needed(reads, starts) ==
  {reads[j] : j \in {j \in DOMAIN reads :
     \E k \in DOMAIN reads : /\ reads[k] \in WriteTargets /\ j <= k
                            /\ \A s \in starts : s <= j \/ k < s}}

\* The threads run and time passes; a controller that is asked the same again and
\* again answers again and again, and the message fits again and again.
Fairness ==
  /\ WF_vars(Main)
  /\ \A w \in Writers : WF_vars(Trigger(w))
  /\ WF_vars(Tick)
  /\ \A g \in Needed(RealtimeReads, RealtimeStarts)
             \cup Needed(StatisticReads, StatisticStarts) : SF_vars(Answers(g))
  /\ SF_vars(SendAll)
FairSpec == Spec /\ Fairness

-----------------------------------------------------------------------------
(* Properties.                                                             *)

ControlOK ==
  /\ need \subseteq Flags /\ snap \subseteq Flags
  /\ pc \in PcValues
  /\ i \in 1..8 /\ tries \in 0..(MaxTries - 1)
  /\ outcome \in {"complete", "incomplete"}

Versions == [Groups -> Nat]

DataOK ==
  /\ age \in [Flags -> Nat]
  /\ trigger \in [Writers -> 0..4]
  /\ dev \in Versions /\ mem \in Versions /\ sent \in Versions
  /\ raised \in Versions /\ base \in Versions

TypeOK == ControlOK /\ DataOK

\* Where the index may stand: with TypeOK, it makes every access well defined.
IndexInRange ==
  /\ pc = "snapshot" => i \in 1..4
  /\ pc = "readRealtime" => TR \in snap \/ i = 1
  /\ pc = "readStatistic" => TS \in snap \/ i = 1
  /\ pc \notin {"snapshot", "readRealtime", "readStatistic", "exited"} => i = 1

\* Whatever the controller held when all four flags stood at the top of a pass
\* has reached the client memory and the server queue when the pass ends, if no
\* read used up its tries and no message was too long (tracerclient.c main).
ServedByPass ==
  pc = "setTimeout" /\ outcome = "complete" =>
    \A g \in Groups : base[g] <= mem[g] /\ (HasClient => base[g] <= sent[g])

\* Why ServedByPass holds: a pass that owes anything found all flags raised and
\* nobody but main lowers them, so it samples all four, polls every group and
\* queues the whole memory.
Owing == \E g \in Groups : base[g] > 0
Polled(reads, n) == \A k \in 1..n : base[reads[k]] <= mem[reads[k]]

AfterReads == {"sendAll", "resetServerStatistic", "resetServerRealtime",
               "sendRealtime", "resetRealtime", "setTimeout"}
AfterSendAll == AfterReads \ {"sendAll"}

SampledWhenOwing ==
  Owing =>
    /\ pc = "snapshot" /\ i > 1 =>
         (need = Flags /\ \A k \in 1..(i - 1) : SnapshotOrder[k] \in snap)
    /\ pc \notin {"snapshot", "exited"} => snap = Flags

PolledSoFar ==
  outcome = "complete" =>
    /\ pc = "readRealtime" => Polled(RealtimeReads, i - 1)
    /\ pc = "readStatistic" =>
         (Polled(RealtimeReads, 7) /\ Polled(StatisticReads, i - 1))
    /\ pc \in AfterReads => \A g \in Groups : base[g] <= mem[g]

SentWhenOwing ==
  \A g \in Groups :
    outcome = "complete" /\ HasClient /\ pc \in AfterSendAll => base[g] <= sent[g]

PassInv ==
  /\ \A g \in Groups : base[g] <= dev[g]
  /\ SampledWhenOwing /\ PolledSoFar /\ SentWhenOwing

\* The ServerStatistic flag falls only when the memory, as it is at that moment,
\* is what was last queued for the server: an update that could not be queued
\* stays pending (tracerclient.c:390-399).
ServerResetAfterSend == [][(SS \in need \ need') => sent = mem]_vars

\* Once the other threads stop writing, memory and server agree with the
\* controller for good: the timeouts repair the triggers that races and lost
\* answers have lost (SetTimeout, tracerclient.c:1166-1174).
EventuallyFresh ==
  <>[](pc = "exited" \/ (mem = dev /\ (HasClient => sent = dev)))

\* tracerctr.c:113: a write triggers "a complete Update on Client and Server":
\* when no statistic update is pending any more, it has taken place.
CompleteUpdate ==
  pc = "snapshot" /\ i = 1 /\ need \cap {TS, SS} = {} =>
    \A g \in Groups : raised[g] <= sent[g]
=============================================================================
