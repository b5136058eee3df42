--------------------------- MODULE UpdateLoopProofs ---------------------------
(***************************************************************************)
(* What holds of the update loop for every number of writers, writes and   *)
(* tries, and for all timeouts.                                            *)
(***************************************************************************)
EXTENDS UpdateLoop, TLAPS

TypeInv == TypeOK /\ IndexInRange
Control == ControlOK /\ IndexInRange

\* The loop starts with all flags raised, every timer expired, all data of version 0.
LEMMA TypeInvInit == Init => TypeInv
<1> SUFFICES ASSUME Init PROVE TypeInv
  OBVIOUS
<1>1. age \in [Flags -> Nat] /\ trigger \in [Writers -> 0..4] /\ Zero \in Versions
  BY ConstantsAssumption DEF Init, Expired, Zero, Versions
<1>2. DataOK
  BY <1>1 DEF Init, DataOK
<1>3. Control
  BY ConstantsAssumption DEF Init, Control, ControlOK, IndexInRange, PcValues
<1> QED BY <1>2, <1>3 DEF TypeInv, TypeOK, Control

-----------------------------------------------------------------------------
(* The control state: flags, program counter, index.                       *)

\* The two lists of requests ask for all groups, and their functions begin in them.
LEMMA ReadLists ==
  /\ Len(RealtimeReads) = 7 /\ Len(StatisticReads) = 7
  /\ \A k \in 1..7 : RealtimeReads[k] \in Groups /\ StatisticReads[k] \in Groups
  /\ RealtimeStarts \subseteq 1..8 /\ StatisticStarts \subseteq 1..8
BY DEF RealtimeReads, StatisticReads, Groups, RealtimeStarts, StatisticStarts

LEMMA AllAsked ==
  \A g \in Groups : \E k \in 1..7 : g = RealtimeReads[k] \/ g = StatisticReads[k]
BY DEF RealtimeReads, StatisticReads, Groups

\* What an answered or failed request, or the end of the list, does to the control
\* state.
LEMMA ReadStep ==
  ASSUME Control, NEW reads, Len(reads) = 7, NEW starts \in SUBSET (1..8),
         NEW flag \in Flags, NEW next,
         \/ ReadSucceeds(reads, starts) \/ ReadFails(reads, starts)
         \/ ReadsDone(reads, flag, next)
  PROVE  /\ \/ i <= 7 /\ i' \in 1..8 /\ pc' = pc
            \/ i = 8 /\ i' = 1 /\ pc' = next
         /\ need' \subseteq Flags /\ snap' = snap
         /\ tries' \in 0..(MaxTries - 1)
         /\ outcome' \in {"complete", "incomplete"}
<1>0. i \in 1..8 /\ tries \in 0..(MaxTries - 1) /\ MaxTries \in Nat \ {0}
      /\ need \subseteq Flags /\ outcome \in {"complete", "incomplete"}
  BY ConstantsAssumption DEF Control, ControlOK
<1>1. CASE ReadSucceeds(reads, starts)
  BY <1>0, <1>1 DEF ReadSucceeds
<1>2. CASE ReadFails(reads, starts)
  <2>1. i <= 7 /\ i' \in starts /\ pc' = pc /\ need' = need /\ snap' = snap
    BY <1>2 DEF ReadFails
  <2>2. \/ tries + 1 < MaxTries /\ tries' = tries + 1 /\ outcome' = outcome
        \/ tries' = 0 /\ outcome' = "incomplete"
    BY <1>2 DEF ReadFails
  <2> QED
    BY <1>0, <2>1, <2>2
<1>3. CASE ReadsDone(reads, flag, next)
  BY <1>0, <1>3 DEF ReadsDone
<1> QED BY <1>1, <1>2, <1>3

\* Every step of main keeps the control state in its range.
LEMMA MainControl == Control /\ Main => Control'
<1> SUFFICES ASSUME Control, Main PROVE Control'
  OBVIOUS
<1> USE DEF Control, ControlOK, IndexInRange, PcValues
<1>1. CASE Snapshot
  <2>1. snap' \subseteq Flags
    BY <1>1 DEF Snapshot
  <2>2. outcome' \in {"complete", "incomplete"}
    BY <1>1 DEF Snapshot, OpenPass
  <2>3. \/ i < 4 /\ pc' = "snapshot" /\ i' = i + 1
        \/ i = 4 /\ pc' = "readRealtime" /\ i' = 1
    BY <1>1 DEF Snapshot
  <2> QED
    BY <1>1, <2>1, <2>2, <2>3 DEF Snapshot
<1>2. CASE ReadRealtime
  <2>1. CASE TR \notin snap /\ Skip("readStatistic")
    BY <1>2, <2>1 DEF ReadRealtime, Skip
  <2>2. CASE TR \in snap
    <3>1. /\ pc = "readRealtime" /\ TR \in Flags
          /\ \/ ReadSucceeds(RealtimeReads, RealtimeStarts) \/ ReadFails(RealtimeReads, RealtimeStarts)
             \/ ReadsDone(RealtimeReads, TR, "readStatistic")
      BY <1>2, <2>2 DEF ReadRealtime, Flags
    <3> HIDE DEF Control
    <3>2. /\ \/ i' \in 1..8 /\ pc' = pc
             \/ i' = 1 /\ pc' = "readStatistic"
          /\ need' \subseteq Flags /\ snap' = snap
          /\ tries' \in 0..(MaxTries - 1)
          /\ outcome' \in {"complete", "incomplete"}
      BY <3>1, ReadStep, ReadLists
    <3> USE DEF Control
    <3> QED
      BY <2>2, <3>1, <3>2
  <2> QED
    BY <1>2, <2>1, <2>2 DEF ReadRealtime
<1>3. CASE ReadStatistic
  <2>1. CASE TS \notin snap /\ Skip("sendAll")
    BY <1>3, <2>1 DEF ReadStatistic, Skip
  <2>2. CASE TS \in snap
    <3>1. /\ pc = "readStatistic" /\ TS \in Flags
          /\ \/ ReadSucceeds(StatisticReads, StatisticStarts) \/ ReadFails(StatisticReads, StatisticStarts)
             \/ ReadsDone(StatisticReads, TS, "sendAll")
      BY <1>3, <2>2 DEF ReadStatistic, Flags
    <3> HIDE DEF Control
    <3>2. /\ \/ i' \in 1..8 /\ pc' = pc
             \/ i' = 1 /\ pc' = "sendAll"
          /\ need' \subseteq Flags /\ snap' = snap
          /\ tries' \in 0..(MaxTries - 1)
          /\ outcome' \in {"complete", "incomplete"}
      BY <3>1, ReadStep, ReadLists
    <3> USE DEF Control
    <3> QED
      BY <2>2, <3>1, <3>2
  <2> QED
    BY <1>3, <2>1, <2>2 DEF ReadStatistic
<1>4. CASE Send
  BY <1>4 DEF Send, SendAll, SkipSendAll, SendRealtime, SkipSendRealtime, Skip
<1>5. CASE SendFails
  BY <1>5 DEF SendFails, SendAllFails, SendRealtimeFails
<1>6. CASE ResetServer
  BY <1>6 DEF ResetServer, Reset
<1>7. CASE SetTimeout
  BY <1>7 DEF SetTimeout
<1> QED BY <1>1, <1>2, <1>3, <1>4, <1>5, <1>6, <1>7 DEF Main

-----------------------------------------------------------------------------
(* The data: ages, triggers and versions.                                  *)

\* A request, and the end of the list, keep the types of the data.
LEMMA ReadData ==
  ASSUME DataOK, i \in 1..8, NEW reads, Len(reads) = 7,
         \A k \in 1..7 : reads[k] \in Groups, NEW starts, NEW flag, NEW next,
         \/ ReadSucceeds(reads, starts) \/ ReadFails(reads, starts)
         \/ ReadsDone(reads, flag, next)
  PROVE  DataOK'
<1> USE DEF DataOK, Versions, history
<1>1. CASE ReadSucceeds(reads, starts)
  <2>1. reads[i] \in Groups
    BY <1>1 DEF ReadSucceeds
  <2> QED BY <1>1, <2>1 DEF ReadSucceeds
<1>2. CASE ReadFails(reads, starts)
  BY <1>2 DEF ReadFails
<1>3. CASE ReadsDone(reads, flag, next)
  BY <1>3 DEF ReadsDone
<1> QED BY <1>1, <1>2, <1>3

\* Every step of main keeps the types of the data.
LEMMA MainData == Control /\ DataOK /\ Main => DataOK'
<1> SUFFICES ASSUME Control, DataOK, Main PROVE DataOK'
  OBVIOUS
<1> USE DEF DataOK, Versions, history
<1>1. CASE Snapshot
  <2>1. base' \in Versions
    BY <1>1 DEF Snapshot, OpenPass, Zero
  <2> QED BY <1>1, <2>1 DEF Snapshot
<1>2. ASSUME ReadRealtime \/ ReadStatistic PROVE DataOK'
  <2>1. /\ i \in 1..8
        /\ \A k \in 1..7 : RealtimeReads[k] \in Groups
        /\ \A k \in 1..7 : StatisticReads[k] \in Groups
    BY ReadLists DEF Control, ControlOK
  <2>2. ASSUME NEW next, Skip(next) PROVE DataOK'
    BY <2>2 DEF Skip
  <2> HIDE DEF DataOK
  <2>3. CASE ReadRealtime
    BY <2>3, <2>1, <2>2, ReadLists, ReadData DEF ReadRealtime
  <2>4. CASE ReadStatistic
    BY <2>4, <2>1, <2>2, ReadLists, ReadData DEF ReadStatistic
  <2> QED BY <1>2, <2>3, <2>4
<1>3. CASE Send
  <2>1. CASE SendAll
    BY <2>1 DEF SendAll
  <2>2. CASE SendRealtime
    BY <2>2 DEF SendRealtime
  <2>3. CASE SkipSendAll \/ SkipSendRealtime
    BY <2>3 DEF SkipSendAll, SkipSendRealtime, Skip
  <2> QED BY <1>3, <2>1, <2>2, <2>3 DEF Send
<1>4. CASE SendFails
  BY <1>4 DEF SendFails, SendAllFails, SendRealtimeFails
<1>5. CASE ResetServer
  BY <1>5 DEF ResetServer, Reset
<1>6. CASE SetTimeout
  BY <1>6 DEF SetTimeout
<1> QED BY <1>1, <1>2, <1>3, <1>4, <1>5, <1>6 DEF Main

\* The steps of the other threads, the clock and the process.
Others ==
  \/ \E w \in Writers : Trigger(w)
  \/ \E w \in Writers, g \in WriteTargets : Write(w, g)
  \/ \E g \in WriteTargets : WriteUnanswered(g)
  \/ \E f \in Flags : UserTrigger(f)
  \/ Tick
  \/ Exit

\* A step is one of main or one of the others.
LEMMA NextCases == Next <=> Main \/ Others
BY DEF Next, Others

\* Writers, users, the clock and exit keep the control state in its range.
LEMMA OthersControl == Control /\ DataOK /\ Others => Control'
<1> SUFFICES ASSUME Control, DataOK, Others PROVE Control'
  OBVIOUS
<1> USE DEF Control, ControlOK, IndexInRange, PcValues, history
<1>1. ASSUME NEW w \in Writers, Trigger(w) PROVE Control'
  <2>1. trigger[w] \in 1..4
    BY <1>1 DEF Trigger, DataOK
  <2>2. TriggerOrder[trigger[w]] \in Flags
    BY <2>1 DEF TriggerOrder, Flags
  <2>3. need' \subseteq Flags
    BY <1>1, <2>2 DEF Trigger
  <2> QED BY <1>1, <2>3 DEF Trigger
<1>2. ASSUME NEW w \in Writers, NEW g \in WriteTargets, Write(w, g) PROVE Control'
  BY <1>2 DEF Write
<1>3. ASSUME NEW g \in WriteTargets, WriteUnanswered(g) PROVE Control'
  BY <1>3 DEF WriteUnanswered
<1>4. ASSUME NEW f \in Flags, UserTrigger(f) PROVE Control'
  BY <1>4 DEF UserTrigger
<1>5. CASE Tick
  BY <1>5 DEF Tick
<1>6. CASE Exit
  BY <1>6 DEF Exit
<1> QED BY <1>1, <1>2, <1>3, <1>4, <1>5, <1>6 DEF Others

\* They keep the types of the data.
LEMMA OthersData == DataOK /\ Others => DataOK'
<1> SUFFICES ASSUME DataOK, Others PROVE DataOK'
  OBVIOUS
<1> USE DEF DataOK, Versions, history
<1>1. ASSUME NEW w \in Writers, Trigger(w) PROVE DataOK'
  <2>1. trigger' \in [Writers -> 0..4]
    BY <1>1 DEF Trigger
  <2>2. raised' \in Versions
    BY <1>1 DEF Trigger
  <2> QED BY <1>1, <2>1, <2>2 DEF Trigger
<1>2. ASSUME NEW w \in Writers, NEW g \in WriteTargets, Write(w, g) PROVE DataOK'
  BY <1>2, ConstantsAssumption DEF Write
<1>3. ASSUME NEW g \in WriteTargets, WriteUnanswered(g) PROVE DataOK'
  BY <1>3, ConstantsAssumption DEF WriteUnanswered
<1>4. ASSUME NEW f \in Flags, UserTrigger(f) PROVE DataOK'
  BY <1>4 DEF UserTrigger
<1>5. CASE Tick
  <2>1. age' \in [Flags -> Nat]
    BY <1>5 DEF Tick
  <2> QED BY <1>5, <2>1 DEF Tick
<1>6. CASE Exit
  BY <1>6 DEF Exit
<1> QED BY <1>1, <1>2, <1>3, <1>4, <1>5, <1>6 DEF Others

\* The flags, the control state and the versions keep their types, and the
\* index never leaves the list that main walks, with any number of writers.
THEOREM TypeCorrect == Spec => [](TypeOK /\ IndexInRange)
<1>1. Init => Control /\ DataOK
  BY TypeInvInit DEF TypeInv, TypeOK, Control
<1>2. Control /\ DataOK /\ [Next]_vars => (Control /\ DataOK)'
  <2>1. Control /\ DataOK /\ UNCHANGED vars => (Control /\ DataOK)'
    BY DEF vars, Control, ControlOK, IndexInRange, DataOK
  <2> QED
    BY <2>1, MainControl, MainData, OthersControl, OthersData, NextCases
<1>3. Control /\ DataOK => TypeOK /\ IndexInRange
  BY DEF TypeOK, Control
<1> QED BY <1>1, <1>2, <1>3, PTL DEF Spec

-----------------------------------------------------------------------------
(* A pass serves what it owes.                                             *)

\* At the start nothing is owed.
LEMMA PassInvInit == Init => PassInv
BY DEF Init, PassInv, SampledWhenOwing, PolledSoFar, SentWhenOwing, Owing, Zero,
       AfterReads, AfterSendAll, Polled

\* The index range and types the steps below need, in one fact.
LEMMA Ranges ==
  Control /\ DataOK =>
    /\ need \subseteq Flags /\ snap \subseteq Flags /\ i \in 1..8
    /\ \A g \in Groups : base[g] \in Nat /\ dev[g] \in Nat /\ mem[g] \in Nat
                                         /\ sent[g] \in Nat
BY DEF Control, ControlOK, DataOK, Versions

\* Sampling preserves PassInv: whoever owes has found all flags raised, and no
\* other thread lowers one.
LEMMA SnapshotPass == Control /\ DataOK /\ PassInv /\ Snapshot => PassInv'
<1> SUFFICES ASSUME Control, DataOK, PassInv, Snapshot PROVE PassInv'
  OBVIOUS
<1>1. /\ pc = "snapshot" /\ i \in 1..4 /\ need \subseteq Flags /\ snap \subseteq Flags
      /\ UNCHANGED <<need, dev, mem, sent>>
  BY DEF Snapshot, Control, ControlOK, IndexInRange
<1>2. \A g \in Groups : base'[g] <= dev'[g]
  <2>1. base' = base \/ base' = dev \/ base' = Zero
    BY DEF Snapshot, OpenPass
  <2>2. \A g \in Groups : base[g] <= dev[g] /\ dev[g] <= dev[g] /\ Zero[g] <= dev[g]
    BY Ranges DEF PassInv, Zero
  <2> QED BY <1>1, <2>1, <2>2
<1>3. \/ i < 4 /\ pc' = "snapshot" /\ i' = i + 1
      \/ i = 4 /\ pc' = "readRealtime" /\ i' = 1
  BY <1>1 DEF Snapshot
<1>4. ASSUME Owing' PROVE need = Flags /\ \A k \in 1..i : SnapshotOrder[k] \in snap'
  <2>1. need = Flags
    <3>1. CASE i = 1
      BY <1>4, <3>1 DEF Snapshot, OpenPass, Owing, Zero
    <3>2. CASE i > 1
      <4>1. base' = base
        BY <3>2 DEF Snapshot
      <4> QED BY <1>4, <1>1, <3>2, <4>1 DEF PassInv, SampledWhenOwing, Owing
    <3> QED BY <1>1, <3>1, <3>2
  <2>2. SnapshotOrder[i] \in snap'
    <3>1. SnapshotOrder[i] \in Flags
      BY <1>1 DEF SnapshotOrder, Flags
    <3>2. snap' = (snap \ {SnapshotOrder[i]}) \cup (need \cap {SnapshotOrder[i]})
      BY DEF Snapshot
    <3> QED BY <2>1, <3>1, <3>2
  <2>3. \A k \in 1..(i - 1) : SnapshotOrder[k] \in snap
    <3>1. CASE i = 1
      BY <3>1
    <3>2. CASE i > 1
      <4>1. base' = base
        BY <3>2 DEF Snapshot
      <4> QED BY <1>4, <1>1, <3>2, <4>1 DEF PassInv, SampledWhenOwing, Owing
    <3> QED BY <1>1, <3>1, <3>2
  <2>4. \A k \in 1..(i - 1) : SnapshotOrder[k] # SnapshotOrder[i]
    BY <1>1 DEF SnapshotOrder, TR, TS, SR, SS
  <2>5. \A k \in 1..(i - 1) : SnapshotOrder[k] \in snap'
    BY <2>3, <2>4 DEF Snapshot
  <2>6. \A k \in 1..i : k \in 1..(i - 1) \/ k = i
    BY <1>1
  <2> QED BY <2>1, <2>2, <2>5, <2>6
<1>5. SampledWhenOwing'
  <2>1. CASE i < 4
    BY <2>1, <1>1, <1>3, <1>4 DEF SampledWhenOwing
  <2>2. CASE i = 4
    <3>1. ASSUME Owing' PROVE snap' = Flags
      <4>1. {SnapshotOrder[k] : k \in 1..4} = Flags
        BY DEF SnapshotOrder, Flags
      <4>2. snap' \subseteq Flags
        BY <1>1 DEF Snapshot
      <4> QED BY <4>1, <4>2, <3>1, <1>4, <2>2
    <3> QED BY <3>1, <2>2, <1>3 DEF SampledWhenOwing
  <2> QED BY <1>1, <2>1, <2>2
<1>6. PolledSoFar'
  BY <1>3 DEF PolledSoFar, Polled, AfterReads
<1>7. SentWhenOwing'
  BY <1>3 DEF SentWhenOwing, AfterSendAll, AfterReads
<1> QED BY <1>2, <1>5, <1>6, <1>7 DEF PassInv

\* A step that leaves base, dev, snap and the place in the loop keeps the part
\* about sampling, and one that only moves main on does when it leaves snap.
LEMMA KeepsSampled ==
  ASSUME SampledWhenOwing, pc # "snapshot", pc # "exited",
         UNCHANGED <<base, snap>>,
         pc' = "snapshot" => i' = 1
  PROVE  SampledWhenOwing'
BY DEF SampledWhenOwing, Owing

\* A request, or the end of the list, polls what stands in the list: a function that
\* begins anew stands before what it has polled.
LEMMA ReadPass ==
  ASSUME Control, DataOK, NEW reads, Len(reads) = 7,
         \A k \in 1..7 : reads[k] \in Groups, NEW starts \in SUBSET (1..8),
         \A g \in Groups : base[g] <= dev[g],
         outcome = "complete" => Polled(reads, i - 1),
         NEW flag, NEW next,
         \/ ReadSucceeds(reads, starts) \/ ReadFails(reads, starts)
         \/ ReadsDone(reads, flag, next)
  PROVE  /\ UNCHANGED <<base, dev, sent, snap>>
         /\ \A g \in Groups : base[g] <= mem[g] => base'[g] <= mem'[g]
         /\ outcome' = "complete" => outcome = "complete"
         /\ \/ pc' = pc /\ i' \in 1..8
                        /\ (outcome' = "complete" => Polled(reads, i - 1)')
            \/ pc' = next /\ i' = 1 /\ i = 8
<1>0. /\ i \in 1..8
      /\ \A g \in Groups : base[g] \in Nat /\ dev[g] \in Nat /\ mem[g] \in Nat
  BY Ranges
<1>1. CASE ReadSucceeds(reads, starts)
  <2>1. /\ i <= 7 /\ i' = i + 1 /\ pc' = pc /\ outcome' = outcome
        /\ UNCHANGED <<base, dev, sent, snap>> /\ reads[i] \in Groups
    BY <1>0, <1>1 DEF ReadSucceeds, history
  <2>2. \A g \in Groups : mem'[g] = IF g = reads[i] THEN dev[g] ELSE mem[g]
    BY <1>1, <2>1 DEF ReadSucceeds, DataOK, Versions
  <2>3. outcome' = "complete" => Polled(reads, i - 1)'
    <3> SUFFICES ASSUME outcome' = "complete", NEW k \in 1..i
                 PROVE  base'[reads[k]] <= mem'[reads[k]]
      BY <1>0, <2>1 DEF Polled
    <3>1. k \in 1..7 /\ reads[k] \in Groups
      BY <1>0, <2>1
    <3>2. CASE k = i
      BY <2>1, <2>2, <3>2
    <3>3. CASE k # i
      <4>1. base[reads[k]] <= mem[reads[k]]
        BY <1>0, <2>1, <3>3 DEF Polled
      <4> QED BY <2>1, <2>2, <3>1, <4>1
    <3> QED BY <3>2, <3>3
  <2>4. \A g \in Groups : base[g] <= mem[g] => base'[g] <= mem'[g]
    BY <2>1, <2>2
  <2>5. i' \in 1..8
    BY <1>0, <2>1
  <2> QED BY <2>1, <2>3, <2>4, <2>5
<1>2. CASE ReadFails(reads, starts)
  <2>1. /\ pc' = pc /\ UNCHANGED <<base, dev, sent, snap, mem>>
        /\ \/ i' <= i /\ outcome' = outcome
           \/ outcome' = "incomplete"
        /\ i <= 7 /\ i' \in starts
    BY <1>2 DEF ReadFails, history
  <2>2. i' \in 1..8
    BY <2>1
  <2>3. outcome' = "complete" => Polled(reads, i - 1)'
    <3> SUFFICES ASSUME outcome' = "complete", NEW k \in 1..(i' - 1)
                 PROVE  base[reads[k]] <= mem[reads[k]]
      BY <2>1 DEF Polled
    <3>1. k \in 1..(i - 1) /\ outcome = "complete"
      BY <1>0, <2>1, <2>2
    <3> QED BY <3>1 DEF Polled
  <2> QED BY <2>1, <2>2, <2>3
<1>3. CASE ReadsDone(reads, flag, next)
  BY <1>0, <1>3 DEF ReadsDone, history
<1> QED BY <1>1, <1>2, <1>3

\* Both reading phases preserve PassInv.
LEMMA ReadingPass ==
  Control /\ DataOK /\ PassInv /\ (ReadRealtime \/ ReadStatistic) => PassInv'
<1> SUFFICES ASSUME Control, DataOK, PassInv, ReadRealtime \/ ReadStatistic
             PROVE  PassInv'
  OBVIOUS
<1>0. /\ \A k \in 1..7 : RealtimeReads[k] \in Groups
      /\ \A k \in 1..7 : StatisticReads[k] \in Groups
      /\ \A g \in Groups : base[g] <= dev[g]
      /\ \A g \in Groups : base[g] \in Nat /\ mem[g] \in Nat /\ dev[g] \in Nat
  BY ReadLists, Ranges DEF PassInv
<1>1. ASSUME UNCHANGED <<base, dev>> PROVE \A g \in Groups : base'[g] <= dev'[g]
  BY <1>0, <1>1
<1>2. CASE ReadRealtime
  <2>1. pc = "readRealtime" /\ i \in 1..8
    BY <1>2 DEF ReadRealtime, Control, ControlOK
  <2>2. outcome = "complete" => Polled(RealtimeReads, i - 1)
    BY <2>1 DEF PassInv, PolledSoFar
  <2>3. CASE TR \notin snap /\ Skip("readStatistic")
    <3>1. UNCHANGED <<base, dev, snap, i, mem>> /\ pc' = "readStatistic"
      BY <2>3 DEF Skip, history
    <3>2. SampledWhenOwing'
      BY <2>1, <3>1, KeepsSampled DEF PassInv
    <3>3. ~Owing /\ i = 1
      BY <2>1, <2>3 DEF PassInv, SampledWhenOwing, Control, IndexInRange, Flags
    <3>4. \A g \in Groups : base'[g] <= mem'[g]
      BY <1>0, <3>1, <3>3 DEF Owing
    <3>5. PolledSoFar'
      BY <1>0, <3>1, <3>3, <3>4 DEF PolledSoFar, Polled, AfterReads
    <3>6. SentWhenOwing'
      BY <3>1 DEF SentWhenOwing, AfterSendAll, AfterReads
    <3> QED BY <1>1, <3>1, <3>2, <3>5, <3>6 DEF PassInv
  <2>4. CASE TR \in snap
    <3>1. \/ ReadSucceeds(RealtimeReads, RealtimeStarts) \/ ReadFails(RealtimeReads, RealtimeStarts)
          \/ ReadsDone(RealtimeReads, TR, "readStatistic")
      BY <1>2, <2>4 DEF ReadRealtime
    <3>2. /\ UNCHANGED <<base, dev, sent, snap>>
          /\ outcome' = "complete" => outcome = "complete"
          /\ \/ pc' = pc /\ i' \in 1..8
                         /\ (outcome' = "complete" => Polled(RealtimeReads, i - 1)')
             \/ pc' = "readStatistic" /\ i' = 1 /\ i = 8
          /\ \A g \in Groups : base[g] <= mem[g] => base'[g] <= mem'[g]
      <4>1. /\ Len(RealtimeReads) = 7 /\ RealtimeStarts \in SUBSET (1..8)
            /\ \A k \in 1..7 : RealtimeReads[k] \in Groups
            /\ \A g \in Groups : base[g] <= dev[g]
            /\ outcome = "complete" => Polled(RealtimeReads, i - 1)
        BY <1>0, <2>1, <2>2, ReadLists
      <4> QED BY <3>1, <4>1, ReadPass
    <3>3. SampledWhenOwing'
      BY <2>1, <3>2, KeepsSampled DEF PassInv
    <3>4. SentWhenOwing'
      BY <2>1, <3>2 DEF SentWhenOwing, AfterSendAll, AfterReads
    <3>5. PolledSoFar'
      <4>1. CASE pc' = pc
        BY <2>1, <3>2, <4>1 DEF PolledSoFar, AfterReads
      <4>2. CASE pc' = "readStatistic" /\ i' = 1 /\ i = 8
        <5>1. outcome' = "complete" => Polled(RealtimeReads, 7)'
          BY <1>0, <2>2, <3>2, <4>2 DEF Polled
        <5> QED BY <4>2, <5>1 DEF PolledSoFar, AfterReads, Polled
      <4> QED BY <3>2, <4>1, <4>2
    <3> QED BY <1>1, <3>2, <3>3, <3>4, <3>5 DEF PassInv
  <2> QED BY <1>2, <2>3, <2>4 DEF ReadRealtime
<1>3. CASE ReadStatistic
  <2>1. pc = "readStatistic" /\ i \in 1..8
    BY <1>3 DEF ReadStatistic, Control, ControlOK
  <2>2. outcome = "complete" =>
          Polled(RealtimeReads, 7) /\ Polled(StatisticReads, i - 1)
    BY <2>1 DEF PassInv, PolledSoFar
  <2>3. CASE TS \notin snap /\ Skip("sendAll")
    <3>1. UNCHANGED <<base, dev, snap, i, mem>> /\ pc' = "sendAll"
      BY <2>3 DEF Skip, history
    <3>2. SampledWhenOwing'
      BY <2>1, <3>1, KeepsSampled DEF PassInv
    <3>3. ~Owing
      BY <2>1, <2>3 DEF PassInv, SampledWhenOwing, Flags
    <3>4. \A g \in Groups : base'[g] <= mem'[g]
      BY <1>0, <3>1, <3>3 DEF Owing
    <3>5. PolledSoFar'
      BY <3>1, <3>4 DEF PolledSoFar
    <3>6. SentWhenOwing'
      BY <3>1 DEF SentWhenOwing, AfterSendAll, AfterReads
    <3> QED BY <1>1, <3>1, <3>2, <3>5, <3>6 DEF PassInv
  <2>4. CASE TS \in snap
    <3>1. \/ ReadSucceeds(StatisticReads, StatisticStarts) \/ ReadFails(StatisticReads, StatisticStarts)
          \/ ReadsDone(StatisticReads, TS, "sendAll")
      BY <1>3, <2>4 DEF ReadStatistic
    <3>2. /\ UNCHANGED <<base, dev, sent, snap>>
          /\ outcome' = "complete" => outcome = "complete"
          /\ \/ pc' = pc /\ i' \in 1..8
                         /\ (outcome' = "complete" => Polled(StatisticReads, i - 1)')
             \/ pc' = "sendAll" /\ i' = 1 /\ i = 8
          /\ \A g \in Groups : base[g] <= mem[g] => base'[g] <= mem'[g]
      <4>1. /\ Len(StatisticReads) = 7 /\ StatisticStarts \in SUBSET (1..8)
            /\ \A k \in 1..7 : StatisticReads[k] \in Groups
            /\ \A g \in Groups : base[g] <= dev[g]
            /\ outcome = "complete" => Polled(StatisticReads, i - 1)
        BY <1>0, <2>1, <2>2, ReadLists
      <4> QED BY <3>1, <4>1, ReadPass
    <3>3. SampledWhenOwing'
      BY <2>1, <3>2, KeepsSampled DEF PassInv
    <3>4. SentWhenOwing'
      BY <2>1, <3>2 DEF SentWhenOwing, AfterSendAll, AfterReads
    <3>5. outcome' = "complete" => Polled(RealtimeReads, 7)'
      BY <1>0, <2>2, <3>2 DEF Polled
    <3>6. PolledSoFar'
      <4>1. CASE pc' = pc
        BY <2>1, <3>2, <3>5, <4>1 DEF PolledSoFar, AfterReads
      <4>2. CASE pc' = "sendAll" /\ i' = 1 /\ i = 8
        <5>1. outcome' = "complete" => Polled(StatisticReads, 7)'
          BY <1>0, <2>2, <3>2, <4>2 DEF Polled
        <5>2. outcome' = "complete" => \A g \in Groups : base'[g] <= mem'[g]
          BY <3>5, <5>1, AllAsked DEF Polled
        <5> QED BY <4>2, <5>2 DEF PolledSoFar
      <4> QED BY <3>2, <4>1, <4>2
    <3> QED BY <1>1, <3>2, <3>3, <3>4, <3>6 DEF PassInv
  <2> QED BY <1>3, <2>3, <2>4 DEF ReadStatistic
<1> QED BY <1>2, <1>3

\* Sending, resetting and the timeouts: main moves on, mem and base stand.
LEMMA SendingPass ==
  Control /\ DataOK /\ PassInv /\ (Send \/ SendFails \/ ResetServer \/ SetTimeout)
    => PassInv'
<1> SUFFICES ASSUME Control, DataOK, PassInv,
                    Send \/ SendFails \/ ResetServer \/ SetTimeout
             PROVE  PassInv'
  OBVIOUS
<1> DEFINE Places == {"resetServerStatistic", "resetServerRealtime",
                      "sendRealtime", "resetRealtime", "setTimeout"}
<1>1. /\ pc \in AfterReads /\ pc # "snapshot" /\ pc # "exited" /\ i = 1
      /\ UNCHANGED <<base, dev, mem, snap, i>>
      /\ pc' \in Places \cup {"snapshot"}
      /\ outcome' = "complete" => outcome = "complete"
  <2>0. pc # "snapshot" /\ pc # "exited" /\ pc \in AfterReads => i = 1
    BY DEF Control, IndexInRange, AfterReads
  <2>1. CASE Send
    BY <2>0, <2>1 DEF Send, SendAll, SkipSendAll, SendRealtime, SkipSendRealtime, Skip,
                history, AfterReads
  <2>2. CASE SendFails
    BY <2>0, <2>2 DEF SendFails, SendAllFails, SendRealtimeFails, history, AfterReads
  <2>3. CASE ResetServer
    BY <2>0, <2>3 DEF ResetServer, Reset, history, AfterReads
  <2>4. CASE SetTimeout
    BY <2>0, <2>4 DEF SetTimeout, history, AfterReads
  <2> QED BY <2>1, <2>2, <2>3, <2>4
<1>2. outcome = "complete" => \A g \in Groups : base[g] <= mem[g]
  BY <1>1 DEF PassInv, PolledSoFar
<1>3. SampledWhenOwing'
  BY <1>1, KeepsSampled DEF PassInv
<1>4. PolledSoFar'
  BY <1>1, <1>2 DEF PolledSoFar
<1>5. SentWhenOwing'
  <2> SUFFICES ASSUME outcome' = "complete", HasClient, pc' \in AfterSendAll,
                      NEW g \in Groups
               PROVE  base[g] <= sent'[g]
    BY <1>1 DEF SentWhenOwing
  <2>0. base[g] \in Nat /\ sent[g] \in Nat /\ base[g] <= mem[g]
    BY <1>1, <1>2, Ranges
  <2>1. CASE SendAll
    BY <2>0, <2>1 DEF SendAll
  <2>2. CASE SkipSendAll
    <3>1. SS \notin snap /\ pc = "sendAll" /\ sent' = sent
      BY <2>2 DEF SkipSendAll, Skip
    <3>2. ~Owing
      BY <1>1, <3>1 DEF PassInv, SampledWhenOwing, Flags
    <3> QED BY <2>0, <3>1, <3>2 DEF Owing
  <2>3. CASE SendRealtime
    <3>1. base[g] <= sent[g]
      BY <1>1, <2>3 DEF SendRealtime, PassInv, SentWhenOwing, AfterReads, AfterSendAll
    <3> QED BY <2>0, <2>3, <3>1 DEF SendRealtime
  <2>4. CASE SkipSendRealtime \/ ResetServer \/ SetTimeout
    <3>1. /\ sent' = sent /\ outcome' = outcome
          /\ pc \in AfterReads /\ pc # "sendAll"
      BY <1>1, <2>4 DEF SkipSendRealtime, Skip, ResetServer, Reset, SetTimeout, history
    <3> QED BY <3>1 DEF PassInv, SentWhenOwing, AfterSendAll
  <2>5. CASE SendFails
    BY <2>5 DEF SendFails, SendAllFails, SendRealtimeFails
  <2> QED BY <2>1, <2>2, <2>3, <2>4, <2>5 DEF Send
<1>6. \A g \in Groups : base'[g] <= dev'[g]
  BY <1>1 DEF PassInv
<1> QED BY <1>3, <1>4, <1>5, <1>6 DEF PassInv

\* No other thread lowers a flag or moves main, except by ending the process.
LEMMA OthersPass == Control /\ DataOK /\ PassInv /\ Others => PassInv'
<1> SUFFICES ASSUME Control, DataOK, PassInv, Others PROVE PassInv'
  OBVIOUS
<1>0. \A g \in Groups : base[g] \in Nat /\ dev[g] \in Nat
  BY Ranges
<1>1. /\ UNCHANGED <<base, mem, sent, snap, outcome, i>>
      /\ (pc' = pc /\ need \subseteq need') \/ pc' = "exited"
  BY DEF Others, Trigger, Write, WriteUnanswered, UserTrigger, Tick, Exit, history
<1>2. \A g \in Groups : dev[g] <= dev'[g]
  <2>1. dev' = dev \/ \E g \in WriteTargets : dev' = [dev EXCEPT ![g] = @ + 1]
    BY DEF Others, Trigger, Write, WriteUnanswered, UserTrigger, Tick, Exit
  <2>2. dev \in [Groups -> Nat]
    BY DEF DataOK, Versions
  <2> QED BY <1>0, <2>1, <2>2
<1>3. \A g \in Groups : base'[g] <= dev'[g]
  <2>1. \A g \in Groups : base[g] <= dev[g] /\ dev'[g] \in Nat
    BY OthersData DEF PassInv, DataOK, Versions
  <2> QED BY <1>0, <1>1, <1>2, <2>1
<1>4. need' \subseteq Flags
  BY OthersControl DEF Control, ControlOK
<1>5. CASE pc' = pc /\ need \subseteq need'
  <2>1. SampledWhenOwing'
    BY <1>1, <1>4, <1>5 DEF PassInv, SampledWhenOwing, Owing
  <2>2. PolledSoFar' /\ SentWhenOwing'
    BY <1>1, <1>5 DEF PassInv, PolledSoFar, SentWhenOwing, Polled
  <2> QED BY <1>3, <2>1, <2>2 DEF PassInv
<1>6. CASE pc' = "exited"
  BY <1>3, <1>6 DEF PassInv, SampledWhenOwing, PolledSoFar, SentWhenOwing,
                    AfterSendAll, AfterReads
<1> QED BY <1>1, <1>5, <1>6

\* A pass that found all four flags raised and met no failure has brought what
\* the controller held at its start to the client memory and the server queue,
\* whatever writers and users do meanwhile.
THEOREM PassServed == Spec => []ServedByPass
<1> DEFINE Inv == Control /\ DataOK /\ PassInv
<1>1. Init => Inv
  BY TypeInvInit, PassInvInit DEF TypeInv, TypeOK, Control
<1>2. Inv /\ [Next]_vars => Inv'
  <2>1. Inv /\ UNCHANGED vars => Inv'
    BY DEF vars, Control, ControlOK, IndexInRange, DataOK, PassInv, SampledWhenOwing,
           PolledSoFar, SentWhenOwing, Owing, Polled
  <2>2. Inv /\ Main => Inv'
    BY MainControl, MainData, SnapshotPass, ReadingPass, SendingPass DEF Main
  <2>3. Inv /\ Others => Inv'
    BY OthersControl, OthersData, OthersPass
  <2> QED BY <2>1, <2>2, <2>3, NextCases
<1>3. Inv => ServedByPass
  BY DEF PassInv, PolledSoFar, SentWhenOwing, ServedByPass, AfterReads, AfterSendAll
<1> QED BY <1>1, <1>2, <1>3, PTL DEF Spec

QueuedBeforeReset == pc = "resetServerStatistic" => sent = mem

\* While main is about to reset the flag nothing changes the memory.
LEMMA QueuedStep == QueuedBeforeReset /\ [Next]_vars => QueuedBeforeReset'
<1> SUFFICES ASSUME QueuedBeforeReset, [Next]_vars PROVE QueuedBeforeReset'
  OBVIOUS
<1> USE DEF QueuedBeforeReset
<1>1. CASE Snapshot
  BY <1>1 DEF Snapshot
<1>2. CASE ReadRealtime \/ ReadStatistic
  BY <1>2 DEF ReadRealtime, ReadStatistic, ReadSucceeds, ReadFails, ReadsDone, Skip
<1>3. CASE Send \/ SendFails
  BY <1>3 DEF Send, SendAll, SkipSendAll, SendRealtime, SkipSendRealtime, Skip,
              SendFails, SendAllFails, SendRealtimeFails
<1>4. CASE ResetServer \/ SetTimeout
  BY <1>4 DEF ResetServer, Reset, SetTimeout
<1>5. CASE Others
  BY <1>5 DEF Others, Trigger, Write, WriteUnanswered, UserTrigger, Tick, Exit
<1>6. CASE UNCHANGED vars
  BY <1>6 DEF vars
<1> QED BY <1>1, <1>2, <1>3, <1>4, <1>5, <1>6, NextCases DEF Main

\* The one step that lowers ServerStatistic finds the memory queued.
LEMMA ResetStep ==
  QueuedBeforeReset /\ [Next]_vars => ((SS \in need \ need') => sent = mem)
<1> SUFFICES ASSUME QueuedBeforeReset, [Next]_vars, SS \in need, SS \notin need'
             PROVE  sent = mem
  OBVIOUS
<1>0. SS # TR /\ SS # TS /\ SS # SR
  BY DEF TR, TS, SR, SS
<1>1. ASSUME NEW flag, need' = need \ {flag} PROVE flag = SS
  BY <1>1
<1>2. CASE Snapshot \/ SetTimeout \/ Send \/ SendFails
  BY <1>2 DEF Snapshot, SetTimeout, Send, SendAll, SkipSendAll, SendRealtime,
              SkipSendRealtime, Skip, SendFails, SendAllFails, SendRealtimeFails
<1>3. CASE ReadRealtime \/ ReadStatistic
  BY <1>0, <1>1, <1>3
     DEF ReadRealtime, ReadStatistic, ReadSucceeds, ReadFails, ReadsDone, Skip
<1>4. CASE ResetServer
  BY <1>0, <1>1, <1>4 DEF ResetServer, Reset, QueuedBeforeReset
<1>5. CASE Others
  BY <1>5 DEF Others, Trigger, Write, WriteUnanswered, UserTrigger, Tick, Exit
<1>6. CASE UNCHANGED vars
  BY <1>6 DEF vars
<1> QED BY <1>2, <1>3, <1>4, <1>5, <1>6, NextCases DEF Main

\* The ServerStatistic flag falls only at a moment when the memory is what was
\* last queued for the server.
THEOREM ResetAfterSend == Spec => ServerResetAfterSend
<1>1. Init => QueuedBeforeReset
  BY DEF Init, QueuedBeforeReset
<1>2. QueuedBeforeReset /\ [Next]_vars => [(SS \in need \ need') => sent = mem]_vars
  BY ResetStep
<1> QED BY <1>1, <1>2, QueuedStep, PTL DEF Spec, ServerResetAfterSend
=============================================================================
