------------------------------ MODULE MemoryMirror ------------------------------
(***************************************************************************)
(* The memories of client and server, and who uses them at the same time:  *)
(* the client's main loop, which saves answers of the controller and scans *)
(* the tables in SendMem; the server's main loop, which saves commands;    *)
(* the handlers of text commands and the displays of both hosts.           *)
(*                                                                         *)
(* A step is a critical section of mem_mtx or an access without it.  Of    *)
(* clean, whose critical section others can look into, begin and end are   *)
(* steps.  Messages arrive whole and in order or not at all (ClientQueue). *)
(* A pass begins when those of the last one have: passes are a minute      *)
(* apart, and nothing is lost by it, since the client's steps do not       *)
(* depend on the server and the server's only on the messages.             *)
(***************************************************************************)
EXTENDS Memory, FiniteSets

CONSTANTS
  List,         \* the addresses of each table, the user's as configured on both hosts
  Blocks,       \* the blocks of registers the controller is asked for
  Shown,        \* the ranges of registers displays ask for: <<first, last>>
  Wide,         \* the addresses of the low halves of 32 bit values
  Realtime,     \* ranges of registers sent every minute: <<first, last>>
  UserRealtime, \* the range of each user table sent every minute
  MaxReads,     \* bound: answers of the controller
  MaxPuts,      \* bound: values put by users
  MaxCleans,    \* bound: cleanmem and cleanalternate
  MaxLosses     \* bound: messages lost with a connection

\* Tables and blocks are sorted, and the blocks are in the table of registers.  What a
\* display asks for begins with a block, and may go on behind it.
ASSUME MirrorAssumption ==
  /\ \A t \in Tables : /\ List[t] \in Seq(0..(LastAdress - 1))
                        /\ \A j, k \in DOMAIN List[t] : j < k => List[t][j] < List[t][k]
  /\ \A k \in DOMAIN List["eReg"] : List["eReg"][k] > 0
  /\ \A block \in Blocks : \E j, k \in DOMAIN List["eReg"] :
       j <= k /\ block = SubSeq(List["eReg"], j, k)
  /\ \A range \in Shown :
       /\ range \in Nat \X Nat
       /\ \E block \in Blocks : block[1] = range[1] /\ block[Len(block)] <= range[2]
  /\ {MaxReads, MaxPuts, MaxCleans, MaxLosses} \subseteq Nat

\* Two blocks never begin at the same register.  A 32 bit value is in a block and never
\* torn by a block or a range, and user registers have other addresses.  Unknown is no
\* value.
ASSUME WideAssumption ==
  /\ MaxReads + MaxPuts < Unknown
  /\ \A b, c \in Blocks : b[1] = c[1] => b = c
  /\ Realtime \in Seq(Nat \X Nat)
  /\ Wide \subseteq Nat
  /\ \A low \in Wide :
       /\ \A block \in Blocks : (\E i \in DOMAIN block : block[i] = low)
                             <=> (\E i \in DOMAIN block : block[i] = low + 1)
       /\ \A k \in DOMAIN List["eReg"] : List["eReg"][k] = low =>
            \E block \in Blocks : \E i \in DOMAIN block : block[i] = low
       /\ \A r \in DOMAIN Realtime : low \in Realtime[r][1]..Realtime[r][2]
                                   <=> low + 1 \in Realtime[r][1]..Realtime[r][2]
       /\ \A k \in DOMAIN List["eUserReg"] : List["eUserReg"][k] # low

Hosts == {"client", "server"}

VARIABLES
  memory,      \* the cMemory of each host
  pc,          \* where the client's main loop is
  calls,       \* the calls of SendMem this pass has still to make
  n,           \* SendMem: index of a scan
  message,     \* the commands added to the static MTTP
  channel,     \* messages on their way to the server
  saving,      \* the commands of a message the server has still to save
  cleaning,    \* the client's clean is at work: "no" or "yes"
  asked,       \* the range a display's answer is begun for, per host, or <<>>
  budget,      \* reads, puts, losses so far
  cleans,      \* cleanmem and cleanalternate so far, per host
  puts         \* history: <<adress, value>> users have put

main == <<pc, calls, n, message>>
link == <<channel, saving>>
vars == <<memory, main, link, cleaning, asked, budget, cleans, puts>>

-----------------------------------------------------------------------------
(* What is sent.                                                           *)

Call(type, from, to, send) == [type |-> type, from |-> from, to |-> to, send |-> send]

\* Broken variant: the headers come before the registers.
EAllHeadersFirst ==
  <<Call("eDevInfo", 1, 1, "no"), Call("eDevInfo", 2, 2, "no"),
    Call("eHeader", 0, LastAdress, "no"), Call("eReg", 0, LastAdress, "no"),
    Call("eCoil", 0, LastAdress, "no"), Call("eDiscInp", 0, LastAdress, "no"),
    Call("eUser", 0, LastAdress, "no"), Call("eUserReg", 0, LastAdress, "no"),
    Call("eUserCoil", 0, LastAdress, "yes")>>

\* SendMem(eAll) falls through all cases and sends one message.
EAll == <<Call("eDevInfo", 1, 1, "no"), Call("eDevInfo", 2, 2, "no"),
          Call("eReg", 0, LastAdress, "no"), Call("eCoil", 0, LastAdress, "no"),
          Call("eDiscInp", 0, LastAdress, "no"), Call("eHeader", 0, LastAdress, "no"),
          Call("eUser", 0, LastAdress, "no"), Call("eUserReg", 0, LastAdress, "no"),
          Call("eUserCoil", 0, LastAdress, "yes")>>

\* What main sends when the realtime flag is up.
ERealtime ==
  [r \in DOMAIN Realtime |-> Call("eReg", Realtime[r][1], Realtime[r][2], "no")] \o
  [r \in DOMAIN Realtime |->
     Call("eUser", Realtime[r][1], Realtime[r][2], IF r = Len(Realtime) THEN "yes" ELSE "no")] \o
  <<Call("eUserReg", UserRealtime["eUserReg"][1], UserRealtime["eUserReg"][2], "yes"),
    Call("eUserCoil", UserRealtime["eUserCoil"][1], UserRealtime["eUserCoil"][2], "yes")>>

\* The command a case of SendMem adds, if there is anything to send.
Commands(m, call) ==
  LET user == UserRange(m, call.type, call.from, call.to)
      values == IF call.type \in UserTables THEN user.values
                ELSE Span(m.list[call.type], m.values[call.type], call.from, call.to)
      adress == IF call.type \in UserTables THEN user.adress ELSE call.from
  IN IF values = <<>> THEN <<>>
     ELSE <<[type |-> call.type, adress |-> adress, payload |-> values]>>

-----------------------------------------------------------------------------
(* The client's main loop.                                                 *)

Registers == List["eReg"]

\* The client's mutex is not held by clean.
Unlocked(h) == h = "client" => cleaning = "no"

Init ==
  /\ memory = [h \in Hosts |->
       Clean([list |-> List, values |-> <<>>, alternate |-> <<>>, headers |-> {}])]
  /\ pc = "idle" /\ calls = <<>> /\ n = 1 /\ message = <<>>
  /\ channel = <<>> /\ saving = <<>>
  /\ cleaning = "no"
  /\ asked = [h \in Hosts |-> <<>>]
  /\ budget = [reads |-> 0, puts |-> 0, losses |-> 0]
  /\ cleans = [h \in Hosts |-> 0]
  /\ puts = {}

\* An answer of the controller, numbered: a block of registers, or one value.
ReadTracer(table, adress, length) ==
  /\ pc = "idle"
  /\ Unlocked("client")
  /\ budget.reads < MaxReads
  /\ budget' = [budget EXCEPT !.reads = @ + 1]
  /\ memory' = [memory EXCEPT !["client"] =
       SaveAnswer(@, table, adress, [k \in 1..length |-> budget'.reads])]
  /\ UNCHANGED <<main, link, cleaning, asked, cleans, puts>>

\* A register the controller is asked for by itself.
Single(adress) == \A block \in Blocks : \A i \in DOMAIN block : block[i] # adress

ReadSomething ==
  \/ \E block \in Blocks : ReadTracer("eReg", block[1], Len(block))
  \/ \E table \in DeviceTables : \E k \in DOMAIN List[table] :
       (table = "eReg" => Single(List["eReg"][k])) /\ ReadTracer(table, List[table][k], 1)

BeginPass(plan) ==
  /\ pc = "idle" /\ channel = <<>> /\ saving = <<>>
  /\ calls' = plan
  /\ pc' = "call"
  /\ UNCHANGED <<memory, n, message, link, cleaning, asked, budget, cleans, puts>>

\* The end of a call of SendMem, or of a case of eAll.
Called ==
  /\ calls' = Tail(calls)
  /\ pc' = IF Head(calls).send = "yes" THEN "send" ELSE "call"

\* A case that reads its table in one critical section.
Gather ==
  /\ pc = "call"
  /\ Head(calls).type \in Tables
  /\ Unlocked("client")
  /\ message' = message \o Commands(memory["client"], Head(calls))
  /\ Called
  /\ UNCHANGED <<memory, n, link, cleaning, asked, budget, cleans, puts>>

\* A case that goes through the registers one by one.  GetRegStartIndex takes no
\* lock: it may not find the address in a table that is being cleaned, and the
\* loop then starts before the table, with whatever lies there.
Scan ==
  /\ pc = "call"
  /\ Head(calls).type \in {"eHeader", "eUser"}
  /\ \/ n' = StartIndex(Registers, Head(calls).from)
     \/ Head(calls).from # 0 /\ cleaning = "yes" /\ n' = NotFound
  /\ pc' = IF n' = NotFound THEN "undefined" ELSE "scan"
  /\ UNCHANGED <<memory, calls, message, link, cleaning, asked, budget, cleans, puts>>

Scanning(type) == pc = "scan" /\ Head(calls).type = type

\* Broken variant: the loop ends before the last register.
EndScanEarly ==
  /\ pc = "scan"
  /\ n >= Len(Registers)
  /\ Called
  /\ UNCHANGED <<memory, n, message, link, cleaning, asked, budget, cleans, puts>>

\* The loop ends after the last register of the range.  GetRegisterAdress reads
\* after it has released the lock: the address may just have been cleared.
EndScan ==
  /\ pc = "scan"
  /\ \/ n > Len(Registers)
     \/ n <= Len(Registers) /\ Registers[n] > Head(calls).to
     \/ cleaning = "yes" /\ Head(calls).type = "eUser" /\ Head(calls).to < LastAdress
  /\ Called
  /\ UNCHANGED <<memory, n, message, link, cleaning, asked, budget, cleans, puts>>

\* GetHeader
GetHeader ==
  /\ Scanning("eHeader")
  /\ n <= Len(Registers)
  /\ Unlocked("client")
  /\ IF Registers[n] \in memory["client"].headers
     THEN pc' = "header" /\ n' = n
     ELSE pc' = pc /\ n' = n + 1
  /\ UNCHANGED <<memory, calls, message, link, cleaning, asked, budget, cleans, puts>>

\* If there is one: GetRegisterAdress, without lock, and AddCommand.
AddHeader ==
  /\ pc = "header"
  /\ \E adress \in {Registers[n], LastAdress} :
       /\ adress = LastAdress => cleaning = "yes"
       /\ message' = Append(message, [type |-> "eHeader", adress |-> adress, payload |-> <<>>])
  /\ n' = n + 1
  /\ pc' = "scan"
  /\ UNCHANGED <<memory, calls, link, cleaning, asked, budget, cleans, puts>>

\* Broken variant: every register is sent as an override.
TestAlternateSkipped ==
  /\ Scanning("eUser")
  /\ n <= Len(Registers) /\ Registers[n] <= Head(calls).to
  /\ pc' = "get"
  /\ UNCHANGED <<memory, calls, n, message, link, cleaning, asked, budget, cleans, puts>>

\* RegisterHaveAlternateValue, without lock: clean may be at this register or not.
TestAlternate ==
  /\ Scanning("eUser")
  /\ n <= Len(Registers) /\ Registers[n] <= Head(calls).to
  /\ \/ memory["client"].alternate[n] # None /\ pc' = "get" /\ n' = n
     \/ (memory["client"].alternate[n] = None \/ cleaning = "yes") /\ n' = n + 1 /\ pc' = pc
  /\ UNCHANGED <<memory, calls, message, link, cleaning, asked, budget, cleans, puts>>

\* GetRegister with alternate values and AddCommand.
GetAlternate ==
  /\ pc = "get"
  /\ Unlocked("client")
  /\ message' = Append(message, [type |-> "eUser", adress |-> Registers[n],
                                 payload |-> <<Seen(memory["client"])[n]>>])
  /\ n' = n + 1
  /\ pc' = "scan"
  /\ UNCHANGED <<memory, calls, link, cleaning, asked, budget, cleans, puts>>

\* GetBuffer, InitBuffer and sendmessage.
Send ==
  /\ pc = "send"
  /\ channel' = Append(channel, message)
  /\ message' = <<>>
  /\ pc' = IF calls = <<>> THEN "idle" ELSE "call"
  /\ UNCHANGED <<memory, calls, n, saving, cleaning, asked, budget, cleans, puts>>

-----------------------------------------------------------------------------
(* The link and the server's main loop.                                    *)

Lose ==
  /\ channel # <<>>
  /\ budget.losses < MaxLosses
  /\ channel' = Tail(channel)
  /\ budget' = [budget EXCEPT !.losses = @ + 1]
  /\ UNCHANGED <<memory, main, saving, cleaning, asked, cleans, puts>>

Receive ==
  /\ saving = <<>>
  /\ channel # <<>>
  /\ saving' = Head(channel)
  /\ channel' = Tail(channel)
  /\ UNCHANGED <<memory, main, cleaning, asked, budget, cleans, puts>>

SaveCommand ==
  /\ saving # <<>>
  /\ memory' = [memory EXCEPT !["server"] = Save(@, Head(saving))]
  /\ saving' = Tail(saving)
  /\ UNCHANGED <<main, channel, cleaning, asked, budget, cleans, puts>>

-----------------------------------------------------------------------------
(* Text commands and displays, on either host.                             *)

\* Values that users put are told from readings by their size.
NewValue == MaxReads + budget.puts + 1

\* setreg and setcoil.
SetReg(h, table, adress) ==
  /\ Unlocked(h)
  /\ budget.puts < MaxPuts
  /\ memory' = [memory EXCEPT ![h] = Put(@, table, adress, NewValue)]
  /\ puts' = puts \cup {<<adress, NewValue>>}
  /\ budget' = [budget EXCEPT !.puts = @ + 1]
  /\ UNCHANGED <<main, link, cleaning, asked, cleans>>

\* setreg32, unless it is refused.
SetReg32(h, adress) ==
  /\ Unlocked(h)
  /\ budget.puts < MaxPuts
  /\ Put32(memory[h], adress, NewValue, NewValue) # memory[h]
  /\ memory' = [memory EXCEPT ![h] = Put32(@, adress, NewValue, NewValue)]
  /\ puts' = puts \cup {<<adress, NewValue>>, <<adress + 1, NewValue>>}
  /\ budget' = [budget EXCEPT !.puts = @ + 1]
  /\ UNCHANGED <<main, link, cleaning, asked, cleans>>

Cleaned(h) ==
  /\ cleans["client"] + cleans["server"] < MaxCleans
  /\ cleans' = [cleans EXCEPT ![h] = @ + 1]

\* cleanalternate
CleanAlternates(h) ==
  /\ Unlocked(h)
  /\ Cleaned(h)
  /\ memory' = [memory EXCEPT ![h] = CleanAlternate(@)]
  /\ UNCHANGED <<main, link, cleaning, asked, budget, puts>>

\* cleanmem on the server, where everybody else waits for the mutex.
CleanServer ==
  /\ Cleaned("server")
  /\ memory' = [memory EXCEPT !["server"] = Clean(@)]
  /\ UNCHANGED <<main, link, cleaning, asked, budget, puts>>

\* cleanmem on the client.
BeginClean ==
  /\ Unlocked("client")
  /\ Cleaned("client")
  /\ cleaning' = "yes"
  /\ UNCHANGED <<memory, main, link, asked, budget, puts>>

EndClean ==
  /\ cleaning = "yes"
  /\ memory' = [memory EXCEPT !["client"] = Clean(@)]
  /\ cleaning' = "no"
  /\ UNCHANGED <<main, link, asked, budget, cleans, puts>>

\* GenerateResponse for a range: first the header of the block it begins with ...
AskBlock(h, range) ==
  /\ asked[h] = <<>>
  /\ Unlocked(h)
  /\ range[1] \in memory[h].headers
  /\ asked' = [asked EXCEPT ![h] = range]
  /\ UNCHANGED <<memory, main, link, cleaning, budget, cleans, puts>>

\* ... and then, in a critical section of its own, the registers, those behind the
\* block among them.
Answer(h) == Span(Registers, Seen(memory[h]), asked[h][1], asked[h][2])

AnswerBlock(h) ==
  /\ asked[h] # <<>>
  /\ Unlocked(h)
  /\ asked' = [asked EXCEPT ![h] = <<>>]
  /\ UNCHANGED <<memory, main, link, cleaning, budget, cleans, puts>>

-----------------------------------------------------------------------------
MainStep ==
  \/ Gather \/ Scan \/ EndScan \/ GetHeader \/ AddHeader
  \/ TestAlternate \/ GetAlternate \/ Send

Server == Receive \/ SaveCommand

User(h) ==
  \/ \E k \in DOMAIN Registers : SetReg(h, "eReg", Registers[k]) \/ SetReg32(h, Registers[k])
  \/ \E k \in DOMAIN List["eUserReg"] :
       SetReg(h, "eReg", List["eUserReg"][k]) \/ SetReg32(h, List["eUserReg"][k])
  \/ \E k \in DOMAIN List["eUserCoil"] : SetReg(h, "eCoil", List["eUserCoil"][k])
  \/ CleanAlternates(h)

Display(h) == AnswerBlock(h) \/ \E range \in Shown : AskBlock(h, range)

Next ==
  \/ ReadSomething \/ BeginPass(EAll) \/ BeginPass(ERealtime) \/ MainStep
  \/ Lose \/ Server
  \/ CleanServer \/ BeginClean \/ EndClean
  \/ \E h \in Hosts : User(h) \/ Display(h)

Spec == Init /\ [][Next]_vars

\* The threads run, and the timeouts bring a complete message again and again.
FairSpec ==
  /\ Spec
  /\ WF_vars(MainStep) /\ WF_vars(Server) /\ WF_vars(EndClean)
  /\ SF_vars(BeginPass(EAll))

-----------------------------------------------------------------------------
(* Properties.                                                             *)

Types == Tables \cup {"eUser", "eHeader"}

\* What a register of the client can hold that no user has put there.
Readings == (0..MaxReads) \cup {Unknown}

\* What users have put and, once the client has been cleaned, what its registers have
\* instead where users had put something.
Excused ==
  IF cleans["client"] = 0 THEN puts ELSE puts \cup {<<put[1], v>> : put \in puts, v \in Readings}

\* The server has overrides only for registers that a user has put a value over, on
\* either host, and each has a value that was put over this very register.  SendMem
\* tests for an override and reads it in two accesses (tracerclient.c:1075-1081): where
\* a clean of the client falls between them, what it sends is the controller's value or
\* 0xFFFF, and this the server keeps as if a user had put it.  But it cannot be another
\* register's, nor come up where nobody has put anything, whatever the walk finds in the
\* table while it is cleaned.
OverridesWerePut ==
  \A k \in DOMAIN Registers :
    memory["server"].alternate[k] # None =>
      <<Registers[k], memory["server"].alternate[k]>> \in Excused

\* As long as no memory is cleaned, a display never sees a register of a block as not
\* received once it has got the block's header: it asks for the header and for the
\* registers separately, and on the server both arrive in commands of their own.
\* (Nothing is said of the registers behind the block.  The display's range 0x3302 goes
\* on to 0x331E (memory.c:376-387), the block that brings its header only to 0x331C; the
\* last two come by requests of their own (tracerclient.c:671-703).  As long as these
\* have not come or have failed, the answer has 0xFFFF for them.)
AnswersKnown ==
  (\A h \in Hosts : cleans[h] = 0) =>
    \A h \in Hosts, block \in Blocks :
      asked[h] # <<>> /\ asked[h][1] = block[1] =>
        \A k \in DOMAIN block : k \in DOMAIN Answer(h) /\ Answer(h)[k] # Unknown

\* The halves of a 32 bit value are two overrides or two values of one answer of the
\* controller: on the client always, on the server as long as nobody has cleaned the
\* client's memory.  (A clean in the middle of the scan can leave the server one
\* override with a user's value and one with the controller's.)
OneReading ==
  \A h \in Hosts, low \in Wide :
    LET halves == Halves(memory[h], low)
        read == {j \in DOMAIN halves : halves[j] <= MaxReads \/ halves[j] = Unknown}
    IN (h = "server" => cleans["client"] = 0) =>
         (read = {} \/ (read = DOMAIN halves /\ halves[1] = halves[2]))

\* However users, displays and cleaning interleave with the scan, in the end the
\* server has the client's values and overrides for good.  (Overrides that are
\* cleared on the client alone stay on the server: nothing is sent for them.)
Mirrored ==
  /\ memory["server"].values = memory["client"].values
  /\ \A k \in DOMAIN Registers :
       memory["client"].alternate[k] # None =>
         memory["server"].alternate[k] = memory["client"].alternate[k]
EventuallyMirrored == <>[](pc # "undefined" => Mirrored)
=============================================================================
