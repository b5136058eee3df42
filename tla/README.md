# EpsolarTracerClient: TLA+ models and proofs

EpsolarTracerClient reads an EPsolar Tracer solar charge controller over a
serial Modbus line (`tracerclient`) and mirrors its registers to another host
(`tracerserver`), where a display, a command interface and a Modbus TCP server
offer them. This directory holds models of the parts of the two programs whose
correctness depends on order, failure and concurrency, the configurations that
check them with TLC, and proofs checked with TLAPS.

Line numbers refer to the files of the repository (`src/`). `PROJECT.json` is
the index: components, runs, mutants, the lines each definition models, the
hazards of the code, the findings and the theorems.

## 1. The system

```
 solar controller             tracerclient                                    tracerserver
 ----------------   +--------------------------------+            +--------------------------------+
                    | main loop (tracerclient.c)     |            | main loop                      |
   serial line <----+-- cTracerCtr --- cModbus       |            |   cServer::action              |
   Modbus RTU       |     ^   flags                  |   MTTP     |     cMTTP::AddMessage          |
                    |     |     cMemory --- SendMem  |   on TCP   |     cMemory::Save              |
                    |     |                    |     |            |                                |
                    | cMtcpServer, cDisplay    cClient ---------->| cMtcpServer, cDisplay,         |
                    |   (other threads)        (thread)           | cModbusServer (threads)        |
                    +----^---------------------------+            +--------|-----------------------+
                         +---- text commands forwarded by cMtcpClient -----+
```

| Component | State it keeps | Operations | Hard behaviour | What makes it correct |
|---|---|---|---|---|
| Client main loop, update flags (`tracerclient.c`, `tracerctr.*`) | four static flags, time of the last update per flag, `cMemory` | snapshot of the flags, Read..., reset, SendMem, SetTimeout; Trigger... by other threads | unlocked flags set by several threads and reset by main; retries that run out; lost answers | what is asked for when a pass begins has reached memory and queue when it ends; nothing stays stale for ever |
| `cClient` (`client.c`) | `SendQueue` (at most 50), connected, needreconnect, time of the last contact | sendmessage (main); Body: heartbeat, connect, drain, select | the queue has no lock; messages too large to encode; resend after broken sends; SIGPIPE | bounded queue, no pop of an empty queue, order kept and loss only by overflow, drained eventually |
| `cModbus` as master (`modbus.c`), `modbus_send_request` | device, `read_buffer`, Receive's state, `modbus_mtx` | SendRequest, Receive, Connect, retry, exit | late, split, garbled answers; a device that fails | answers in order; every request returns |
| `cMTTP` (`mttp.c`) | buffer, closed, inited; 50 decoded commands | InitBuffer, AddCommand, GetBuffer, AddMessage, GetCommand | escapes, lengths, cut messages, more than 50 commands | decoding undoes encoding; a cut message yields a prefix |
| `cServer` (`server.c`) | sock2, connected, needreconnect, receive buffer, decoded commands | action: waitclient, recv, decode, Save; heartbeat | messages joined or split by TCP; dead clients; failed accept | the memory is what the messages say; a new client is served |
| `cMemory` (`memory.c`), `SendMem` (`tracerclient.c`) | tables of registers, coils, alternate and user values, headers, `mem_mtx` | Save, Get..., Put..., clean, GenerateResponse; SendMem reads them for a message | accessors without the mutex, test and use in two accesses, data of one answer in several commands | what the server shows was read or put; the halves of a 32 bit value belong together; the server's tables become the client's |
| `cMtcpServer`, `cMtcpClient` (`mtcpserver.c`) | 100 handler slots, a thread and a socket each | text commands, forwarding to the peer, Abort and Join of handlers | recv without time limit, callers that do not read, failed forwards, Join by the accepting thread, SIGPIPE | a caller's descriptor has one owner; sockets to the peer are lost only by failures; the accepting thread is never blocked; slots are reclaimed; shutdown ends |
| `cModbusServer` (`modbusserver.c`) | 20 client sockets | Modbus TCP requests on the memory, checkclients | full table, failed accept, vanished clients, 16 bit addresses | one slot per connection; answers are what was asked for; slots are freed |
| `cDisplay` (`display.c`) | slave side of `cModbus`, a cMtcpClient | local answers, forwarded requests | forwarding blocks the thread; an answer that is none | requests end; never two on the controller's line |
| Start-up, shutdown | singleton `cTracerCtr`, threads | CreateInstance, Start, Abort, Join, DeleteInstance | threads started before the singleton exists | the controller stays in use; no instance is used deleted; shutdown ends |
| Thread wrapper (`threadwrapper/`) | state, done | Start, SyncPoint, Abort, Join | Abort is noticed at a SyncPoint only | part of the two above |
| Configuration, test tools, scripts | - | parsing, printing | - | not modelled: text, manual tools |

Interactions: main and the other client threads share the flags, the serial line
(`modbus_mtx`) and the memory (`mem_mtx`); main hands messages to the `cClient`
thread through `SendQueue`; `cClient` and `cServer` talk over TCP; handlers of
the server forward commands to the client's command server.

## 2. Modules

| Module | What it models |
|---|---|
| `UpdateLoop` | main of tracerclient.c with the flags of cTracerCtr and the threads that write to the controller |
| `UpdateLoopProofs` | theorems about it |
| `MCUpdateLoop` | constants for TLC |
| `ClientQueue` | cClient: sendmessage against Body, step by step |
| `OverflowingFifo` | abstract specification of the way to the server: messages may be lost but are neither repeated nor reordered, except for one stray per overflow |
| `ClientQueueProofs`, `MCClientQueue` | theorems, constants |
| `LossyFifo` | abstract specification of the answers a caller gets: some may be lost, none is repeated or out of order |
| `ModbusMaster` | SendRequest, Receive, reconnect and retry |
| `ModbusMasterProofs`, `MCModbusMaster` | theorems, constants |
| `Mttp` | the message format: encoding and decoding as operators |
| `MessageBuffer`, `MCMessageBuffer` | the writing side of a cMTTP object, and that decoding undoes it |
| `ServerLink`, `MCServerLink` | cServer on top of `Mttp`: accept, recv, decode, save, heartbeat |
| `MttpProofs` | theorems about `MessageBuffer` and `ServerLink`, and the lemmas on encoding and decoding both rest on |
| `Memory` | the tables of cMemory and its accessors, one operator per critical section |
| `MemoryMirror` | both hosts' memories under SendMem, saving, text commands, cleaning and displays |
| `MemoryMirrorProofs`, `MCMemoryMirror` | theorems with their lemmas, constants |
| `CommandServer` | cMtcpServer: the accepting thread, its handlers, callers, forwarding, shutdown |
| `CommandServerProofs`, `MCCommandServer` | theorems, constants |
| `ModbusTcp` | cModbusServer on top of `Memory`'s look-up: the table of clients, requests and answers |
| `ModbusTcpProofs`, `MCModbusTcp` | theorems, constants |
| `Lifecycle` | the threads of both processes from start to end: the singleton, modbus_send_request, cDisplay, signals, Join |
| `LifecycleProofs`, `MCLifecycle` | theorems, constants |

Every module contains, beside the definitions of the code, a few operators marked
"Broken variant": the code with a plausible mistake. Nothing uses them; each
substitutes for the definition after it to show that a property notices.

### UpdateLoop

Data are version numbers: `dev[g]` counts the writes group `g` of the
controller's registers has taken, `mem[g]` is the version in the client's
memory and `sent[g]` the one queued for the server. `need` is the set of raised
flags, `snap` main's copy. One action per step of the loop that other threads
can see between: each of the four copies of a flag (lines 248-251), each request of a
read function, each reset, each send, SetTimeout. A Read... function makes one or
several requests (`RealtimeReads`, `StatisticReads`); if one of them fails, what those
before it brought is saved, and main calls the function again from its first request
(`RealtimeStarts`, `StatisticStarts`) until the tries run out. A writer's request is one
step (it holds `modbus_mtx`), and then each of its four Trigger... calls is a step of
its own, because main resets flags without that lock. The minute's message has only
some of the registers (`RealtimeGroups`): 0x3300 and 0x3301 are read with the others but
only go with the whole memory. The clock only says how old each update is.

* The flags are lost or seen in parts exactly as the unlocked bools allow.
* Faults: a failed read or a write whose answer is lost ("controller"), a
  message too long for the buffer ("send"), the end of the process ("exit").
  For such a message GetBuffer and sendmessage return -1 and the flags stay up; what
  the queue makes of it is in `ClientQueue`.
* An answer is assumed to belong to its request. `ModbusMaster` shows when it
  does not.

### ClientQueue

Messages are numbered in the order main pushes them; since only the front is
removed the queue is the interval `head..tail-1`. sendmessage is three steps
(test, pop, push) and Body's loop is test, take the front's address, send, pop,
sleep. `::send` reads the front in place. If main evicts that message meanwhile, its
memory is free, and what goes out is the message, or a newer one that main has pushed
into that memory (whole, ahead of its turn, and in its turn once more), or rubbish;
the pop that follows removes another message (`skipped`). Which newer message can stand
there depends on the allocator: any that was pushed since the eviction is allowed. A
message that does not fit the caller's buffer is pushed with the length -1 (`long`):
send takes it for sent without a byte, returns 0, and the message stays in front.
Connections are up, closed by the server, lost (no reaction) or
reset (SIGPIPE). Two operations of the queue at the very same time are a data
race and end the model in `process = "broken"`: nothing is claimed after that.
One assumption on time is written at the top of the module: a call of
sendmessage takes less than the half second of client.c:258. The receive queue
is left out; nothing reads it.

### ModbusMaster

Requests are numbered. Bytes are abstracted to pieces of answers: a whole one,
its first or second part, junk; the checksum accepts exactly one whole answer.
`pc` is Receive's state (idle is "wait") or the reconnect loop. Nothing in an
answer tells its request, as in the protocol when two requests ask for equally
many registers. `pending`, `answered` and `rest` are the controller.

### Mttp, MessageBuffer, ServerLink

`Mttp` is the protocol byte by byte. `EncodedCommand`, `Extended`, `Closed` are
the writer; `DecodeByte` is one round of AddMessage's loop with its flags
(`dle`, `stx`, `scd`, `ecd`), the index of the header and of the command header;
`AddMessage` runs it over the bytes and returns slots and bytes processed;
`Decoded` and `Taken` are the GetCommand loop. `MessageBuffer` adds commands in
every order; `ServerLink` sends such messages over a stream and decodes what a
recv returns, with the assignment of server.c:256 and the loop limit as they
are. A client that goes without a word leaves a silent connection, and the kernel ends
it only after a heartbeat was sent over it (`probed`). `ServerLink` keeps `expected`, the memory if each received message is saved
once. What one recv returns is the constant `Delivery`: one message (what the
client's pause, client.c:258, is there for), several whole ones, or any bytes.
No run uses the last: what a cut message decodes to is `CutIsPrefix`, and the
server saves it as it is, a register's first byte included.

### Memory, MemoryMirror

`Memory` is cMemory without its texts: a record of tables (`list`, the
addresses; `values`; `alternate`, the values users put over registers; `headers`,
the blocks whose header is known). Each accessor that takes `mem_mtx` for its
whole length is an operator. Indices start at 1, and 0 is the code's -1. Sizes of
arrays are left out: the configured tables fit.

`MemoryMirror` lets everything that touches the two memories interleave. Main of
the client either saves an answer of the controller or makes a pass; a pass is a
list of calls of SendMem (`EAll`, `ERealtime`: tracerclient.c:388-441), and a call
is either one critical section (`Gather`) or a walk through the registers, whose
accesses are steps: GetRegStartIndex and RegisterHaveAlternateValue take no lock
at all, and GetRegisterAdress gives its lock back before it reads (the guard's
scope is the `if` of memory.c:597). `clean` holds the mutex but, for those
accesses, is not atomic: between `BeginClean` and `EndClean` they may find the old
entry or a blank one. A walk that starts from an address it cannot find starts at
index -1 (memory.c:630, tracerclient.c:1073); what follows is undefined and the
model stops there (`pc = "undefined"`), claiming nothing.

On the server commands are saved one by one, and a display's answer is two steps,
the header of the block a range begins with and then the registers of the range
(memory.c:369-387). `Blocks` are what the controller answers with a header (function
0x43), `Shown` the ranges displays are answered: the range 0x3302 goes on to 0x331E, the
block that brings its header only to 0x331C, and 0x331D and 0x331E are asked for one by
one (`Single`, tracerclient.c:671-703). Messages between the hosts
arrive whole and in order, or are lost; `ClientQueue` and `ServerLink` say when
that is so. A pass begins when the messages of the one before have arrived or
been lost (passes that send are a minute apart).

Values that users put are numbered above those that are read, and `puts` keeps
which value was put at which address. `Wide` are the addresses at which readers
find 32 bit values; WideAssumption says of them and of the blocks and ranges what is
true of the controller's register list and of tracerclient.c: no block and no range
ends between the halves of a value, a 32 bit value is read in a block, and no two
blocks begin at the same register.

### CommandServer

A handler (`pc[k]`, one per slot) and the accepting thread (`acceptor`, `slot`)
are state machines whose steps are the system calls; `acceptor` goes on as main
in the destructor, which runs after the thread has been joined. A connection is a
record of the host's end, the caller's end and what is to be read. SIGPIPE
(mtcpserver.c:634 and the sends of answers) ends the process: `"killed"`. Where no
controller is connected a command for it goes through the handler's cMtcpClient to
the other host; that host's command server is the same program, and appears as
whether it is there, answers, refuses, or has vanished without a word; it may do so for
one handler and be back for the next. The handler's cMtcpClient has a socket of its own:
connect makes a new one whatever became of the last, a failed connect or send leaves its
socket open, and the destructor closes one only if `connected` is set. `leaked` counts the
sockets nobody can close any more, `failures` the forwards that failed. A caller that
stays but does not read its answer blocks its handler in ::send (`"blocked"`). The
other host is looked up by name (or address) when the accepting thread constructs a
handler: a name that does not resolve is dereferenced there and kills the process
(mtcpserver.c:1147-1154). An accept that fails for want of a descriptor leaves the
connection in the queue (135-138).
What the
commands do to the memory is in `MemoryMirror`, what they do to the controller in
`Lifecycle` and `UpdateLoop`.

### ModbusTcp

The thread of cModbusServer with select's result (`ready`), the loop variable and
the table `slots`. A register's value is its own address, so an answer shows which
registers it holds. The look-up is `Memory`'s `Span`, the last address is computed
modulo 2^16 as in modbusserver.c:232, and a table full of clients is checked by a
byte to each, which is what makes the kernel find out the vanished ones. The empty
entries behind the table have the address 0xFFFF and are found by it (memory.c:619), so
that a request for it is answered with no registers, not with an error. An accept that
fails ends the round for everybody (modbusserver.c:136), and the connection either waits
on for the next one (no descriptor left) or is gone (aborted). `peer`
follows TCP: after the caller has left, the first send succeeds and the second
raises SIGPIPE.

### Lifecycle

An instance of cTracerCtr is named after the thread that constructs it: main's has
the device (`lines`), any other has none. `Get`, `Construct`, `Open` and `Assign`
are the accesses to the static `Instance` and `TracerConnected` in their order, so
that a thread of the display or of a handler that sees TracerConnected after the
constructor has set it and Instance before it is assigned constructs a second
instance, and its constructor sets TracerConnected to false for everybody. `Check`,
`Lock` and `Talk` are modbus_send_request. The display's Body stands for all
threads that use the controller; handlers differ in what they do when forwarding is
refused. `abort` is what main has done about each thread, `remote` the process that
commands are forwarded to.

## 3. Runs

| Run | Checks | Bounds, and why they are enough |
|---|---|---|
| `update` | TypeOK, ServedByPass, ServerResetAfterSend, EventuallyFresh | one writer and one write, of the clock, the second request of its read function (which a failure of the first or of itself makes begin anew); two tries: one failed and one last; all faults; timeouts that expire at once. Flags are raised at any time by UserTrigger too, so a sequence of triggers falls into every gap of a pass; for every number of writers and writes the first three are theorems |
| `update_lost` (violated) | CompleteUpdate | tracerctr.c:113 "trigger a complete Update on Client and Server" |
| `queue` | TypeOK, NoEmptyPop, LossNeedsEviction, OverflowingChannel, EventuallyDrained | queue of two (the least that can overflow while its front is being sent), five messages, any of which may have the length -1, two broken connections: a message evicted while it is sent, one pushed into its place, and two more behind. The first four are theorems for any number |
| `modbus` | TypeOK, LagBounded, AnswersInOrder, RequestsReturn | four requests, four faults, two retries: answers may lag by three |
| `modbus_late` (violated) | AnswersItsRequest | modbus.h:69; no fault but a late answer |
| `message_roundtrip` | RoundTrip, CutIsPrefix | up to three commands for two slots; addresses and payloads of control bytes; every cut |
| `server` | EveryMessageSaved, NothingLeftBehind, ClientServed | three messages, three clients that leave in every way or fall silent, one select without data before a heartbeat, a failed accept, one message per recv |
| `server_third` (violated) | EveryMessageSaved | three messages in a recv; mttp.h:70 |
| `memory` | OverridesWerePut, AnswersKnown, OneReading, EventuallyMirrored | a block of two registers that are also a 32 bit value, one register behind it that displays are shown with it, outside the minute's range, one user register and coil; one answer of the controller, one put, one clean, one lost message: each can fall between any two accesses of any walk. With two answers the run takes longer than is practical; AnswersKnown and OneReading are theorems for any number |
| `command` | TypeOK, OneOwner, AcceptorNeverBlocked, LeaksNeedFailures, SlotsReclaimed, ShutdownEnds | two slots, two connections at a time and a listen queue of one: a handler that has closed its connection but not ended fills the table for the next caller; callers leave at any step of their handler, or stay and do not read; the other host vanishes or refuses; one forward of the first slot fails, so that the ones after it show what it costs; a look-up by name, which includes what one by address does; SIGTERM at any time |
| `modbustcp` | TypeOK, OneSlot, Aligned, Answered, LeftFreed, VanishedFreed | one slot and two callers, so that one meets a full table; two failed accepts, of one connection or of two; three registers with a gap: a request for two registers that are there, one over the gap, one whose last address wraps, one for the entry behind the table |
| `lifecycle` | TypeOK, OneOnTheLine, NoUseAfterDelete, StaysConnected, RequestsEnd, ShutdownEnds | both processes; the display and one handler beside main: two threads may construct an instance of their own, and three may ask at once; a line that fails, a peer that vanishes, a signal at any time. For any number of handlers the four invariants are theorems |

What the violated runs show is listed with its quotation under "findings" in
PROJECT.json:

* a trigger raised between the reads and the reset of a pass is erased
  (tracerclient.c:384). It heals at the next timeout (EventuallyFresh), up to 600
  seconds later;
* after a timeout, late answers are returned for later requests until the line
  is reopened (modbus.c:437). The lag never exceeds the number of failed
  requests (LagBounded);
* `processed` is assigned instead of added to (server.c:256): the third message
  of a recv is lost. With messages of different length a command may stay in a
  slot behind an empty one and be saved again later.

ClientServed excepts behaviours in which an accept has failed. After that (server.c:
96-103) `connected` is set while sock2 is -1, closeconnection (122-130) does
nothing without a socket, and no further client is accepted. It is no finding
because no document of the repository speaks of it. With `Delivery = "messages"`
NothingLeftBehind fails already for two messages of different length.

`memory` does not find everything in order. A clean in the middle of a walk makes
SendMem send a controller's value, or the blank 0xFFFF, as a user's override:
OverridesWerePut allows that (`Excused`), but only where a user had put something, and
never another register's value. The server's half of OneReading is stated for a client
memory nobody cleans, since such a half override mixes with the other half. AnswersKnown
is stated for two such memories, because a clean between a display's two reads answers
with blanks, and for the registers of the block that brought the header: the range
0x3302 ends with 0x331D and 0x331E, which are answered with 0xFFFF as long as their own
requests have failed or not been made. Overrides cleared on the client stay on the
server, so EventuallyMirrored speaks of the overrides the client has. No document of
the repository says otherwise, so these are hazards with a note, not findings.

The same goes for other properties that except what the code does wrong.
EventuallyDrained excepts a message of length -1 in front: it stays there, and all
behind it, until newer ones push it out of a full queue. OverflowingChannel allows one
stray message per overflow. LeaksNeedFailures says that cMtcpClient loses a socket only
where a forward fails, and one for each: it does lose those (mtcpserver.c:626-631,
1169-1181), and after a thousand of them a process has none left. Aligned excepts
answers over a gap of the table, which have the registers behind the gap in the places
of those that are missing.

Nor is everything in order at start-up. A request of the display or of a command
that falls between the constructor's first line and the assignment of `Instance`
(tracerctr.c:36-61, while a serial device is opened) leaves tracerclient running
with an instance that has no device and TracerConnected false for ever: nothing is
read from the controller until a restart. StaysConnected says that this is the only
way to lose it, OneOnTheLine and NoUseAfterDelete hold even then. RequestsEnd,
SlotsReclaimed and ShutdownEnds except a peer that vanished without a word, since
cMtcpClient::recv has no time limit (mtcpserver.c:1205); the ShutdownEnds of `command`
supposes besides that no caller blocks its handler for ever by not reading; and VanishedFreed supposes
that callers meet a full table again and again, since only that makes cModbusServer
look for clients that are gone.

Deadlock checking is off only where the number of messages, requests or commands
is bounded and the model may therefore run out of steps, the process exits, or
main's behaviour is no longer defined.

### Fairness

* `UpdateLoop`: main and the writers are threads (WF); time passes (WF). A request
  that is made again and again is answered again and again (SF, for what is written and
  what the same function asks for before it), and an eAll
  message fits again and again (SF): the code retries for ever, so only a
  permanent fault could keep the memory stale.
* `ClientQueue`: both threads run (WF); the server accepts eventually (WF on
  Connect, tried every 30 seconds). No fairness on breaking links or on calls.
* `ModbusMaster`: the thread that holds the lock runs (WF); every select has a
  time limit (modbus.c:460, 491, 523).
* `ServerLink`: main calls action() for ever and no call blocks for longer than
  its select; the kernel eventually reports a connection over which a heartbeat was
  sent that nobody acknowledges (WF on KernelGivesUp). It reports no other silent
  connection: that a heartbeat is sent is up to settimeout. The first is
  written `[]<><<action>>_vars`: it is what WF means for an action that is always
  enabled, and TLC need not run the decoder to find that out.
* `CommandServer`: the accepting thread and every handler run (WF); their selects
  have a time limit, and a recv from a peer that has not vanished returns. No fairness
  on callers (one may stay and not read for ever, which blocks its handler), on SIGTERM
  or on the peer's vanishing.
* `ModbusTcp`: the thread runs (WF) and the kernel gives up retransmitting to a
  client that vanished (WF on GiveUp, TCP's retransmission timeout). Callers read their
  answers, and accept does not fail for ever (MaxFaults): while it does no round gets
  beyond it, and nobody is answered.
* `Lifecycle`: each thread runs (WF), and one that finds the controller's mutex free
  again and again gets it (SF on Lock). POSIX does not promise this, but main sleeps
  and the display and handlers wait for the next request between two locks, so that
  the mutex is free for milliseconds with its waiters awake.
* `MemoryMirror`: both main loops run (WF) and a clean ends (WF). A complete pass
  begins again and again: the timeout for it comes round for ever, but main may be
  in a shorter pass whenever it does, hence SF. No fairness on users, displays,
  answers or losses, all of which are bounded.

## 4. Proofs

All are statements about every value of the constants allowed by the named
assumptions of the module.

* `UpdateLoopProofs`. TypeCorrect: `TypeOK` alone is not inductive, because the
  index into the lists of requests is shared by three phases; `IndexInRange` says
  where it may stand. PassServed rests on `PassInv`: while a pass owes something
  to triggers raised before it (`base`), it found all four flags up at its first
  sample, and since only main lowers flags it samples all four
  (`SampledWhenOwing`); then the groups already polled are as new as `base`
  (`PolledSoFar`; a function that begins anew only goes back) and, after SendMem(eAll), so is what was sent
  (`SentWhenOwing`). The versions of memory and controller only grow.
  ResetAfterSend: between SendMem and the reset of ServerStatistic nothing
  changes the memory, for only main does.
* `ClientQueueProofs`. The invariant is `IInv`: besides the types, main evicts
  only from a full queue (`Evicting`), the message being sent is the front or
  has been evicted (`Sending`), and what was skipped or sent from freed memory is paid
  for by an eviction that happened since (`Accounting`); `Progressing` says that what
  was delivered in its turn lies before what is still to be sent. The bound of the
  queue, the pops, the loss and the implementation of `OverflowingFifo` follow.
* `ModbusMasterProofs`. `InOrder`: the pieces in frame and input are sorted by
  the request they answer and lie between the last answer returned and the last
  begun; `Counted`: the number of requests is at most that of the last answer
  plus the failures. LagIsBounded and Ordered (implementation of `LossyFifo`)
  follow.

* `MttpProofs`. Encoding and decoding are recursive functions over sequences of bytes.
  What such a function computes is proved by describing the result, not the
  computation, and by showing that no number is the least at which the description
  fails (`Induction`, from the well-foundedness of `<`).

  The writer: `LaidOut` says where each part of a concatenation stands (`Flattened`,
  for FlattenSeq), `CommandAt` where each byte of a command stands in its encoding, one
  wide or, if it is a DLE, two (`CommandLaidOut`). `BufferHolds` is the invariant of
  `MessageBuffer`: the buffer is the header and the commands added, each at its offset
  (`MessageAt`), and a closed one has DLE ETX behind the last (`BufferInvariant`). The
  length field may overflow; nobody needs it to be right, since the decoder skips it.

  The reader: `Standing` says in which state AddMessage is after n bytes of such a
  message: in the header, between two commands, within command j after k of its bytes
  (with or without the first of a doubled DLE), or at the end, because of ETX or of the
  last slot. The slots then hold the first j commands and a part of the next (`FilledSlots`,
  `FillingSlots`). `StandingStep` shows that one round of the loop leads from one such
  standing to the next, whatever the byte, and `DecodingStands` that this goes on.
  At the last byte of the message, and at any byte, the standing says what GetCommand
  then hands out: RoundTrip and CutIsPrefix, for all commands, addresses and
  payloads, any number of commands, and any number of slots.

  The server: `DecodeMessage` applies this to the decoding loop. Started with free slots
  on one whole message it saves each command once, in order, and leaves the slots free.
  `LinkInvariant` carries it through the steps of `ServerLink`; EveryMessageSaved and
  NothingLeftBehind follow. These theorems have the hypothesis `WholeMessages`: one recv
  returns one message (`Delivery = "message"`), of at most MAX_COMMANDS commands. It is
  what the client's pause between two sends is for, and it is needed: `server_third`
  refutes EveryMessageSaved without the first half, and of a longer message AddMessage
  decodes only what it has slots for. `LinkControlled` has no such hypothesis. It says
  of the flags and the socket that only a failed accept makes the server believe in a
  connection it does not have (`DeadOnlyByFault`, why ClientServed excepts that case and
  no other), and that unread bytes are lost with their connection (`NothingOfOthers`).
* The look-up in `Memory`'s ascending tables is needed by the two modules that follow, and
  each has the lemmas on it. From an ascending table GetRegister takes the entries from
  that of the first address up to the last one not above the last address (`SpanTakes`).
  That there is such an entry is proved by counting (`LastExists`: the entries up to an
  address are as many as the index of the last of them).
* `MemoryMirrorProofs`. An override travels through four places: the client's
  memory, the message being built, the channel, the server's memory. OverridesWerePut
  speaks of the last only; `Held` and `Carried` follow it through all four: the
  client's overrides were put, and what is under way or on the server is in `Excused`:
  it was put, or, once the client's memory has been cleaned, it is a reading under the
  address of a register that somebody put a value over. `Tested` bridges the two
  accesses of SendMem: a value was put over the register TestAlternate saw, and as long
  as nobody cleans it is still an override when GetAlternate reads it, since only a
  clean takes overrides away, while setreg and the saving of answers keep them. The lemmas on Save, Put and Put32
  use that the tables are sorted (MirrorAssumption): that is why the entry after a
  register is the one at the next address, if there is one (`TwoOverrides`).
  OverridesAreUsers follows for all tables, ranges and bounds.

  OneReadingCorrect: the registers take the same way. `Whole` says of both memories
  that the halves of a 32 bit value are equal (readings are numbered), `WholeCommand`
  (in `Carried`) that a command on its way writes both halves, with one reading, or
  none; `Planned` that SendMem's ranges do not end between them. An override is told
  from a reading because `Told` bounds what is put.

  AnswersKnownCorrect needs a second invariant, `KInv`, on top. `Walk`: in the calls
  SendMem has still to make, a header comes after all registers, or these are already
  in the message (`Ordered`). `Flow`, for each block: the client has its registers if
  it has its header, and either no header has left the client (`Quiet`) or all that
  is on its way was gathered when the client knew the block (`Settled`): nothing in
  it brings a blank, and every header is preceded by the registers in the same
  message (`Led`). Losing a message, or saving one command of it, keeps this. So
  when a display has found the header, the registers are known, and stay so until
  somebody cleans (`AskedFor`).
* `CommandServerProofs`. The parts of OneOwner hold together: every open connection
  belongs to a handler, to one only (`Owned`, `Exclusive`), and stands in the listen
  queue at most once, before. `Holding` adds that a thread in the middle of a command
  has a connection and a free slot has none; so an accept fills a slot nobody uses.
  `Waited` says for AcceptorNeverBlockedCorrect what the accepting thread has made
  sure of before it joins. For LeaksNeedFailuresCorrect a socket is lost in two steps:
  a failure leaves it open behind the handler's back (`Stale`), the next connect or the
  destructor forgets it; `Accounted` counts both, and says that `connected` is set
  as long as a forward has the socket in use.
* `ModbusTcpProofs`. OneSlotCorrect: the parts of OneSlot (`Owners`), and `Pending`,
  that between select and the end of what it found somebody waits to be accepted.
  AlignedCorrect: an answer is `Span` from the first to the last address; it holds as
  many registers as asked for only if these are all there, since a table in ascending
  order has at most that many between two addresses that far apart (`SpanAligned`).
  `Sound` carries this from the answer to the caller who reads it.
* `LifecycleProofs`. `Roles` says which thread may be where, `LockInv` that who
  waits for the line or talks on it uses main's instance and who talks owns its lock
  (OneOnTheLineCorrect). `JoinInv` and `AliveInv`: until main has stopped, what
  anybody holds is alive, and main deletes only after all threads have been joined,
  which they are when they have ended (NoUseAfterDeleteCorrect). `AloneInv` says what
  the singleton is as long as no other thread has constructed one
  (StaysConnectedCorrect).

In `ClientQueueProofs` the bound of the queue (`QueueBounded`, client.c:190) is a
theorem, for every size, and no run checks it beside.

Every safety property of a run that passes is a theorem (under `WholeMessages` for the
two of `server`), and so are the two refinements (`OverflowingFifo`, `LossyFifo`). Only model-checked: all
liveness, since fairness and ENABLED are outside the prover.

## 5. Not modelled

* Configuration: reading the file is parsing of text, done once before any thread
  runs. The models take the tables it yields as constants, the same on both hosts.
* Of `cMemory`: the texts of values and lists (their layout is read by people),
  switches (PutWakeUp and its like: a text command turned into one register write),
  and the bytes of a display's answer beyond which registers it holds.
* The command server's text formats; what a command does is in `MemoryMirror`,
  `UpdateLoop` and `Lifecycle`.
* Logs, the test programs and the scripts.
* Sizes of byte buffers (a frame of 256 bytes, messages of 500, a receive buffer
  of 8192), and memory safety in general.
* In `ServerLink`: coils, headers and user values (they are saved like
  registers; `MemoryMirror` has them all), and messages the server sends to the
  client other than heartbeats.
* Data races on the plain bools beyond interleaving: each access is atomic.

## 6. Plan

Done: the chain of an update from controller to server, each link by itself, the
memories at its ends, the three servers that read and change them, and the life of
both processes. What would come next:

1. A memory with two user registers, where PutRegStr32 (memory.c:2074) and
   GetRegStr32 may disagree about which entry is the high half.
2. `Mirror`: `UpdateLoop`, `ClientQueue` and `ServerLink` composed, implementing
   "the server's registers are some earlier state of the controller's, and
   eventually the present one".
3. Proofs: the refinement of `Mirror`, and what the decoding loop makes of two messages
   in one recv.
