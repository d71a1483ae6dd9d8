# NetDebugger: a verification development

NetDebugger is a Windows (MFC) tool for testing network and serial devices. The
user picks a *device* (a TCP client, a server, a UDP socket, a serial port, a
WebSocket ...), starts and stops it, and sends to and reads from its *channels*.
These TLA+ modules model the parts whose correctness depends on the order in
which threads act or on what is done with bytes, check them with TLC on small
instances, and prove the most important facts for instances of any size with
TLAPS.

All source paths below are under `src/NetDebugger/`.

## 1. Inventory

### Threads

* The **UI thread** runs the dialog (`NetDebugger.cpp:121-123`): button
  handlers, pop-up windows, timers, and every function sent to it.
* `2 * processors` **io threads** run `m_IOContext.run()`
  (`NetDebugger.cpp:113-119`): completions of asynchronous operations and the
  tasks posted by devices. There is no strand: two completions of one channel
  may run at the same time.
* A detached thread per "Save" (`NetDebuggerDlg.cpp:1450-1454`), and one per
  Start of a UDP device (`UDPStream.cpp:172`).

`SendUIThreadTask` and every method of a control called from another thread end
in `SendMessage`: the caller waits until the UI thread is between two handlers.
This one fact shapes all the models.

### Components

| Component | State | Correct when | Module |
|---|---|---|---|
| `CommunicationDevice` (`IAsyncStream.h:101-179`) | `m_Status`, four callbacks | the last status shown is the status | `Device`, `MainWindow` |
| Properties (`IAsyncStream.h:203-651`, `EnumProperties` of each device, `CDPropertyGridCtrl.cpp`) | setters, panel, profile | device, panel and profile agree | `DeviceProperties` |
| Single TCP client (`TCPClient.cpp:335-386`) | one channel for life | a started device can be stopped; nothing leaks | `TCPSingleClient` |
| TCP multiple client (`TCPClient.cpp:390-532`) | slots, two atomic counters | the counters tell the truth, the report is made once | `TCPMultipleClient` |
| Forwarding server (`TCPSwitch.cpp`) | acceptor; pairs of channels with `m_Target` | both ends close together, each reported once | `TCPForwardServer` |
| TCP server (`TCPServer.cpp`) | acceptor, channels | it goes on listening, nothing stays after `Stop` | `TCPServer` |
| UDP (`UDPStream.cpp`) | socket, channel per endpoint | errors end in Disconnected, one channel per endpoint | `UDPStream` |
| Serial port (`SerialPort.cpp:1-478`) | port, `m_Writing` flag | a write is done or reported | `SerialPort` |
| Serial switch, serial-to-TCP (`SerialPort.cpp:482-1538`) | two ends with `m_Target` | both ends open and close together | `SerialSwitch` |
| WebSocket clients and server (`Websocket.cpp`) | slots, counters, handshake per channel | as for TCP | `WebSocketClient`, `WebSocketServer` |
| WebSocket connection (`Websocket.cpp:24-600`) | request, answer, frames | messages arrive whole | `WebSocketSession` |
| MQTT (`MQTTClient.cpp`, not built into the program) | transactions, packet identifiers, ping timer | every handler is called once | `MQTTClient` |
| Main window (`NetDebuggerDlg.cpp`) | `m_ChannelsMap`, buttons, status pop-up, `m_Closed` | what is shown is so; the program ends | `MainWindow` |
| Receive buffer (`NetDebuggerDlg.cpp:762-865, 1370-1503`) | `m_ReadBuffer` and its mutex, the limit | no byte lost, saved in order, no deadlock | `ReceiveBuffer` |
| File send (`NetDebuggerDlg.cpp:1044-1128`) | `FileSendContext`, a pop-up | success means all was sent | `FileSend` |
| `DataBuffer` (`DataBuffer.cpp`) | list of blocks | a flat sequence of bytes | `DataBuffer`, `ByteSequence` |
| Pop-ups (`PopWindow.cpp`) | window table, posted messages | one window per identifier | `PopWindow` |
| `BlockingQueue` (`BlockingQueue.hpp`, unused), controls, codecs | | | not modelled |

How they interact: the window calls `Start`, `Stop`, `Write`, `Close` on the UI
thread; a device calls `OnDeviceStatusChanged`, `OnDeviceChannelConnected` and
`OnDeviceChannelDisconnected` from any thread; `ChannelConnected` starts the
read loop (`ReadChannelData`), whose data ends in the receive buffer; the
handler of Disconnected closes every listed channel, and a close notifies the
device, which calls the handler again.

What is hard is listed, line by line, under `hazards` in `PROJECT.json`: flags
tested on one thread and reset on another, completions that arrive after the
operation was cancelled, notifications that overtake each other, a mutex held
while waiting for the UI thread, counters read half updated, a restart that
meets what its predecessor left.

## 2. Modules

### TCPSingleClient

`status`, `opened`, `owner` are `m_Status`, `m_Opened` and whether `m_Device` is
set. `sock` names the attempt whose `async_connect` opened `m_Socket`. An
*attempt* is one successful `Connect`; `chain[a]` walks through the resolve, the
connect and the lambda of `Start`, one step per call that another thread can
come between; `op` and `on` are the read loop that `ChannelConnected` of the
attempt starts, the writes of the user, and the socket each was issued on. The
window is `listed`, `shown`, `button` and `popup`.

Three histories are kept only for the properties: `cut` (attempts in flight when
`m_Opened` was reset), `late` (one of them reported success all the same) and
`lost` (the channel was closed before `SetOwner`).

A handler that runs on the UI thread is one step, unless it starts an operation
or tests the flag that others race for: `ClickConnect` and `Connect` are two
steps of `Start`, `ClickDisconnect` and `StopNotify` two of `Stop`. A completion
that calls the window waits for `ui = "idle"`. `StatusChanged` stores the status
in one step and tells the window in a later one; since `m_Status` is read again
for the call, the window may be told what another thread stored meanwhile
(`TellWindow`, `NotifyWindow`).

### TCPMultipleClient

The same channel, with the slots of `m_Channels`, the two counters and the tasks
of `Start` and `Stop`, which run on io threads at the same time as each other
and as the completions. Every increment, reset and comparison of a counter is a
step. The histories `cutShort`, `refused` and `raced` name the circumstances
under which a property makes no claim.

### TCPForwardServer

`pair[p]` is one `async_accept` and what follows; the two channels of the pair
have their own `opened`, `target`, read loop `rd` and `closer`. `CloseChannel(ec)`
is followed step by step: the compare-exchange, the other end's
compare-exchange, the notification of the other end, its own. While the UI
thread closes channels itself (`toClose`, `ui`), no other thread's notification
gets through.

### ReceiveBuffer

The threads of read completions, the threads of "Save" and the UI thread around
`m_ReadBufferMutex`. An automatic save is five steps, three of which wait for
the UI thread. `buf` and `file` are sequences of block numbers, so order, loss
and duplication are visible.

### SerialPort and FileSend

`SerialPort` is the device that is its own channel. `port` is the open whose
handle `m_SerialPort` has; `io` and `on` are, per read loop and per write, where
it is and the handle it was issued on. A write that finds `m_Writing` set spins
in the code; the model takes one test: it gets the flag or gives up. A failed
read or write walks through `CloseSerialPort` step by step (the test of
`is_open`, the close, the two notifications), and so may close or report a port
that was opened after its own; the history `crossed` says that it did. `Start`
is four steps on the UI thread, since read and write errors of an earlier open
come between. Its Connecting pop-up cannot be closed, as `Start` ends before the
UI thread serves another message.

`FileSend` extends `SerialPort` with one file: `block` is what was read last,
`result` what its pop-up says, `wire` the blocks that were written. The block
loop is the write `File`, whose completion handler begins the next write on the
thread it runs on; `SendBlock` is the body of `SendFileBlockToChannel`, run
by the UI thread for the first block and by a completion for the others. The
history `skipped` holds the blocks whose write gave up.

### Device, TCPServer, WebSocketServer

`Device` is what the devices of the run `devices` and the WebSocket clients
share: the status, the connect button, the list, and where the UI thread is in
`Start` or `Stop`. A notification of an io thread waits for `ui = "idle"`.

`TCPServer`: `accept[c]` follows the `async_accept` that owns channel `c`, from
its start to the handler that lists the channel and accepts anew; closing the
acceptor cancels it, but not a completion that is queued already. `io[c]` is a
channel's read and its write, which fail on their own and both walk through
`CloseChannel`. The histories `cut` (taken over before the acceptor was closed)
and `deaf` (an accept failed) name the exceptions of the properties.

`WebSocketServer` extends it, as its code repeats it: the accept handler begins a
handshake (`hs`) and accepts at once, the channel is listed once the answer is
written, and the compare-exchange of `m_Opened` decides who reports a close.

### UDPStream

`thr[a]` is a connect thread, or the device's own reads and writes when they
fail. `UDPBasic` is a channel of itself (`main`) and keeps one `UDPBasicChannel`
per remote endpoint; `entry` is the table of endpoints for one such endpoint,
`looking` the receive handlers between their datagram and the look-up. The
history `stale` says that a channel closed twice removed the entry of its
successor, `bereft` that a socket was closed under a thread about to report it.

### SerialSwitch

Two ends, `A` and `B`, of either device: `ends` are those with `m_Opened` set,
`reads` and `forwards` the loops on each, `closer` the threads in
`ChannelDisconnectedNotify`, `conn` the TCP connect of the second device. The
ends live as long as the device, so the leftovers of a session act on the next
one. The histories are `left` (a failed `Start` left an end open) and `outrun` (a
connect reported success while its pair was being closed).

### WebSocketClient

Both clients: `slot` is `m_Channels`, `hs[c]` walks through the resolve, the
connect, the upgrade and the handler with its report. Only a failed connect closes
a channel; after a failed resolve or handshake `m_Opened` stays set, which
`CanBeStopped` and `ConnectingIsDecided` are about.

The posted loops of the multiple client run on two io threads, as Stop may be
called while the device is Connecting (`NetDebuggerDlg.cpp:596-601`). Start's is at
slot `startAt`; `TakeSlot` fills the slot and takes its channel in hand
(`starting`), and only another step, `ConnectChannel`, opens it. Stop's is at slot
`stopAt` and closes the channel, waits for the window to drop it from the list, and
empties the slot in three steps (`CloseSlot`, `EraseSlot`, `EmptySlot`), then resets
the counters one by one. Between any two of these the other loop may go on, so
Start may open a channel that Stop has closed, or has left without a slot: the
history `missed` keeps these (`BehindStop`), `cut` those whose connect was under way
when Stop closed them. A completion counts the connect and the failure in two steps
(`CountChannel`, `CountFailed`).

Two pairs of steps are one. Filling the slot and copying its pointer
(`Websocket.cpp:1196-1199`): a Stop that empties the slot between them leaves a null
pointer, or a race on the `shared_ptr`, and the program does not go on, so there is
no step after it. `SetOwner` and `ChannelConnected` in the handler (1218-1219):
nothing looks at the owner of a channel that is neither listed nor read.

### WebSocketSession

What one connection carries: the URL and its parts, the request and its answer,
then frames. `wire` holds a frame's header byte by byte and the rest as one item,
so that each of `ReadPacket`, `ReadPacketLength` and `ReadPacketData` takes what
it takes in the code, and misreads what it would misread. A header field is the
line and the characters its reader cuts off. A digest is an injective function.

### MQTTClient

`ops` are the asynchronous operations, each of the connection it was begun on;
one whose result is queued keeps it, whatever happens before its handler runs.
`mTransactions`, `mPacketIdentifier` and the search of `BeginTransaction` are the
code's, over a smaller space of identifiers; a search that never ends (`SearchEnds`)
is a call without a step. The histories say how often each handler was called, what
the user was last told, and whether a packet was not read as it was written
(`misread`) or a handler of an older connection acted on a newer one (`crossed`).

### DataBuffer and ByteSequence

`blocks` is the list with the bytes of each block, `total` is `m_TotalUsed`; each
call follows the code's cases at the ends of blocks. `ByteSequence` is what a
buffer promises: a sequence, its length, and what each call makes of them.
`DataBuffer` instantiates it with the concatenation of the blocks, and
`BufferIsBytes` is its specification: the refinement. A call that the code does
not carry through sets `torn`, and nothing is promised after it. These are an
`Insert` or `InsertFill` within the sequence that overflows its block (the tail
of the block is left in front of what spills), a `Remove` or shrinking `Resize`
over the end of a block (the size is miscounted), and a `Replace` that goes
through either. A `Compress` that would run past the list and a `Replace` that
would never return are no steps. A `Replace` by nothing of a whole block reads the
length of the block it has freed (`DataBuffer.cpp:526`), but only compares it with 0
and copies 0 bytes: whatever is read, the result is the same.

### PopWindow and MainWindow

`PopWindow` is the table of windows and the messages posted to the window
procedure. `MainWindow` follows `OnDeviceStatusChanged` step by step on the UI
thread and two io threads at once (`pc`, `of`, `arg`, `made`), with the pop-up
that is shown first and stored later, the tasks sent to the UI thread, the
exchange of the device, `OnClose` and its spinning task, and the pop-up of a
save. A device is reduced to what the window sees: "one" is closed by Stop on
the spot, "many" by a posted task. Messages posted to a window come before
input and timers (`UIInput`). Two histories: `missed` (a Close came before the
pop-up it was for had been stored), `vain` (OnClose stopped what was not
running).

### DeviceProperties

The table of every device class, with the setter of each property as a function
of the text typed (a number kept in 16 or 32 bits, a flag, a text, one that may
throw), whether a started device still takes it, and its editor. A behaviour
follows one property of one class through typing, choosing from the list,
refusal, saving, a start, and a new device that loads the profile. Values shown
only and never edited are left out.

### MC modules

`MCTCPSingleClient`, `MCTCPMultipleClient` and `MCWebSocketClient` add a symmetry
set; `MCTCPForwardServer` names the channel the user writes to. `MCDevices`
composes `Device` with the six devices that extend it, one class at a time, as
the combo box does. `MCBytes` and `MCWindows` hold parts that share no state and
run them side by side (`part`), with a `VIEW` that leaves out what no step
depends on: the other parts, and arguments of handlers that have ended.

### Abstractions all modules share

* An asio operation is its completion: data, a cancel, another error. What the
  peer does is nondeterministic. A host name resolves to one endpoint.
* Unsynchronised accesses to a socket or a weak pointer by two threads
  (`m_Socket`, `m_Target`, `m_Device`) are taken as atomic steps. The code has
  these data races; the models cover the orders the accesses may take, not a torn
  pointer.
* `compare_exchange_weak` does not fail spuriously, as on the x86 targets of the
  build.
* The controls a status handler enables, and the list it clears, change in one
  step. In the code these are several messages.
* `PropertyChanged` only refreshes the property panel; it is left out but in
  `DeviceProperties`.
* A type predicate (`...TypeOK`) documents the range of a module's variables.

## 3. Runs

| Run | Instance | Shows |
|---|---|---|
| `single` | 2 attempts, 1 write, fair | see below |
| `singlebutton` | 1 attempt, fair | finding: the disconnect button goes dead |
| `multi` | 1 or 2 slots, 2 attempts | see below |
| `forward` | 3 accepts, 1 client, 1 injected writer | see below |
| `receive` | 2 readers, 1 saver, limits 1 and 2, 4 blocks, fair | see below |
| `receiveemptied` | 1 reader, limit 1, 2 blocks, fair | finding: deadlock of an automatic save with the UI thread |
| `filesend` | 2 opens, 1 user write, a file of 2 blocks, fair | see below |
| `filedropped` | 1 open, 1 user write, a file of 2 blocks | finding: a file with a dropped block is reported as sent |
| `devices` | 6 classes, 3 channels, 2 connect threads | see below |
| `websocket` | 2 classes, 2 channels, 2 slots, 3 clicks | see below |
| `bytes` | blocks of 2 bytes, 5 bytes; 2 messages; 2 handlers, 2 connections | see below |
| `windows` | 2 pop-ups, 2 devices, 2 io threads, 2 starts; every property | see below |

**single.** `OpenedIsServed`: `m_Opened` is never left set with nobody to reset
it, although a failed resolve does not reset it. `StrandedHasCause`: a device
that is started, has nothing in flight and cannot be stopped got there by a cut
connect that reported success, or by a close before `SetOwner`, and in no other
way. `OpenSocketIsOwned`: the same for a socket nobody can close.
`ConnectingEnds`: fairness makes Connecting end. Two attempts are what these
need: the new attempt and the remains of the one before; a write adds the third
thread that may close the channel.

**multi.** `SessionIsCounted`: as long as no Stop cuts a session short, the two
counters are exact however completions interleave, the session is reported at
most once, and Connected has a channel, unless one completion reported between
the two counts of another. `NothingSurvivesStop`: what a Stop leaves open;
`ConnectingEnds`: a device with nothing left to do is not Connecting. Two
attempts serve as one session of two slots, or as two sessions of one slot with a
Stop between them. A session of two slots restarted is not in the run.

**forward.** `NotifiedOnce`, `PairClosesTogether`, `OpenHasTarget` and
`ClosedClientUnlisted` are about one pair: its two ends, closed by two read
loops, forwarded writes, injected writes and the UI thread at the same time.
`ServerAccepts` and `OnlyStaleSurvivesStop` are about the accept chain, for which
three accepts allow one that is answered, its successor, and one of a restarted
server. Two connected pairs do not interact but through the UI thread, and make
the instance some ten million states large; the run has one, and the proofs
(section 4) cover any number of pairs.

**receive.** `ReceivedIsKept`: no block is lost, doubled or reordered between the
buffer and the file, for every interleaving of two readers with a clear, a save,
a change of the limit and of the automatic save; `UIReturns`: a handler waiting
for the mutex gets it, unless an automatic save holds it. Four blocks with a
limit of one or two make at least one save of more than one block follow another.

**filesend.** `PortIsServed`: at most one write is outstanding, `m_Writing` is not
left set by any error or close, and once every thread is done, the port, the
status, the list and the window say the same, unless an operation of an earlier
open closed or reported a later one (the one way in which they come apart).
`FileArrives` relates what the pop-up says to what was written, in its order;
`SendEndsOnceClosed`: a send does not outlive its port. Two opens give the
leftovers of the first a second one to interfere with; two blocks and a user's
write give `m_Writing` a competitor at each of its uses.

**devices.** For the servers, `ClosedIsReported`: a closed channel leaves the
list; `NothingElseSurvivesStop`: what is open after Stop had been taken over
before the acceptor closed; `Listening`: while Connected an accept is
outstanding, or one has failed; `ReportedOnce`: a WebSocket channel closed from
several threads is reported once. Three channels allow an accepted one, one
handed over while Stop runs, and one of the restarted server. For UDP,
`ConnectedHasSocket` and `OneChannelPerEndpoint`: two connect threads are a start
whose thread is still under way when it is stopped and started again; two
look-ups are two datagrams at once. For the serial forwarders,
`ConnectedHasEnds` and `ForwardingGoesOn`, over restarts without bound. Each
property excepts, by a history variable, the way in which the code breaks it:
the histories are listed with the modules.

**websocket.** `CanBeStopped`: a single client that is not Disconnected can be
stopped, unless its channel was closed before it knew its device.
`ConnectingIsDecided`: the multiple client does not stay Connecting, unless a
Connect was ignored because its channel was still open. `NothingSurvivesStop`:
once Stop has left the slots empty, no channel is open but one that Start's loop
opened behind Stop's (`missed`), and none is listed but those and the ones whose
connect was under way (`cut`). It says nothing of a channel in a slot that Start
filled after Stop had passed it. Two slots, since the counters decide between the
last completion and the others, and the loops can be in the same one or not. Three
clicks of the multiple client (connect, disconnect and close buttons together; the
single client's are unbounded) are a Start, a Stop that overlaps it, and a restart
over what they left; four, in eight million states, pass as well.

**bytes.** `BufferIsBytes`: the refinement above, as a property of the
composition; blocks of two bytes and five bytes make every edit meet no, one and two ends of blocks. `MessagesArriveWhole`:
lengths on both sides of each change of form (125/126, 65535/65536) and 0;
a client that lost bytes read together with the answer is not followed.
`UpgradesAgree`: a client that takes itself for connected was answered by a
server under its path and to its own key. `AnsweredOnce`: no handler of a
transaction is called twice, none is lost. `EndIsReported`: who was told of a
connection is told of its end. `StreamInStep`: packets are read as they were
written, unless an old handler went on on a new connection. Six identifiers make
the search wrap around within the run; in 65536 it does after as many requests.

**windows.** `NoStatusPopLeft`: once a status is settled, no pop-up says that the
device is being connected or closed, except one that a Close missed.
`PanelAgrees`: the property panel shows the device that is current as started or
not, in whatever order reports came. `ExitIsReached`: a program the user has
agreed to end is not left waiting, unless Stop had nothing to do.
`SettingsAgree`: the profile gives a new device the value this one has, and the
panel shows it, but for a value refused by an open port. Two io threads are two
reports at once, two devices an exchange with a report of the old one under way;
two identifiers are the status pop-up and one more. `AllNumbers` has a value on
both sides of each limit of a setter, closed under the truncation to 16 bits.

Deadlock is not checked: the systems stop when the bounded supply of attempts,
accepts, blocks or messages is used up, and a device may rest when the user does.

### Further disagreements

Not all that the models show contradicts a sentence of the repository; these
have no run of their own, and are named in the properties as exceptions:

* A failed TCP connect lists its channel after the list was cleared
  (`TCPClient.cpp:352-354`), although `res/language.ini:205` calls it a list of
  established channels.
* "Connections" is a difference of two counters (`TCPClient.cpp:426`) that a Stop
  may reset between the two increments of a failure: it wraps around
  (`res/language.ini:263`: "The number of connections completed.").
* `StatusChanged` reads `m_Status` again after storing it: two pop-ups "closing"
  may be made, of which one stays; an old device's report under way during an
  exchange is shown for the new one.
* `OnClose` waits for ever when the Stop it calls finds nothing to stop.
* The serial-to-TCP forwarder reports Connected and lists and reads its TCP end
  before the connect is done, and lists it again when it has failed.
* WebSocket: a URL without port keeps its path in the host; a header given
  without a colon loses a character; bytes read together with the answer are
  dropped; an empty frame in clear is taken for a reset; control frames are
  delivered as data; the client does not compare the accept key.
* WebSocket: a Stop during Connecting may leave a channel open and listed that is in
  no slot, so that no later Stop finds it (`Websocket.cpp:1199, 1252`), and a client
  whose channels have all failed may report Connected, since the last to be counted
  need not be the last to count its failure (1209, 1214).
* MQTT: the code read from CONNACK is the "session present" byte; PINGREQ is
  answered by PINGREQ; identifiers advance by two; when none is free the handler is
  forgotten, or, if the field is 0, the search goes on for ever with the mutex in
  hand (`MQTTClient.cpp:913-926`); two handlers do not fill the table in a run,
  `MQTTAnswers` is proved for any number. Handlers of an older connection act on
  the newer.
* `DataBuffer`: the calls listed under its module.

### Bounds

`Attempts`, `Pairs`, `MaxBlocks`, `MaxOpens`, `Blocks`, `Channels`, `Threads`,
`Lookups`, `Loops`, `MaxSize`, `MaxCall`, `MaxMessages`, `MaxConnects`, `Starts`, `Clicks`,
`WindowIds` and `Numbers` bound how often the user or a peer starts something, or
the values told apart; they are marked as bounds where they are declared or used.
`TCPMultipleClient` also bounds overlap: a new Start waits for the task of the
one before, a new Stop likewise, and the number of slots changes only while no
task runs. `notified` and `reported` count up to two.

### Fairness

Only io threads and the message loop are fair: a completion that can run does,
and the UI thread finishes the handler it is in (weak fairness per thread). A
resolve and a connect end, since the operating system times them out. The user
is under no obligation, nor is the peer: reads and writes on an open socket may
wait for ever. In `ReceiveBuffer` the threads need strong fairness, because what
they wait for (the UI thread between two handlers, the mutex) comes and goes;
Windows serves sent messages before posted ones, and the mutex is handed on by
the scheduler. In
`FileSend` only the block loop is fair, and its write only once its handle is
closed: the peer's flow control may hold a write on an open port for ever.
The other modules state their properties as invariants of quiet states ("nobody
has anything left to do, and yet ...") and need none.

## 4. Proofs

Eight modules hold the theorems; PROJECT.json lists those a reader should know
of. Every invariant of a passing run, and the refinement of `DataBuffer`, is proved
for all values of the constants that the named assumptions of the modules admit.
Each proof follows the same plan: an inductive invariant, which TLC checked on the
run's instance first; a lemma per action that the action keeps it; and a theorem
per property that reads it off. What follows says of each invariant what it needs
beside the properties, and why.

`TCPSingleClientProofs` proves, for every set of attempts and of writes, that
the four invariants of `single` hold. The inductive invariant is

    TypeOK /\ ReadsOnceAdded /\ OpenedIsServed /\ CutUnlessOpened
           /\ StrandedHasCause /\ OpenSocketIsOwned

Two conjuncts are not properties: `ReadsOnceAdded` (an attempt's read loop does
not run before the attempt has listed its channel) keeps `OpenedIsServed` from
being broken by the loop of an attempt that is still in flight, and
`CutUnlessOpened` (while `m_Opened` is reset, whatever is in flight is in `cut`)
is what makes a report of success after a close count as `late`. Lemmas state
what each helper (`CloseSocket`, the window's handlers) does to the typed
variables, so that the step of each action cites them and no more. The
assumptions are those named in `TCPSingleClient`: `NoSock` is no attempt, and
attempts and writes are disjoint.

`TCPForwardServerProofs` proves the type invariant and the six invariants of `forward` for every set
of pairs, of answering clients and of channels the user writes to: two pairs do
interact, through the UI thread that closes them one by one, and TLC's instance
has one. The inductive invariant `IInv` is `TypeOK`, nine facts about channels
(`ChannelInv`) and four about the server (`ServerInv`). The properties about
notifications need to know who will still report a channel: a channel is closed
either by a thread of its own or by that of its other end, never both
(`CloserReports`), because both go through the compare-exchange and an open
channel has no closer (`OpenUnreported`). `OnlyStaleSurvivesStop` needs that
outside Connected every pair is stale or settled (`SettledOrStale`) and that an
open channel of a settled pair is listed (`OpenIsListed`), so that the handler of
Disconnected has it to close (`LeftToClose`). Actions that share an effect share
a lemma: a close (`CloseKeeps`), a step that opens and closes nothing
(`QuietKeeps`), a step that concerns channels and not the server
(`ServerKeeps`). The assumptions are those named in `TCPForwardServer`.

`TCPMultipleClientProofs` proves the three invariants of `multi` for every set of
attempts and every number of slots. `MultiIInv` has a part that holds in every
state: a channel is in one slot (`SlotsApart`), the attempts of a session are of
different channels, and slots ahead of Start's task are of none (`CurApart`),
where the tasks of Start and Stop are (`TasksAt`), and what is not yet counted is
finite (`IsFiniteSet(Uncounted)`), without which its size means nothing. The
other part, `SessionInv`, is about a session that nobody has cut short. There the
two atomic counters are the sizes of the sets they stand for (`CountersExact`), a
live attempt has an open socket (`LiveIsOpen`), a socket that is open belongs to
a slot or to somebody who will close it (`SocketsKnown`), what Stop's task has
passed is empty (`StopEmpties`), and the one completion that brings the counter
to the end is the last (`ReporterIsLast`). That last fact is the heart of it: the
code decides Connected or Disconnected in whichever completion counts last, from
two counters that are not changed together. `ConnectingInv` is what remains of it
after a session that was cut short. The lemmas about sizes (one element added to
or removed from a finite set) come from `FiniteSetTheorems`.

`FileSendProofs` proves `PortIsServed` and `FileArrives` for every number of
opens, blocks and writes. `FileIInv` is `TypeOK`, what `m_Writing` stands for
(`WritingFlag`), that callbacks are of ports that were opened (`OnlyStarted`),
`PortInv` and `FileInv`. `PortInv` says in which order ports are closed and, as
long as no close has crossed a Start and no thread is inside the close of an
older port, that port, window and flags agree at each step of Start and of Stop
(`StartAgrees`, `StopAgrees`, `IdleAgrees`). `FileInv` accounts for every block of the file: on
the wire, in the one write that is under way, given up, or still to be read.

`DevicesProofs` extends `MCDevices`, the composition, and proves the eight
invariants of `devices` for every number of channels, threads, look-ups and
loops. `DevicesIInv` has one part per kind of device, each under the condition
that the class is of that kind; a step of one kind keeps the others because it
changes neither their variables nor the class.

* Servers (`ServerIInv`): an accepted socket is untouched until it is handed over
  (`FreshUntouched`, `HandedOver`), the operation that closed a channel is the
  one that reports it (`OneReporter`), the status tells which of acceptor and
  accept there are (`ServerStatus`, `AcceptNeedsAcceptor`), and outside Connected
  only channels that Stop cut are left (`StopLeavesCut`).
* UDP (`UDPIInv`): `OpenedHasSocket`, and an entry of the table of endpoints names
  the channel of that endpoint (`EntryNamesChannel`).
* Devices of two ends (`SwitchIInv`): who may own an end in each phase of a Start
  (`NotOwnedYet`, `OneConnect`, `Opening`), that somebody will set the status when
  an end broke (`BrokenIsTold`), and that an end that is open is read
  (`OpenIsRead`). Preparing this proof showed an error of the model: a TCP connect
  that failed was done once it had told the window, but the code then goes on to
  the handler that sets the status again. `AfterNotify` is the correction.

`WebSocketClientProofs` proves the three invariants of `websocket` for every set
of channels and any number of slots and clicks: `WsIInv` says where channels may be
(`Slotted`, `Apart`, `OneChannel`), that what Stop has closed and is about to drop
holds nothing that is not excepted (`Closing`, which `EmptySlot` needs: Start may be
between the two), that Stop finds what it has to close (`StopHasEffect`), and whom
the counters have still to count (`Counted`, over the finite set `Uncounted`; it
claims nothing while Stop is in its loop, which resets the counters under Start's).

`BytesProofs` proves about four parts that share nothing but their subject.

* `ReceiveBuffer`: `ReceivedIsKept` (`NoBlockLost` and `SavedInOrder`) for any
  number of threads, blocks and limits. `BufferIInv` adds that a reader that saves
  or clears holds the mutex (`Holds`), that what it is about to clear has been
  written or is dropped knowingly (`ClearsSaved`), and that buffer and file hold
  only received blocks (`OnlyReceived`).
* `WebSocketSession`: `UpgradesAgree` for every URL and any number of messages.
  `SessionIInv` says that no frame is on the wire before both ends may read it
  (`FramesAfterUpgrade`), that the request is alone on the wire until it is read
  (`RequestFirst`), that the answer stays in front of all frames
  (`ResponseFirst`), and what it says (`Answered`).
  `MessagesArriveWhole` is proved for any number of messages, with keys and
  without, and every length of up to 2147483647 (the assumption on `Lengths`: TLC
  counts no further; the code has eight bytes for a length). The invariant,
  `WholeIInv`, is about the bytes: what an end has read is what was sent first
  (`ReadsSent`), and what is on its way to it is the rest of one message, from the
  point where its reader is, and whole messages behind it (`OnItsWay`). Read from
  the front, the wire loses the first message (`CarriesRest`); written at its end,
  it gains one (`CarriesMore`); and `LengthReadBack` says that a length in two
  bytes or in eight is read as it was written. The invariant claims nothing of a
  client that lost bytes together with the answer, nor does the property.
* `MQTTClient`: `AnsweredOnce`, `EndIsReported` and `StreamInStep` for any number
  of handlers, connections and identifiers. `MQTTIInv` holds that one operation
  of each kind is under way per connection (`OpsOK`) and that a handler is in the
  table once or has been called (`Answers`). `StreamInStep` rests on
  `LengthDecoded`: every length of up to 268435455, encoded in one to four bytes of seven
  bits, is decoded to itself.
* `DataBuffer`: `BufferRefines`, that the list of blocks implements `ByteSequence`
  under the mapping of `BufferIsBytes`, for every set of bytes, size of a block,
  sequence of calls and length. The invariant, `BlocksIInv`, is that until a call
  is torn the blocks are a list that is not empty, none holds more than `Block`
  bytes, and `total` counts what they hold. `Contents` and `Before` are computed
  from block to block over a list of any length; the proofs take them as the only
  function that satisfies their equations (`FlatUnique`, `BeforeIs`), and where an
  induction is due they look at the least length at which the fact would fail
  (`LeastIndex`). From there `ContentsJoined` says what two lists hold together,
  and `BlockContents` and `BlockFound` where a byte lies. Each call edits one block
  or adds and drops whole ones (`Appends`, `Prepends`, `InsertsWithin`,
  `RemovesWithin`), which makes its splice of the bytes; `Fill` and a `Replace` in
  place write byte by byte over as many blocks as they reach (`Overwrites`,
  `WrittenSpliced`). A `Replace` by a text of another length first makes
  or removes the room of the difference and then writes over the rest, which is one
  splice (`Grown`, `Shrunk`). As in the run, a torn
  call is the end of the promise.

`MainWindowProofs` proves the three invariants of the window in `windows` and
`SettingsAgree`.

* `PanelAgrees` and `ExitIsReached` (`WindowIInv`): while nobody reports, the
  panel is right (`PanelFollows`); while `OnClose` waits, the device runs on or
  its end is being reported (`ExitFollows`).
* `NoStatusPopLeft` (`PopsIInv`, for every set of devices, threads and
  identifiers) is the property whose invariant is furthest from it. It needs what
  each device may be doing while nobody looks (`DevicesInv`: a device that was not
  started rests, and one that was left in between has a thread that will settle
  it or is being started again), that no pop-up of a status is forgotten
  (`PopsInv`: the message that makes a window is the first for its identifier, and
  an open pop-up of a status is the one the window has stored or one that a thread
  is about to store, unless a Close came between those two steps), and
  what both imply (`PopsEnd`): while such a pop-up is open or about to be, a
  device is in between, or a thread is to close it.
* `SettingsAgree` (`PropertyIInv`): for every class, property and set of numbers.
  The lemma `StoredAgain` is the fact it rests on: a value that was stored is one
  that writing and reading leaves as it is.

The assumptions are named in the modules that declare the constants, and TLC
evaluates them in every run: sets of names are disjoint from the value that
stands for none of them, bounds are natural numbers, `Devices` are numbered from
1, `UI` is none of the
other threads, and `Looks` are what a pop-up may show of a device.

What stays with TLC. Liveness (`ConnectingEnds` of `single`, `UIReturns`,
`SendEndsOnceClosed`, `ContentIsEmptied`): fairness and ENABLED are outside what
the prover handles. The three runs that expect a violation are TLC's by their
nature.

## 5. Plan

Modelled: what section 2 lists; proved: what section 4 lists. No invariant of a
passing run and no refinement is left without its theorem. What a reader may
want next is in section 6, most of it because its behaviour is layout or text.

## 6. Not modelled

Painting and layout of controls, text codecs, language tables, the dialog's own
settings, SHA-1 and Base64 have no behaviour in time worth a model.
`BlockingQueue` has no caller: the one queue of the dialog is constructed and
never used. `fast_memcpy` is a `memcpy`. The iterators and views of `DataBuffer`,
what the received-data control displays, byte counts and statistics, and the
list of the send history are left out of the modules that touch them. Exceptions
that leave a completion (a full disk in `CFile::Write`) end the program and are
no step of the models.
