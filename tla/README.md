# A TLA+ development of libwlmio

libwlmio is a C library for industrial I/O modules on a CAN FD bus (UAVCAN/CAN). An application
calls a request function, the library sends a transfer to a node, and a later call of `wlmio_tick`
calls the application back with the answer or with a timeout. Nodes also broadcast heartbeats; the
library reports nodes that come, change or fall silent. Everything runs on one thread, driven by
`epoll`: the concurrency is that of the bus, of the timers and of callbacks that call back in.

Paths below are relative to the repository (`src/...`).

## 1. Inventory

| component | source | state it keeps | operations | module |
|---|---|---|---|---|
| request engine | `src/libwlmio/wlmio.c` | `tfr_ids` of each request function, task list, transmit queue, receive sessions | `wlmio_get_node_info`, `wlmio_register_list`, `wlmio_register_access`, `wlmio_execute_command`, `can_socket_handler` and the response handlers, `async_handler`, `wlmio_tick`, `wlmio_wait_for_event` | `AsyncRequests` (implements `RequestService`) |
| event loop, timers, node status | `src/libwlmio/wlmio.c` | `fd_entry` list, epoll registrations, timerfds, `timers[]`, `nodes[]` | `fd_entry_add/find/close`, `async_add/complete/handler`, `heartbeat_handler`, `heartbeat_timeout_handler` | `EventLoop` |
| blocking API | `src/libwlmio/sync.c` | `sync_flag`, `sync_return` | 21 `*_sync` functions of one body, `sync_callback` | `SyncApi` |
| configure operations | `src/libwlmio/io.c` | one heap record per call | `wlmio_vpe6060_configure`, `wlmio_vpe6080_configure` and their callbacks | `ConfigureFanout` |
| channel reads and writes | `src/libwlmio/io.c` | one heap record per call | 7 reads, 7 writes and settings, `wlmio_node_set_sample_interval`: one register access each | `ChannelIo` |
| register and node-info encoding | `src/libwlmio/wlmio.c` | none | `validate_register_access`, payloads of requests and answers | `RegisterCodec` |
| libcanard transmit path | `src/libcanard/canard.c` | `_tx_queue` | `canardTxPush/Peek/Pop` | `CanardTx`, `CanId`; its order and losses also in `AsyncRequests` |
| libcanard receive path | `src/libcanard/canard.c` | a session per port and node | `canardRxAccept` | `CanardRx`, `CanId`; its duplicate filter also in `AsyncRequests` |
| DSDL codec | `src/libcanard/canard_dsdl.c` | none | bit copies | the aligned ones in `RegisterCodec` |
| pywlmio extension | `src/pywlmio/wlmio.c` | futures, parameter blocks, reference counts | four request wrappers and their callbacks | `PyFuture` |
| pywlmio package | `src/pywlmio/pywlmio.py` | nodes, their lock and cached information | `Node.get_info`, `Node._status_callback` | `PyNode` |
| firmware updater | `src/tools/fwupdate.c` | the file, a receive session per node | a command, then a file server with a CAN loop of its own | `FwUpdate`, `CanId` |
| calibration and setup tools | eleven programs of `src/tools` | none; they leave values in a node | blocking calls, questions to the operator | `Tools` |
| `regtool`, `infodump` | `src/tools` | none | blocking calls | `Tools` |
| `monitor` | `src/tools/monitor.c` | none | prints what callbacks report | not modelled |

**Interaction.** `io.c` and the tools call the request functions; `sync.c` wraps request functions
and `io.c` functions and runs the loop itself. The request functions push a transfer into the queue
of libcanard, append a task whose timer is an `fd_entry`, and send what the socket takes.
`wlmio_tick` dispatches ready descriptors: the socket (`can_socket_handler` -> libcanard -> heartbeat
or response handler), request timers (`async_handler`) and heartbeat timers
(`heartbeat_timeout_handler`). The last three call the application, which may issue requests.

**Hard behaviours.** An answer races the timeout of its request. A late or repeated answer meets a
newer request with the same five-bit transfer-ID. Answers of one channel overtake each other in
front of a duplicate filter. Frames the socket refuses wait in a queue into which later requests
insert. Descriptor numbers and heap addresses are used again while other tables may still name them.
A heartbeat races the expired timer of its node. Blocking calls share one flag and may nest.
Three writes answer in any order into one heap record. A tool makes dozens of calls, any of which
may fail while its request is still to be handled, and stores the result for good. A file is
served block by block over a bus that loses and repeats. Memory and descriptors run out, mostly
unnoticed. `PROJECT.json` lists each of these hazards at its line with the properties that cover it.

## 2. Modules and how they correspond to the code

### RequestService
What the asynchronous functions promise, without list, queue or loop: a request is accepted,
then finished exactly once, by its timeout or by an answer on its own channel, where an answer to
another request is allowed only a whole window of transfer-IDs away.

### AsyncRequests
One action per entry point: `Request` (a request function from argument check to `uavcan_send`),
`Refuse` (the early return), `WaitForEvent`/`Wake` (`wlmio_wait_for_event`), `HandleResponse`
(`can_socket_handler` with libcanard and the response handler), `HandleTimeout` (`async_handler`),
`TickEnd` (`epoll_wait` returns 0, `uavcan_send`), and the environment's `Answer`, `Lose` and
`ExpireTimer`.

* A request is named by its number. `async_add` appends, so the task list is the *set* `tasks` and
  its order is number order; `Deliver` takes the smallest number with the identifier, as
  `async_get_param` and `async_complete` do.
* Identifiers are computed as the code does (`RspSpecifier`), from transfer-IDs that wrap.
* `canardTxPush`, `async_add` and `send` may fail, as the code ignores their results: the
  transfer is then not queued (`Insertions`), the task not registered (`added = FALSE`), or the frame
  left in the queue (`Sendings`).
* Answers are lost, repeated and reordered. libcanard's session drops an answer whose
  transfer-ID is the one accepted last; after two seconds it no longer does, and as time is not
  modelled the model allows both for a duplicate.
* A callback that issues requests is `Request` in `pc = "tick"`. A callback runs before its task
  is removed, and the new request appends to the same list: the two steps commute.
* The four response handlers differ in how they fill the buffer and in what they tell the callback
  (`ReplyCodes`). Every one of them that has a buffer writes it whatever the code.

### EventLoop
The same loop seen from its descriptors. A descriptor is the lowest free number and an entry the
lowest free address, so both are used again at once, which is the situation in which a stale table
does harm. `timers` holds what `timers[]` holds, -1 included; `clock` is the state of each timerfd.
When no descriptor is left `timerfd_create` returns -1: the code stores it, adds an entry and
re-arms nothing, and so does `ComesOnline`. `heartbeat_timeout_handler` leaves `node_id` and
`node` uninitialized when its search finds nothing: the model takes any node.
A callback that issues a request is an `AddTask` right after the handler.

### SyncApi
One body for all the `*_sync` functions. `frames` is the stack of blocked calls, the innermost
runs; `Depth` says how deep a status callback may block. `sync_return` carries, besides the result,
the call it belongs to.

### ConfigureFanout
The two configure functions and their callback. `heap` names records by address, and `writes` the
register accesses under way with the address they will count into.

### ChannelIo
The functions of `io.c` with one register access. A call is refused (`Refuse`) or becomes a heap
record and a request (`Access`); `Complete` and `TimeOut` are the callback, which converts the
answer, tells the caller and frees the record. The tables at its head (`LastChannel`, `Register`,
`ReadType`, `Copied`, `Written`, ...) hold what distinguishes the functions. A register value is a type, a
length and the sample it was taken in; the caller's variable is a sequence of 16-bit words, so
that a copy of the wrong width leaves old words behind. The request below is what `AsyncRequests`
promises: one callback. `SetIntervalCallback` compares with `garbage`, because the code never
stores the interval in the record.

### CanardTx
`Frames` is `canardTxPush` as a function: a single frame, or the loop of `txPushMultiFrame` with
its padding and its CRC that may be split over two frames. `Push` inserts a transfer at
`Supremum`, `PushFails` is an allocation that fails at any frame, `UavcanSend` the loop of
`wlmio.c` that sends until the socket is full.

### CanardRx
The session a node has on a port: `Receive` is `rxAcceptFrame`, `Update` is `rxSessionUpdate` with its
restart rule, `AcceptFrame` the reassembly, and `FreedByHandler` the `free` in `can_socket_handler`. The bus
sends transfer after transfer, frame by frame (`Send`, `Arrive`, `Lose`), repeats a frame whose
acknowledgement was lost, and falls silent longer than the transfer-ID timeout (`Silence`). A unit of
payload names its transfer, so mixtures show; the CRC is taken to find every mixture.

### PyFuture
A wrapper (`Call`) takes references for the request and for its caller; `Callback`, in a tick,
puts set_result among the handles of the loop; `RunHandle`, `Resume` and `Cancel` are asyncio.
`holders` says who keeps a future, `refs` what the code counted.

### PyNode
`ready` is asyncio's list of handles. `RunTick` is one turn of the loop in `wlmio_tick`, which looks for
events one after the other, those that come meanwhile included, until none is left (`TickEnds`; `Batch` bounds
it); the tick stays at the head of `ready` so long. A status becomes a task, an answer a `set_result` that
schedules its waiter: one goes through the list once, the other twice. A node is its incarnation (`boot`), which is also
the information it answers with. The bus loses requests, answers (`Lose`) and heartbeats (`LoseHeartbeat`); of
the latter the library notices as many in a row as its 3-second timer lets pass (`wlmio.c:743`), by reporting the node
offline, so `missed` stays within `MaxLost` while the node is online. Uptimes count heartbeats, one a second.

### CanId
The CAN-ID as `txMakeCANID` packs it and `rxTryParseFrame` takes it apart, and the tests a frame must
pass before it reaches a session (`Accepted`). Fields do not overlap, so "or" is a sum.

### RegisterCodec
The payloads of the four requests and what the response handlers write, byte by byte, with the
tables of `wlmio.c`, `validate_register_access` and the extents of the subscriptions
(`CutTo`). A register is a type, a length and its bytes; reading behind the end of a payload gives
zeros, as the DSDL functions do. The second half is a node that reads and writes the same
payloads in its own way.

### Tools
A tool takes steps, the same ones for each channel (`ChannelSteps`) and then those behind the last
(`LastSteps`); `StepsAt` has the block it is in, and a tool without channels begins behind the last one
(`FirstChannel`). A step is a blocking call of `SyncApi` with the payloads of `RegisterCodec`, a question to
the operator, or something typed. `ToolCalls`, `ToolWaits`, `Answered`,
`TimedOut` and `ToolGoesOn` are one call from the request to what the tool makes of its result
(`Failed`, `After`); `ToolRefused` is the early return of `wlmio_register_access`. `wire` holds requests
and answers: a request whose call has timed out may still be handled, as a write that nobody waits
for. The node has its registers in memory (`device.ram`) and a copy in its EEPROM, where `Store` puts
what a calibration wrote. A measurement is two bytes, the signal applied and the mode of the channel,
so that a value measured at the wrong moment shows. `getc` takes one character of a line: `stdin`
counts what a question left behind. The EEPROM starts with a calibration `Old`, or lacks the register
of the last channel. `got` is what a call left its caller and `truth` what the node had when it answered. `regtool` counts the
names it asks for in 16 bits and ends behind the last one that has a number (`INDEX_MAX`).
The constants are a node as an application may meet it: `RegistersAssumption` says that names are distinct,
neither empty nor longer than a name may be, and that their registers are well-formed, no more of them
than an index can name; `WrittenAssumption` that a register an application passes has the bytes its
length says, if the library lets it through at all; `InfosAssumption` that node information fits the
fields it is sent in.

### FwUpdate
`Refuse` and `Begin` are the start of `fwupdate.c`, `Serve` and `Ignore` one turn of its loop, from the
frame read to the answer sent. The rest is the boot loader of the node, another node that asks this
program or somebody else, and a bus that loses transfers and repeats a request whose
acknowledgement was lost. Every transfer carries a CAN-ID made by `MakeCanId`, and `Heard` takes it apart.

`MCTools` starts one of the tools of `Tools`, or the updater; neither changes the state of the other.

Definitions marked "fault" are slips that a change of the code could make. No specification uses
them; `PROJECT.json` ("mutants") says which definition each of them replaces, and TLC then finds the
property it is paired with violated.

**How the modules fit.** `SyncApi`, `ConfigureFanout`, `ChannelIo`, `PyFuture` and `PyNode` sit on the
request engine and assume of it what `AsyncRequests` shows: a registered request is called back once.
`Tools` runs its programs on `SyncApi`, with operations that end as those of `AsyncRequests` do, by an
answer or a timeout. `FwUpdate` uses libcanard without the library.
`AsyncRequests` in turn abstracts the two ends of libcanard: one item per transfer, inserted where
`CanardTx` inserts it, and a session that hands over whole transfers in order, as `CanardRx` shows.
`EventLoop` has the descriptors and timers that `AsyncRequests` replaces by "an armed timer expires".

## 3. What each run checks

| run | instance | shows |
|---|---|---|
| `async_race` | node 127, 1 service served and 1 refused, 2 transfer-IDs, 3 requests, fairness | `TypeOK`, `CallbackExactlyOnce`, `AnswerWindow`, `BufferHoldsAnswer`, `BufferQuiet`, `NoFalseDuplicate`, `EveryRequestCompletes`, `ImplementsService` |
| `loop_timers` | nodes 1 and 126, 3 descriptors, 4 entries, fairness | `OneOwner`, `TasksHaveEntries`, `OnlineIsWatched`, `TimeoutNamesOwner`, `NoFalseTimeout`, `SilentNodeReported` |
| `loop_lastnode` | nodes 1 and 127 | violated: `TimeoutNamesOwner` |
| `node_tools` | the 15 programs of `Tools` on a node of 2 channels, one mishap, operations that may never have been registered; the updater with files of 0, 2, 3 and 4 bytes; fairness | `OwnResult`, `NothingLeftBehind`, `ToolEnds`, `StoredIsCalibration`, `AnswerIsFaithful`, `DumpIsComplete`, `ImageIsFile`, `UpdateCompletes` |
| `sync_nested` | 2 calls, one from a callback of the other | violated: `OwnResult` |
| `configure_fanout` | 2 operations, 2 records, writes that may never have been registered, fairness | `RecordOutlivesWrites`, `ToldOnceOfFirstError`, `EveryConfigureCompletes` |
| `channel_access` | 2 calls of four functions, 2 nodes of any product, 2 channels, 2 samples | `ReadWhole`, `ErrorsWriteNothing`, `RecordPerCall` |
| `channel_interval` | 1 call of `wlmio_node_set_sample_interval` | violated: `IntervalConfirmed` |
| `tx_queue` | 3 transfers of 12 sizes and 2 CAN-IDs, CAN FD frames | `ConformingTransfers`, `TransfersNotMixed`, `SmallestFirst`, `MemoryBalanced` |
| `rx_session` | 5 transfers of 0 to 3 units, 4 transfer-IDs | `WholeTransfers`, `InOrderOnce`, `UndisturbedIsDelivered`, `NoOtherLeak` |
| `py_future` | 2 calls of any of the four wrappers, fairness | `ReferencePerHolder`, `AwaitEnds` |
| `py_node` | 2 coroutines, 1 restart after at least 3 heartbeats, 1 heartbeat lost in a row, up to 2 events in a tick, fairness | `InfoIsCurrent`, `EveryGetterReturns` |

**Bounds.** `TidMod = 2` stands for the 32 transfer-IDs: the third request to a channel then has the
identifier of the first, the smallest behaviour in which identifiers collide. One answer waits in
the receive queue at a time, any number on the bus, from which they come in any order and
more than once. In `EventLoop` two nodes and the requests compete for the same numbers: every
number passes from a request to a heartbeat timer and back, and with two requests under way a node goes
without. Two configure calls are under way at once, or one takes over the record the other
freed. In `ChannelIo` the registers of the node have any type and length, among them those of another
product, and the four functions are the ones that differ in shape: six words, two words, a
setting, a comparison. The sizes of `CanardTx` lie on both sides of each boundary of a frame
and of its CRC. Five transfers over four transfer-IDs (`CanardRx`) bring a transfer-ID back; `Gap = 3`
excludes the case named as 6 below. `MaxLost = 1` and `MinUptime = 2` of `PyNode` exclude the case named as 9 and
no more: with `MaxLost = 2`, or with `MinUptime = 1`, `InfoIsCurrent` is violated.
`Channels = 2` is the first and a later channel, between which a calibration can be cut off; the
code has 3 to 8 and treats them alike. The registers of `regtool` lie at the edges of their lengths
(256 bytes, 128 words, 64 double words) and of a name (50 characters), those that are written one
above too, and node 127 is among the nodes. `MaxMishaps = 1` lets one thing go wrong that no tool
notices, a key too many or an output that was not switched. Blocks of 2 bytes (256 in the code)
and files of 0, 2, 3 and 4 bytes make an empty file, one of full blocks, one with a short last block
and one too large; three transfer-IDs (32 in the code) come round within an update. `MaxEarly` and
`MaxStrange` bound what other senders do.
The theorems of section 4 remove the bounds for the properties they state.

**Fairness.** `AsyncRequests` assumes what an application that runs its loop gets: it calls
`wlmio_wait_for_event` and `wlmio_tick` again and again, `epoll_wait` returns when a descriptor is
ready and gives each ready descriptor its turn, and an armed timer expires. Nothing is assumed of
nodes and the bus: answers may never come. `EventLoop` assumes that armed timers expire and that ready
ones are handled. `SyncApi`, `ConfigureFanout`, `PyFuture` and `PyNode` take over the conclusion of
`EveryRequestCompletes`: a registered operation calls back while somebody ticks (in `SyncApi` as
strong fairness, because the tick that calls back is one of the endless many of the blocked call).
The two Python modules also assume that asyncio runs the handles it has scheduled. `ToolFairness`
lets the program run, the operator answer, and the node handle what reaches it, each weakly, and takes
over `EveryRequestCompletes` in the same strong form; the node's answers may still all come too late.
`FwFairness` assumes that what is on the bus arrives or is lost, that the boot loader goes on asking
(weakly), and, because requests and blocks are lost and asked for again without end, that of infinitely
many requests one is served and of infinitely many answers in time one is taken (strongly).

**Deadlock** is checked where the system runs for ever (`AsyncRequests`, `EventLoop`, `PyNode`) and not in the
other modules, whose behaviours end when the calls or transfers of the instance are used up, or when the tool
has ended.

### Disagreements found

Three have a run that ends in the violation:

1. `loop_lastnode`: the search at `wlmio.c:662` ends before node 127, so its heartbeat timeout is
   reported for whatever node the uninitialized variables name.
2. `sync_nested`: a blocking call is made from the status callback of a blocked call. The answer to the outer
   call comes first, and the inner call returns it as its own, while its own request is still pending
   (`sync.c:21`, against `wlmio.h:256`).
3. `channel_interval`: `wlmio_node_set_sample_interval` never stores the interval it was given; its
   callback compares the answer with uninitialized memory (`io.c:783`).

The others are part of the models, and the properties are stated around them:

4. `wlmio_register_access` refuses node-ID 127 (`>=` at `wlmio.c:1076`), which the other request functions
   accept and `regtool.c:20` documents as valid (`Refused` in `AsyncRequests` and `ChannelIo`).
5. `vpe6060_read_callback` copies two bytes of a 32-bit register into the caller's `uint32_t`
   (`io.c:319`, `Copied` in `ChannelIo`). With `vpe6060_read` among `Functions` `ReadWhole` is violated.
6. When all but one transfer of a round of transfer-IDs are lost within the timeout, a
   single-frame transfer can meet an unfinished one with its own transfer-ID whose toggle bit happens
   to fit, and is appended to it (`canard.c:834`). With `Gap = 4` `WholeTransfers` is violated.
7. The buffer of an empty transfer is not freed, as `can_socket_handler` looks at its size
   (`wlmio.c:790`). `NoOtherLeak` counts these buffers and shows that nothing else is lost.
8. `register_access` of pywlmio takes one reference to the future where the other wrappers take two
   (`pywlmio/wlmio.c:248`), and its callback none to `None` (`:206`). `ReferencePerHolder` is about the
   other three; applied to all four it is violated. For `register_access` the model goes on after `refs` reaches 0,
   where the code uses a future that was freed, so `AwaitEnds` says of it only that the awaits end as long as
   the memory is not used for something else.
9. `Node._status_callback` knows a restart by a smaller uptime only (`pywlmio.py:154`). When a node restarts and
   its first heartbeats are lost, up to two within the 3 seconds of the library's timer, the next one shows an uptime
   that is smaller only if the node had counted further before. A restart goes unnoticed when the uptime before it
   was no higher than the number of heartbeats lost, and without a loss when it was 0.
   `InfoIsCurrent` is stated for `MaxLost < MinUptime`, and violated where that does not hold.
10. When one tick finds an answer of the earlier incarnation and behind it the heartbeat of the restarted node, the
    status clears the cache first and `get_info` fills it with the old information (`pywlmio.py:141`).
    `InfoIsCurrent` exempts such ticks and no others (`met`), and is violated without the exemption.
11. "Press any key" is `getc`: a key other than Enter leaves the end of its line, and the next question
    counts as answered before the operator has applied the signal (`6040macal.c:40`, and the four
    tools like it). The second point is then measured at the first signal and stored.
    `StoredIsCalibration` exempts these behaviours (`mishaps`).
12. `6050cal` and `6070cal` print the results of the commands that switch an output over and go on
    (`6050cal.c:25`): the value typed may be that of another output. Exempted likewise.
13. No tool looks at the register a write is answered with, or notices that a node restarted meanwhile,
    which takes back what was written and not stored. The node of `Tools` restarts when it is told to only.
14. `regtool` ends a dump with success after an error (`regtool.c:200`, `:208`), has a branch for a missing
    register that cannot be reached, because the library reports -ENOENT first (`:230`), and writes
    values of types other than UINT8 and UINT16 with length 0 (`:40`).
15. The last bits of a BIT register that do not fill a byte are not sent (`wlmio.c:1110`).
    `AnswerIsFaithful` asks for whole bytes only; without that condition it is violated.
16. `fwupdate` answers the node it updates whoever asked (`fwupdate.c:257`). A request of
    another node with the transfer-ID the updated one waits for would put a block of another offset into
    its image; `ImageIsFile` holds as long as nobody else is answered.
17. A register name longer than 50 characters is cut without an error (`wlmio.c:1087`), and the request then names
    another register (`AccessRequest`). `AccessRequestsRoundTrip` and the names of `Tools` stay within 50.

## 4. What is proved

TLAPS proves the theorems below for every value of the constants that the named assumptions (`ASSUME`)
of the modules allow: any number of requests, nodes, descriptors, transfers and records, where the runs
have two or three. A hypothesis that is not in the module is in the table, and each of them is a case
for which a run, or the item of section 3 named with it, shows the property false.

| module | theorem | property | hypothesis |
|---|---|---|---|
| `AsyncRequestsProofs` | `TypeCorrect` | `TypeOK` | |
| | `CalledBackExactlyOnce` | `CallbackExactlyOnce` | |
| | `BufferIsConsistent` | `BufferHoldsAnswer` | |
| | `AnswersStayInWindow` | `AnswerWindow` | |
| | `BufferIsQuiet` | `BufferQuiet` | |
| | `FilterIsHarmless` | `NoFalseDuplicate` | |
| | `ServiceIsImplemented` | safety part of `ImplementsService` | |
| `EventLoopProofs` | `TimersHaveOneOwner` | `OneOwner` | `NodeIdMax \notin Nodes` (item 1) |
| | `TaskPointersAreValid` | `TasksHaveEntries` | the same |
| | `OnlineNodesAreWatched` | `OnlineIsWatched` | the same |
| | `TimeoutsNameTheirOwner` | `TimeoutNamesOwner` | the same |
| | `TimeoutsAreNotFalse` | `NoFalseTimeout` | the same |
| `ToolsProofs` | `CallsReturnTheirOwn` | `OwnResult` | `Depth = 1` (item 2) |
| | `CallsLeaveNothingBehind` | `NothingLeftBehind` | the same |
| | `ServiceIdsRoundTrip` | `ParseCanId` undoes `MakeCanId`, services | sender and receiver differ |
| | `MessageIdsRoundTrip` | the same, messages | |
| | `ToolsReturnTheirOwn` | both, in every tool | |
| | `AnswersAreFaithful` | `AnswerIsFaithful` | whole bytes, in the model's `truth` (item 15) |
| | `DumpsAreComplete` | `DumpIsComplete` | |
| | `StoresAreCalibrations` | `StoredIsCalibration` | in the property itself (items 11 and 12) |
| | `ImageIsTheFile` | `ImageIsFile` | in the property itself (item 16) |
| | `AccessAnswersRoundTrip` | the answer of an access is read as it was written | length and bytes fit the type |
| | `AccessRequestsRoundTrip` | the request of an access, by the node | the same, whole bytes (item 15), and a name of at most 50 characters (item 17) |
| | `InfoRoundTrip` | the node information | name, CRC and certificate no longer than their definition has them |
| `ConfigureFanoutProofs` | `RecordsOutliveWrites` | `RecordOutlivesWrites` | |
| | `ToldOnce` | `ToldOnceOfFirstError` | |
| `ChannelIoProofs` | `RecordsAreFreed` | `RecordPerCall` | |
| | `FailuresWriteNothing` | `ErrorsWriteNothing` | |
| | `ReadsAreWhole` | `ReadWhole` | `"vpe6060_read" \notin Functions` (item 5) |
| `CanardTxProofs` | `FramesConform` | frames of a transfer, for every size | |
| | `MemoryIsBalanced` | `MemoryBalanced` | |
| | `TransfersAreNotMixed` | `TransfersNotMixed` | |
| | `TransfersConform` | `ConformingTransfers` | |
| | `SmallestIdFirst` | `SmallestFirst` | |
| `CanardRxProofs` | `BuffersAreAccountedFor` | `NoOtherLeak` | |
| | `DeliveredInOrderOnce` | `InOrderOnce` | |
| | `HandedOverWhole` | `WholeTransfers` | `Gap < TidMod` (item 6) |
| | `UndisturbedIsHandedOver` | `UndisturbedIsDelivered` | the same |
| `PythonProofs` | `ReferencesAreCounted` | `ReferencePerHolder` | |
| | `CacheIsCurrent` | `InfoIsCurrent` | `MaxLost < MinUptime` (item 9), and in the property itself (item 10) |

**The arguments.** Each invariant is strengthened to one that every action preserves; the lemma that
shows it has one step per action.

*AsyncRequests.* `TypeOK` is inductive; it says that requests named by queues and tables were issued,
so their log entries exist. `DeliveryInv` strengthens `CallbackExactlyOnce` and `BufferHoldsAnswer`: a
request not yet issued, still waiting, or never registered has no callback, no outcome and a clean
buffer, which is what makes the first callback the only one. `AnswerWindow` is not inductive, because a
step that completes a request compares identifiers only: `PlaceInv` adds that the transfer-ID of a
request is its place on its channel modulo `TidMod`, that places are below the channel's count, and that
two requests of a channel have different places. Equal identifiers then mean equal channel and
transfer-ID (`RspSpecifierInjective`), and equal transfer-IDs at different places are a whole round
apart (`RoundsApart`). `BufferIsQuiet` needs only the types: one action writes a buffer, and it is the
one that counts the callback. For the duplicate filter `SessionInv` says whose transfer-ID a session has
seen last: that of a request whose answer was accepted, and which is then either no longer waiting or has
a twin with the same identifier. `ServiceIsImplemented` takes the steps of the engine one by one: a call is
`Accept` (`CountInv`: the place it takes is the number of requests its channel had), a completion
is `AnswerBy` (`MatchedAnswer` is its guard), a timeout is `TimeOut`, and every other step leaves what
the service shows alone.

*EventLoop.* Addresses and descriptor numbers are handed out again at once, so `LoopInv` is about names:
at any moment an address names one entry, a descriptor one entry and one owner (`Named`, `Listed`,
`Owned`), and a timer that is readable belongs to a node whose heartbeat is overdue (`FiredIsOverdue`).
The handlers search the list; `Position` and `RemoveAt` are characterised once, on lists whose
elements are distinct, and the steps are then about sets of entries. Where node 127 is a node, its
timeout is taken for another node's and the invariant fails.

*SyncApi, RegisterCodec and FwUpdate.* With one blocked call at a time the flag and the result that all calls share belong to it:
`SyncInv` says that a call which waits has its operation pending or its result stored. The payloads are
parts put one behind the other, and each field is read where the lengths of the parts before it put it
(`PartsRead`, `Kept` and `Appended`); a length of one or two bytes is the number it was (`Lengths`), and the
tables of widths and largest lengths keep the longest register within 256 bytes (`Sizes`), so that no
answer is cut by the extent of its subscription. The updater tells
transfers apart by CAN-IDs, whose fields `ServiceFields` and `MessageFields` find by division; a frame
whose sender is its receiver is one `rxTryParseFrame` refuses. `ImageIsFile` needs
to know what is on the bus (`FwInv`): a request names an offset, an answer is the block at one, and a
transfer with the transfer-ID the node waits for is about the offset behind its image. The node does not
use a transfer-ID again while a transfer with it is under way (`NodeAsks`), which is what keeps an old
block out of the image; the transfer-ID alone, after a whole round of them, would not.

*Tools.* `AnswerIsFaithful` is about one moment, in which an answer is decoded; `ToolInv` has what must be
known of the answer then. It may only be the answer to the step the tool is at (`Current`): the call
it belongs to is the one that is pending, and while it is, the tool stays where it is (`Waiting`).
Its payload is one a node makes of a well-formed register, a name or node information (`WireFits`), to
which the round trips of `RegisterCodec` apply. For that the registers of the node have to be
well-formed for good (`DeviceFits`), although requests that nobody waits for any more still write them: so
`WireFits` speaks of every message, late ones included, and says of each request that some step of a
tool makes it (`RequestFits`). `ToolFits` keeps the tool at a step of its program, which rests on the tables of the
programs (`StepsAt`).

`DumpIsComplete` needs little more (`DumpInv`): the registers printed are as many as the index says, and
between the name and the register the name that was found is the one at the index. No register of the node
changes under a dump, as all it asks for are names and reads.

`StoredIsCalibration` is where a program's history matters (`CalInv`). What the EEPROM gets is what the
registers are when the one request to store is handled; `StoreIsLast` says that this request is alone on the wire
and all registers are right. `ChannelsDone` says that those of the channels before are, and `Known` what the
tool has made sure of at each step of the channel it is at: the mode it set, the signal the operator
applied, the counts it read at it. `Known` would not survive a request of an earlier call that is handled late;
`OneMessage` says that there is none while the tool runs. A call that timed out does leave its request
behind, but the tool then ends, and the late write changes registers only, never the EEPROM (`EepromKept`); the
exception is the command that switches an output over, whose result no tool looks at, and which is
counted in `mishaps` when it fails. `Effect` connects the two ends of a call: when it succeeds, the register has been
written, or was read as it is. Each action is then a lemma (`CalNode`, `CalAnswered`, `CalTimedOut`, `CalCalls`,
`CalGoesOn`, `CalOperator`), and the steps of the programs are four families with one lemma each (`PointsGoOn`,
`ZeroGoesOn`, `OutputsGoOn`, `WiringGoesOn`).

*ConfigureFanout.* `RecordOutlivesWrites` alone does not say why the third callback is the last.
`FanoutInv` counts: for each call that will still use its record, the counter of the record and the
writes under way are together no more than the writes issued, three at most. A callback that finds
the counter at two is then the only one to come, and a record that is handed out again has no write left
that points to it (`CallbackStep`). Two live calls never share a record (`OwnRecords`), so a step of one
leaves the others alone. `ToldInv` adds the history: as long as a call is live, its record counts the
results it had and holds the first error among them, and nobody was told.

*ChannelIo.* `ChannelInv` ties each record to the call it was made for, and each variable to what its
call has been through: untouched while the call is under way or failed, one sample of its register
when it succeeded.

*CanardTx.* `FramesConform` is about the operator `Frames`: frame `i` starts where frame `i - 1` ended
(`FrameAt`), there are `Rounds` of them, the least number that holds the payload and its CRC, and the cases
are those of the frame in which the payload ends. `TxInv` then follows a transfer through queue and
wire: `Order` is the wire followed by the queue, and the frames of every transfer pushed are at
increasing places in it, all of them and no others (`Listed`); the queue is sorted (`Sorted`), on which
the search for the place of an insertion rests. A transfer inserted as a whole behind all frames of its
CAN-ID keeps both.

*CanardRx.* `Types` says besides the types what the buffer of a session holds: as much of what the CRC has
run over as there is room for; `NoOtherLeak` follows by counting. `OrderInv` adds to
`InOrderOnce` what keeps the last frame of a transfer from completing it again when it is repeated: the
session waits for the next transfer-ID. `FollowInv` says that a session that is not past its timeout
expects a frame of one transfer `e`, no more than `Gap` behind, that everything it has copied is of
`e`, and how its toggle bit stands; as two transfers less than `TidMod` apart have different
transfer-IDs (`SameRemainder`), a frame that is accepted is of `e`, and `WholeInv` follows. `ProgressInv`
counts the frames of the transfer on the bus: while none was lost, the session has
exactly those that arrived.

*PyFuture.* `FutureInv` has for each future what each stage of its call holds (`Stages`), and that the
count is the number of the holders (`References`).

*PyNode.* An answer takes two turns through the list of handles and a status one, so `NodeInv` is about
places in the list. `Calm`: a wakeup is no older than the statuses in front of it, a `set_result`
no older than any status that waits, as its wakeup will come behind all of them; and a status of an
incarnation that nobody heard of makes the node forget, or is behind one that does. `Loop` says why the
tick cannot put a status in front of the wakeup of an earlier answer: the tick stands directly in front of
`select`, and when its turn comes every `set_result` of earlier ticks has run. `Bus` follows the heartbeats from
the node to the library: of two that follow each other the second is of the same incarnation or counts
less (`NextShows`). Heartbeats that are lost between the two may hide the smaller numbers; that there are fewer of them
than an incarnation counts before it ends (`MaxLost < MinUptime`) is what keeps the second one below the first.

**A definition written for proofs.** The loop of `txPushMultiFrame` is `MultiFrame`, a sequence of `Rounds`
frames in closed form instead of a recursion, since what a recursive definition computes for
every input cannot be proved here; `Min` is the minimum, whose existence is proved from a
well-foundedness theorem of the library. The programs of `Tools` are a block of steps for each channel
(`StepsAt`) instead of one sequence put together over all channels, for the same reason: a tool with any
number of channels then goes from block to block by its definition. The runs evaluate the same definitions.

**Only model-checked.** Liveness (`EveryRequestCompletes`, the fairness part of `ImplementsService`,
`SilentNodeReported`, `EveryConfigureCompletes`, `ToolEnds`, `UpdateCompletes`, `AwaitEnds`,
`EveryGetterReturns`): it rests on fairness, which is about ENABLED and beyond these provers. Every safety
property that a passing run checks is a theorem.
The properties that a run shows violated are no theorems, of course.

## 5. Not modelled, and why

* In `canard_dsdl.c` unaligned copies, signed integers and floating point: every field of the
  library's payloads begins on a byte, and nothing calls the others. In an answer that is
  refused, the part of the structure written before the refusal.
* Real time. Timers expire at any moment, and a receive session is fresh or old at any moment.
* `wlmio_shutdown` and a second `wlmio_init`, which nothing in the repository calls; `wlmio_set_timeout(0)`;
  request callbacks that run the loop themselves (section 6).
* In libcanard the list of subscriptions and anonymous transfers; in pywlmio the thread of
  `wait_for_event` and the conversions of the channel classes.
* `async_tick`, which nothing calls.
* `monitor`: it prints what callbacks report; its request from a status callback is covered by
  `AsyncRequests` and `EventLoop`. In the tools the parsing of arguments (its outcomes are `NodeIds`,
  `Written`) and the layout of what is printed.
* In `FwUpdate` the frames of a block: `CanardTx` and `CanardRx` show that transfers arrive whole.

## 6. Plan

Each module is written so that it can be proved about (constants with named assumptions, one
action per operation, no recursive operators). First the core, which exists: `RequestService`,
`AsyncRequests`, `EventLoop`, `SyncApi`, `ConfigureFanout`, then the layers around it, which exist
too: `ChannelIo`, `CanardTx`, `CanardRx`, `PyFuture`, `PyNode`, `CanId`, `RegisterCodec`, `Tools`, `FwUpdate`.
What is left, in this order:

1. `ReentrantTick`: a request callback that runs the loop, with the task still in the list, and timers that
   `wlmio_set_timeout(0)` disarms.
2. `CanardLink`: `CanardTx` and `CanardRx` composed over a bus, implementing a channel that delivers whole
   transfers only.

These would bring properties of their own. Of those that are checked now, all but the liveness properties
are proved.
