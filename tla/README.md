# A TLA+ model of urg_node

This directory is a verification project for `urg_node`, the ROS driver of the
Hokuyo laser scanners: TLA+ modules of its UAM-05LP driver, TLC configurations
that check them on small instances, and theorems about them that TLAPS proves
for every value of their constants. It is read beside the source in
`src/urg_node`; `PROJECT.json` names, for every definition, the lines it models.

## 1. Inventory

The package holds two programs: the UAM node with its tools (`uam/`), and the
older `urg_node` over the external library `urg_c`.

### The UAM node

| Part | Files | State | Operations |
|---|---|---|---|
| TCP client | `uam/io/tcp_client.*` | `connected_`, `stopped_`, the socket, `receive_buffer_`, `readline_buffer_` | `connect`, `disconnect`, `startAsyncReadTask`, `asyncReadLine`, `asyncSend`; handlers `asyncReadData`, `handleReceive`, `handlePacket` |
| Packet workers | `uam/workers/*`, `shape_shifter_packet.h` | callbacks by packet type | `validateCommandHeader`, `processByHandler`, encoding of commands |
| Protocol types | `uam/protocol_types/*`, `uam_visitors.h`, `visitor.h` | none | layouts of packets, decoding of fields |
| Driver | `uam/uam_driver.*` | `subscription_mode_`, the pending reply and its flag | `getVersionDetails`, `getSensorStatus`, `getConfigurationId`, `getScanDetails`, `getSafetyArea`, `startStreaming`, `stopStreaming`, `processCommandReply` |
| Scan parameters | `uam/scan_params.h` | limits and current field of view | `fromMessage`, `setAngleLimits`, `angle2step` |
| ROS node | `uam/uam_driver_ros.*` | `configured_`, `configure_attempts_`, `scan_params_`, `safety_areas_`, `last_received_status_`, `discard_data_until_`, two mutexes, a status request flag | `configure`, the retry timer, the scan watchdog, the hard reset, dynamic reconfigure, the status service, `scanCallback` |
| Status aggregator | `uam_status_aggregator_node.cpp` | `output_status_` | `statusCallback` |
| Id tool | `uam_get_safety_configuration_id.cpp` | none that lasts | `main` |

**How they interact.** The ROS node calls the driver from one thread, that of
`ros::spin` (the *main thread*). The driver's calls block: they send the bytes
of a command through the TCP client and sleep on a condition variable. The
*io thread* runs the `io_service`: a chain of completion handlers, each of
which starts the next read, takes packets off the socket and gives them to the
workers; a reply wakes the main thread, a scan runs `scanCallback` in the io
thread. The two threads share two atomic flags in the client, a mutex and a
flag in the driver, two mutexes, an atomic flag and several unlocked objects in
the ROS node.

**What is hard.** The read chain has no owner: it survives a `disconnect` by a
while and must be gone before the next session; a reply has no identity; a
stream may be running that the driver knows nothing of; `configure()` writes
unlocked data "because the receiver is not yet running"; every step of it may
fail; a watchdog, a retry timer and a service share its thread.

**What makes each part correct.** The client: one reader at a time, and a
truthful `isStopped()`. The driver: a reply answers the command that waits, and
`subscription_mode_` covers what the lidar streams. The node: unlocked data is
never touched by both threads, a configured node streams, an unconfigured one
retries, and faults that end leave it streaming. The scan parameters: never an
empty or an impossible field of view. The aggregator and the status topics:
the latched message is current. The bytes: whatever the lidar sends, the reader
finds the packets again, none passes for another, and the buffer is never
overrun. The safety areas: each is cached, published and compared as itself.

### The legacy node

| Part | Files | State | Operations |
|---|---|---|---|
| Node | `urg_node_driver.*`, `urg_node.cpp` | `urg_`, `srv_`, `error_count_`, `lidar_mutex_`, `service_yield_`, `close_scan_` | `scanThread`, `connect`, `calibrate_time_offset`, `updateStatus`, `reconfigure_callback`, `populateDiagnosticsStatus`, the destructor |
| Wrapper | `urg_c_wrapper.*` | the connection of `urg_c`, `started_`, the field of view, the synchronised clock | `start`, `stop`, `grabScan`, `sendCommand`, `setAngleLimitsAndCluster`, `computeLatency`, `getSynchronizedTime` |
| Tools | `getID.cpp`, `set_urg_ip.py` | none that lasts | one-shot |

The *scan thread* connects, streams and reconnects; the main thread serves the
status service and dynamic reconfigure and runs the destructor; the
*diagnostics thread* reads the wrapper every now and then. One mutex guards the
grabbing of a scan, the connection, the calibration and the status; dynamic
reconfigure, the diagnostics and the end of a connection take no lock. It is
hard because a scan thread that grabs all the time leaves a service no chance
(hence `service_yield_`), because `urg_` comes and goes, and because the way back
from a lost link leads through many steps that may fail. It is correct if a
service gets the lidar soon, if lost links end in new scans and if a shutdown
ends every thread.

## 2. The modules

| Module | What it is |
|---|---|
| `TcpClient` | the TCP client, its two threads, the socket and the peer |
| `PacketReader` | the abstract specification of its binary reader |
| `TcpClient_proofs` | theorems about `TcpClient` |
| `UamDriver`, `UamDriver_proofs` | the driver; instantiates `TcpClient` |
| `UamROS`, `UamROS_proofs` | the ROS node; instantiates `UamDriver` |
| `SafetyConfigurationId` | the id tool; instantiates `UamDriver` |
| `StatusService` | the status service against `updateStatus()` |
| `StatusAggregator` | the aggregator node |
| `StatusTopics`, `StatusTopics_proofs` | `StatusService`, the topics and `StatusAggregator`, composed |
| `UamProtocol` | the packets, in bytes |
| `PacketStream`, `PacketStream_proofs` | the framing of the byte stream, the choice of a worker and what it accepts |
| `ScipLine` | the buffer and the decoding of the text reply |
| `SafetyAreas`, `SafetyAreas_proofs` | the safety areas from the sensor to the topics and the points |
| `ScanParams`, `MCScanParams` | the field of view |
| `SynchronizedTime` | the synchronised clock of the older wrapper |
| `MCAlgorithms` | the last five components, explored in one run |
| `Algorithms_proofs` | theorems about `ScanParams`, `SynchronizedTime`, `ScipLine` and about `MCAlgorithms` |
| `UrgNode`, `UrgNode_proofs` | the older node: scan, main and diagnostics thread |

### TcpClient

One action per point at which the other thread can get in between: `connect()`
is `Connect`, then `ConnectTimeout`, `ConnectFailed` or `ConnectDone`, then
`SetOption`; `disconnect()` is `Disconnect` (`connected_`), `CloseSocket`,
`SetStopped` (`stopped_`); `startAsyncReadTask()` is the read and then the flag;
`asyncReadData()` is the test of `connected_` (`CheckConnected`) and then
`ArmHeader` or `Die`. `reads` are the operations outstanding on the socket,
`queue` the handlers that wait in the `io_service`, `io` the point of the
handler that runs. Closing the socket turns every outstanding operation into
the call of its handler with an error, in order. The peer and the kernel are
the environment: frames arrive whole and in order, the link drops at any
moment, a connection is accepted, refused or neither.

`Noise` stands for a frame that the header filter rejects or whose size is out of
range; what really becomes of its bytes is `PacketStream`. `MaxWire` bounds the frames in the kernel, `MaxQueue` the handlers queued
when a connection is attempted.

**`Settle`.** The handler of an accepted header starts the body read without a
look at `connected_`, and `asyncReadData()` looks at it some time before it
reads. If the main thread disconnects and connects again inside that window,
the old chain reads from the new socket, and `startAsyncReadTask()` adds a
second chain. The code's defence is time: a reconnection comes from the retry
timer, `reconfiguration_timeout` (5 s by default, no lower bound is enforced) after the
disconnection, and the io thread needs microseconds. `Settle = TRUE` says just
that: `Connect` waits until the io thread is past those two points (it need not
be idle, the queue need not be empty). With `Settle = FALSE` TLC finds the second
chain; the theorems that need it name it as an assumption.

### PacketReader

The promise: one sequential loop that belongs to a session, is started in a
session, handles a packet at a time and ends after the session; the next
session does not begin before it has ended. `ReadsLikeOneReader` is the
refinement `TcpClient => PacketReader` under the mapping of `connected_` to the
session and of the chain of handlers to the reader, liveness (the loop of a
closed session ends) included.

### UamDriver

`sendCommandWithReply()` is `Prepare` (the flag), `Send`, then `Return` or
`Expire`; `sendPPCommandWithReply()` sends first, then clears the flag, then
starts the line read, and the model keeps that order. A query first starts the
reader if `isStopped()` says so (`EnsureReader`); `getSensorStatus` and
`getConfigurationId` end a stream first (`Query`). The lidar answers the
commands of a connection in order, or refuses one (an error status: the
worker drops it), or ignores one. It is slow at will. A YR refused is a YR
answered, because its worker looks at no status. A frame carries a *ticket* of
one bit that tells two sendings of the same command apart; no real frame has it.

### UamROS

`pc` walks through `configure()` statement by statement; `After` is the order of
its statements, `Calls` the driver call of each. The callbacks of `ros::spin`
are the retry timer, the watchdog (its mutex is held from `Watchdog` to
`WatchdogReturns`, across the reset service and the disconnection) and dynamic
reconfigure (both mutexes). `scanCallback` is `ScanStamp` (watchdog mutex),
`ScanLimits` (reconfigure mutex) and `ScanPublish` (no lock) in the io thread.
A fault takes one of `MaxFaults`: a dropped or refused link, a failed or late
send, a refused, ignored or late reply, a malformed text, scans that come later
than `scan_timeout`. What follows from an earlier fault, or from a reset of
the lidar, costs nothing more.

### SafetyConfigurationId

`main()` over the driver. A failure of ID00 is swallowed, any other unwinds.
`Destroy` and `Join` are `~UamDriver()`: the join returns when the io_service has
no more work.

### StatusService, StatusAggregator, StatusTopics

`StatusService` has the request flag, the polling service and the steps of
`updateStatus()`. The status is a value; whether two are equal is all that
matters. `StatusAggregator` has the table of statuses and the message on its
latched topic. `StatusTopics` composes them: each topic is latched (`latched`),
each subscriber has a queue of one message (`inbox`), a message that finds it full
takes the place of the older one, the aggregator may be restarted and is
given what is latched. The other lidars publish what they like.

### UamProtocol

The sizes of the structures of `uam_protocol_types.h`, added up field by field,
and the table of the workers. `LayoutAssertion` states what the `static_assert`s
of the source state; TLC evaluates it.

### PacketStream

The stream is a sequence of messages, of which the model keeps the one that
arrives and the next, and `taken`, the bytes of it that were read. `HeaderAccepted`
and `PacketReceived` are the two reads of a packet. `HeaderSkipped` is the way out
of `handleReceive()` for a header that it does not know or a size that is too
large: it takes the next eleven bytes, wherever they fall, so that one bad
message throws the reader off the boundaries of all that follow. `Process` is
`WorkerBase::process`: size, CRC and status; with a wrong size it asks
`validateCrc(buffer, false)`, which gives up always. The answers, the error
replies and the scans are the lidar's; `Foreign` are messages that are no
packet of the protocol; they also stand for a text reply that no line reader takes,
as when a stale text was decoded in its place (`ScipLine`). Taken as given: the text of a packet holds no header at
a window's place, no message is shorter than a header, and an error reply ends
after its status. A dropped link is left to `TcpClient`: a new connection begins
with a header.

### ScipLine

`readline_buffer_` is never cleared. The text of PP is a sequence of lines, each
reduced to which field it names and whether `findSubstring()` and `stoi()` make
the number of it, a part of it, an exception or nothing. `CutText` ends a
connection after any line and at any place in the next; the first line of
the next text continues it. The model name is taken not to begin with a digit.

### SafetyAreas

`readSafetyAreas()` area by area (`ReadArea`), the swap, the publication by
`updateStatus()` and the choice of the area that a scan is held against.
`Index` and `Number` are the two places that shift the number of an area. The
sensor has any set of areas, which stays, and its inputs select one at any
time. A sensor that refuses an area leaves in the buffer the ranges of the
reply before, and `YRWorker` decodes them: such an entry of the cache is some
other area (`AreasAreTheSensors` speaks of the areas that the sensor has).

### ScanParams

Angles are integers, `Parts` to the step, so that rounding can be seen without
floating point; `Floor`, `Ceiling` and `Clamped` are those of `angle2step()`.
`lut` is the size of the static lookup table.

### SynchronizedTime

Time in milliseconds. The counter of the sensor wraps after `Wrap`; the system
stamps a scan with an offset out of `Offsets` to the sensor's time. The moving
average is any value between the old one and the new difference, which is what
its bound rests on; `offsets` is a history variable, the least and the greatest
offset since the average was begun.

### UrgNode

`pc` holds the points of the scan thread and of the main thread, `diag` whether
the diagnostics thread is between its test of `urg_` and its use. `updateStatus()`
is parameterised by the thread: the main thread runs it for the service, the
scan thread before it starts the lidar and when `ros::spinOnce()` serves a
request there. `conn` is `urg_` and its connection, `started` is `started_`. The
library `urg_c` is the environment: a request on a dead connection fails, one
on a live connection fails only with a fault. `sendCommand()` is `Query`, then
`Answered`, `Failed` or `Ignored`; `Failed` has the outcomes that the code can
produce: an exception that the service catches and the scan thread does not, or
an empty string, over which the worker asks for the checksum of nearly 2^64 bytes
(`uam_worker_base.h:399`), which may crash or not. The end of the process has two
names: `"null"` when a null `urg_` was used (`Dereference`), `"crashed"` when a
reply ended it (`Failed`).
`detailed` and `calibrate` are parameters, chosen in the initial state. `EndPause`
says that the pause of 10 ms is long enough for a thread that waits for a free
mutex. `overtaken` is a history variable. The test of `close_scan_` in the
inner loop and the locking that follows it are one action.

## 3. What the runs check

| Run | Shows | States |
|---|---|---|
| `tcp_client` | `OneChain`, `LineReadsAlone`, `StoppedIsTruthful`, `ReadsLikeOneReader` | 2 thousand |
| `uam_driver` | `ReplyAnswersCommand`, `StreamIsKnown`, `WaitHasReader` | 73 thousand |
| `uam_ros` | `ReceiverNotRunning`, `SharedDataExclusive`, `ConfiguredStreams`, `NeverStuck`, `NoStartupScan`, `StreamsForGood` | 83 thousand and more |
| `configuration_id` | `ToolEnds` | 4 thousand |
| `status_topics` | `UpdateTopicIsCurrent`, `AggregateIsCurrent`, `ServiceReturns`, `StatusArrives` | 36 thousand |
| `urg_node` | `OvertakenOnce`, `FlagIsHeeded`, `StreamsAgain`, `NodeEnds` | 65 thousand |
| `algorithms` | the five components below | 1.2 million |
| - `ScanParams` | `FieldWithinLimits`, `RequestIsCovered` | |
| - `PacketStream` | `ResynchronisesInTen`, `PacketFitsBuffer`, `DecodedIsOwnReply` | |
| - `SynchronizedTime` | `WarpIsReal`, `ClockFollowsSensor` | |
| - `SafetyAreas` | `AreasAreTheSensors`, `TopicsShowReported`, `PointsAreOfAppliedArea` | |
| - `ScipLine` | `FieldsAreTheSensors`, `TextHeals` | |

Each run checks the type invariant of its module as well, except that of the
id tool, whose driver is typed in `uam_driver`. `algorithms` explores components that share no
state with each other: `part` picks one in the initial state, and the
others stay where they began, so that its states are the sum of five runs and not
their product.

Deadlock is checked in all but three: the id tool and `UrgNode` end (there `ToolEnds`
and `NodeEnds` say that nobody waits for ever), and in `algorithms` the sensor's
clock stops at `MaxTime` and a text that threw ends the process.

**Bounds and why they are enough.** `TcpClient`: one value of each kind of frame,
since no action compares two frames of a kind; two frames in the kernel, so that
a frame waits behind another; two handlers queued at a reconnection, which is
what a cancelled read and an abandoned connect leave. The number of
connections, drops and commands is unbounded. `UamDriver`: one or two commands
unanswered, every command of the protocol; a second wire slot lets a scan come
between a command and its reply. `UamROS`: two safety areas (the first, and
one more), one attempt before a hard reset, two faults, so that a fault can hit
the recovery from another; any number of reconfigurations and timers.
`StatusTopics`: two statuses, two topics, one restart of the aggregator; the
number of scans, calls and messages is unbounded.
`ScanParams`: seven steps of three parts, angles on, between and beyond them.
`PacketStream`: the sizes of the source; foreign messages of 12 to 21 bytes, which
with the eleven bytes of a window move the reader to every offset, in any number
and order. `SynchronizedTime`: a counter that wraps after 8, periods up to a full
turn less one, offsets within and beyond the limit of a warp, a time of
three turns, and a settling of two scans instead of 100. `SafetyAreas`: three numbers
of two types and every set of them, so that a refused area has neighbours in
its number and in its type. `ScipLine`: the ten lines of PP and three cuts, one
more than a line can be put together from.
`UrgNode`: an error limit of 1 (4 by default), so that one bad scan is below it and
two are above; two faults; any number of services, reconfigurations and
reconnections.

**Fairness.** The io thread runs what is queued, a method that was entered runs
to its end, `ros::spin` serves every timer in turn (strong fairness of the retry
timer and the watchdog: dynamic reconfigure may interrupt them for ever), the lidar
and the network do their work when they do not misbehave, and time passes.
No scan is ever owed: `StreamScan` has no fairness. `StatusTopics` owes the
service no scan either; `ros::spin` handles a message that is in a queue. `UrgNode`: weak fairness of each thread only. A mutex that
others take again and again is owed to nobody, which is why `FlagIsHeeded` needs
the flag, and why `NodeEnds` excepts a service that waits for ever: the scan
thread clears the flag some time after its pause, and a service that raises it in
between waits with its flag down. `StreamsAgain` asks that the main thread is at
rest in the end, and both except a reply that never comes (`read()` has no
timeout) and a crash, by a null `urg_` (see `Reloops`) or by a reply (`Failed`).

### Disagreements found

Each has a run that TLC violates.

* `uam_ros_multiecho` / `Recovers`: with `use_multi_echo` the stop command of
  `stopStreaming()` is AR06, the code of the scans; its reply goes to
  `scanCallback`, `unsubscribe()` times out and the mode is never reset. After the
  first lost link no attempt to configure succeeds.
* `configuration_id_late` / `CrcsOfSafetyAreas`: the id tool swallows a timeout
  and carries on with the same connection, so a late reply to ID00 becomes the
  reply of the first safety area.
* `scan_params_lookup` / `LookupCoversScan`: the static sine and cosine table
  has the size of the field of view, and is indexed by the whole scan.
* `urg_node_reloops` / `Reloops`: the scan thread resets `urg_` without
  `lidar_mutex_`. In the run a start of the lidar fails and the scan thread gives
  the connection up (`StartFails`, `urg_node_driver.cpp:564`) while
  `reconfigure_callback()`, or the diagnostics thread, has tested `urg_` and not yet
  used it (`UseNull`, `DiagnoseNull`); the node that should reconnect ends. A service that
  holds the mutex meets the same (`QueryNull`), a few steps later, and so do
  all three after too many errors (`Limit`, `:629`). The property looks for the use
  of a null `urg_` alone, so that a crash over a lost reply does not violate it.
* `packets_errors` / `ErrorIsReported`: a comment in `WorkerBase::process` says that the
  status of a valid but unexpected packet is reported. `validateCrc()` has its
  two branches the wrong way round for a wrong size, so no such status ever is.

Four things that the properties leave open, because the source promises nothing
else: an area that the sensor refuses is cached and published with the ranges of
another (`yr_worker.h:135`), and a text reply that is cut can end the process by an
exception in the io thread (`scip_worker.h:212`, `result = "thrown"`). In the older
node a lost reply can end the process: by an empty string whose checksum is taken
(`uam_worker_base.h:399`), or in the scan thread by the exceptions of `updateStatus()`,
which nobody catches there (`urg_node_driver.cpp:544`). With
`use_multi_echo` `NoStartupScan` does not hold: the reply to the stop command passes for
a scan before `discard_data_until_` is set (the root is that of `Recovers`, so
it has no run of its own).

## 4. What is proved

Every invariant of every passing run is a theorem for all values of the
constants, and so is the one action property, `ClockFollowsSensor`. Three steps of the UAM
node's stack are refinements that are proved, one inside the other: the node
is a client of `UamDriver` (`DriverRefined`), which is a client of `TcpClient`
(`ClientRefined`), whose reads are those of `PacketReader` (`OneReaderRefined`).

**Assumptions.** Those that the modules name on their constants, which TLC
evaluates in the runs (bounds are numbers, the frames of a client are of
one kind each, the queries of a driver are commands it has, the node has one area
at least). Beyond them, where a theorem says so: `Settle` (section 2), without
which TLC finds the second chain and most of what follows is false; and
`Streaming # "AR07"` for `NoStartupScanAlways` alone, which is false with
multiple echoes. `TypeOK` of the three, `ClientRefined`, `DriverRefined` and
`NeverStuckAlways` need neither.

**TcpClient** (`TcpClient_proofs`). `TypeCorrect` is `Spec => []TypeOK`. `OneChainAlways`,
`LineReadsAloneAlways` and `StoppedIsTruthfulAlways` assume `Settle`. None of the
three is inductive. `OneChain` needs to know that the client
starts a chain only when none is alive, which is what `stopped_` says only in
some of the points of the caller's methods, so the inductive invariant `IInv`
adds, to `TypeOK`, `OneChain` and `LineReadsAlone`: what each point of the caller's methods says about
`connected_` and `stopped_` (`CallerInv`), about the pending connection
(`DialInv`) and the socket (`SocketInv`), and what the two flags say about the
chain (`ReaderInv`): with a connection established and no method in between,
`stopped_` is clear exactly when a chain is alive, and without a connection the
chain that is left can only die. Every action is one lemma or step, with one
sub-step per conjunct that it can disturb. `OneReaderRefined` is the safety half of
`ReadsLikeOneReader`: `IInv` and what the io thread handles (`FrameInv`) map every
step to a step of `PacketReader` or to a stutter. `NoLateLine` adds that the line read of
an earlier call is gone before the next one begins (`LineInv`): its handler never
runs in another session, nor when nobody waits for the line. (That the function object it
refers to has ended is another matter, section 5.)

**UamDriver** (`UamDriver_proofs`). `DriverTyped` and `ClientRefined`; the invariants of
the client are then those of the client in the driver. `ReplyAnswersCommandAlways`,
`StreamIsKnownAlways` and `WaitHasReaderAlways` follow from one invariant,
`DriverInv`. Replies have no identity, so why does a reply answer the command that
waits? Because on a connection nothing but that reply can come (`ReplyInv`:
whatever is asked, on the wire, being read or in the hands of the io thread is the
reply to the command that waits, with its ticket, or a scan; an expired command closes its
connection), because a new connection has nothing left of the old one (`FreshInv`),
and because the flag is clear when a command begins to wait (`ReadyInv`). `StreamInv` follows a stream from the command that starts it to the reply
that says so, and `CallInv` says at each step of a command what `connected_`, the chain and
the mode are.

**UamROS** (`UamROS_proofs`). `DriverRefined`, `NodeTyped` and `NeverStuckAlways`, the last
by an invariant of its own (`TimerInv`): at every point of `ros::spin` a node that is not
configured has its timer armed. The other four follow from `NodeInv`: the invariant of the driver, with what each statement
of `configure()` and each callback of `ros::spin` says of the driver's command
(`CommandInv`), of the connection and `configured_` (`ConnectionInv`), of the
subscription (`ModeInv`), of the deadline of the startup data (`DiscardInv`), and
`ScanInv`: wherever the main thread writes what `scanCallback` uses without a lock,
no scan is handled and none can come (`Quieted`, `NoScan`). That no scan can come is a
statement about everything between the lidar's memory and the io thread: no
stream, no unanswered command that starts one, no scan on the wire or being read.

**PacketStream** (`PacketStream_proofs`). `StreamTyped`, `Resynchronises`,
`BufferHolds` and `DecodedIsAlwaysOwnReply`, for any set of foreign messages. `Resynchronises` is the
arithmetic of the framing: a lost scan moves the offset of the reader by the
size of the scan modulo eleven, which is not zero for any of the three scans
(4379, 8703 and 8699 bytes), so that scan after scan the offset goes through
all eleven values; the invariant bounds the scans that were lost and those
that are still to go from the present offset (`ScansToGo`) by ten together. The
prover computes the three sizes from the layout in `UamProtocol`.

**SafetyAreas** (`SafetyAreas_proofs`). `AreasAreAlwaysTheSensors`,
`TopicsAlwaysShowReported` and `PointsAlwaysOfAppliedArea`, for any sensor and any
number of areas and types. The invariant follows `readSafetyAreas()` through its
loops: what lies before the area that is asked for next is read and right
(`ReadSoFar`), the loops pass over every area once (`BeforeFollowing`, `AllBeforeEnd`), so a
list that is swapped in is whole (`WholeOnceRead`), and `Index` undoes `Number`.

**Algorithms_proofs.** *ScanParams*: `FieldAlwaysWithinLimits` and
`RequestAlwaysCovered`, for any number of steps, any resolution and any angles:
rounding goes away from the front (`FloorBelow`, `CeilingAbove`), the
conversion back is monotone (`StepIsMonotone`), so each end covers its angle or is
the end of the sensor's range (`LowerEnd`, `UpperEnd`), and the two do not cross
(`EndsInOrder`). *SynchronizedTime*: `ClockTyped`, `WarpsAreReal` and
`ClockFollows`, for any period of the counter, any limit, settling time and
jitter. The invariant ties the hardware clock to the age of the sensor, so that
every difference is an offset shifted by the same amount and the average stays
between the least and the greatest of them. *ScipLine*: `FieldsAlwaysTheSensors` and `TextAlwaysHeals`,
for any number of texts that are cut. Two lines with a number that stand together are a
field and the one after it, and only the second may be cut short
(`Follows`), because a text begins with two lines that have none; so seven in a row can
only be the seven fields that are decoded. A whole text takes as many lines
as it brings, so the buffer holds ten lines for each cut at most
(`LengthInv`), and each failed command but the first has taken eleven of
them (`HealInv`). *MCAlgorithms*: `PartsByThemselves` says that the specification
of the run implies that of each component, and `PartsTyped` is the type
invariant of the run.

**StatusTopics** (`StatusTopics_proofs`). `UpdateTopicAlwaysCurrent` for the service
alone: the invariant says what the io thread remembers in `on_update_status`
between the comparison and the publication. `TopicsTyped` and `AggregateAlwaysCurrent`
for the two nodes, any statuses, any topics and any number of restarts. The
second is not inductive: `TopicsInv` adds that the latched message of the
lidar is what its node published last, that the aggregate holds either that
message or one that the inbox will replace, and that what is published differs
from the table only while nothing was ever heard.

**UrgNode** (`UrgNode_proofs`). `TypeCorrect` and `OvertakenOnceAlways`, for every error
limit and any number of faults. `OvertakenOnce` is not inductive: the inductive
`IInv` adds that whoever holds the mutex is at a point of its own (`MutexInv`), that
the errors pass the limit only on the way out (`ErrorsInv`), and that a service
that was overtaken finds the scan thread before the end of the pause it owes
(`OvertakenInv`); the end of the pause needs `MutexInv`, since a free mutex lets the
service in first.

Each of the inductive invariants was an invariant of a TLC run before it was
proved.

**Only model-checked:** liveness, which is out of the prover's reach (`StreamsForGood`,
`ToolEnds`, `ServiceReturns`, `StatusArrives`, `FlagIsHeeded`, `StreamsAgain`, `NodeEnds`, and
the half of `ReadsLikeOneReader` that says that the loop of a closed session ends).

## 5. What is not modelled

* The conversion of hexadecimal text (`visitor.h`): the fields of a packet with a
  right checksum are taken to be numbers. The encoding of commands and the
  texts of errors.
* A frame that claims less than the size of a header: `missing_read`
  (`tcp_client.cpp:275`) wraps, and the outcome is undefined.
* The dangling reference of `asyncReadLine()` (`tcp_client.h:185`), the
  destroyed buffer of a late write (`tcp_client.h:128`) and the index past the end of
  a safety area in a multi-echo scan (`uam_driver_ros.h:236`): undefined behaviour with
  no useful set of outcomes.
* Parameters, entry points, launch files, messages, URDF: they only give the
  constants their values.
* Of the older node: the publishers (a lidar that does not support multi-echo
  turns `publish_multiecho_` off after the advertisement), the registration at the
  diagnostics aggregator, and the body of a reply whose header came in fragments:
  its size is decoded from the last fragment alone (`urg_c_wrapper.cpp:551`), the body
  stays in the socket and is taken for the next reply. The clustering of angle limits orders its
  steps as `ScanParams` does. `getDL00Status()` looks for the end of the reports one
  place too late (`urg_c_wrapper.cpp:457`).

## 6. Plan

1. Proofs: the id tool as a client of the driver (`SafetyConfigurationId`
   implements `UamDriver`), with what holds of its replies until the timeout
   that it swallows; that `StatusTopics` implements `StatusService`; what the destructor
   of `UrgNode` may rely on.
2. The wrapper of the older node: replies in fragments, the detection reports,
   the clustering of angle limits.
