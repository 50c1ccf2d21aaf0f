---------------------------- MODULE UamROS_proofs ----------------------------
(***************************************************************************)
(* Theorems about the ROS node, for every subscription, number of areas    *)
(* and bound: it is a client of the driver as UamDriver allows, it never   *)
(* sits idle, and what the main thread and the io thread share without a   *)
(* lock is never used by both.                                             *)
(***************************************************************************)
EXTENDS UamROS, SequenceTheorems, TLAPS

D == INSTANCE UamDriver_proofs

(***************************************************************************)
(* THE DRIVER INSIDE THE NODE                                              *)
(***************************************************************************)
\* The queries of the node are queries as the driver wants them.
LEMMA DriverAssumptions ==
  /\ D!QueriesAssumption /\ D!StreamingAssumption /\ D!MaxAskedAssumption
  /\ D!ClientBoundAssumption
BY StreamingAssumption, NumbersAssumption, ClientAssumption
DEF D!QueriesAssumption, D!StreamingAssumption, D!MaxAskedAssumption,
    D!ClientBoundAssumption, Queries, D!Modes

\* What UamDriver says of its state and its steps is the same by either name.
LEMMA SameState ==
  /\ Drv!Init <=> D!Init
  /\ Drv!TypeOK <=> D!TypeOK
  /\ Drv!TypeOK' <=> D!TypeOK'
<1>1. Drv!Init <=> D!Init
  BY DEF Drv!Frame, D!Frame, Drv!INVALID, D!INVALID, Drv!Init, D!Init, Drv!NoCommand,
     D!NoCommand, Drv!NoFrame, D!NoFrame, Drv!Tcp!At, D!Tcp!At, Drv!Tcp!Init, D!Tcp!Init
<1>2. (Drv!TypeOK <=> D!TypeOK) /\ (Drv!TypeOK' <=> D!TypeOK')
  BY DEF Drv!CommandReplies, D!CommandReplies, Drv!Commands, D!Commands, Drv!Frame,
     D!Frame, Drv!INVALID, D!INVALID, Drv!Modes, D!Modes, Drv!NoCommand, D!NoCommand,
     Drv!NoFrame, D!NoFrame, Drv!Noise, D!Noise, Drv!Packets, D!Packets, Drv!Scans,
     D!Scans, Drv!Steps, D!Steps, Drv!StopCommand, D!StopCommand, Drv!Texts, D!Texts,
     Drv!TypeOK, D!TypeOK, Drv!Tcp!DataTyped, D!Tcp!DataTyped, Drv!Tcp!FlagsTyped,
     D!Tcp!FlagsTyped, Drv!Tcp!Frames, D!Tcp!Frames, Drv!Tcp!Handlers, D!Tcp!Handlers,
     Drv!Tcp!IoPoints, D!Tcp!IoPoints, Drv!Tcp!ReadKinds, D!Tcp!ReadKinds,
     Drv!Tcp!ReadOps, D!Tcp!ReadOps, Drv!Tcp!TypeOK, D!Tcp!TypeOK
<1> QED BY <1>1, <1>2

LEMMA SameNetwork ==
  /\ Drv!Answer <=> D!Answer
  /\ Drv!Refuse <=> D!Refuse
  /\ Drv!Ignore <=> D!Ignore
  /\ Drv!StreamScan <=> D!StreamScan
  /\ Drv!PeerDrops <=> D!PeerDrops
  /\ Drv!ReadCompletes <=> D!ReadCompletes
  /\ Drv!ReadFails <=> D!ReadFails
  /\ \A ok \in BOOLEAN : Drv!Established(ok) <=> D!Established(ok)
BY DEF Drv!Answer, D!Answer, Drv!EndsStream, D!EndsStream, Drv!Established,
     D!Established, Drv!Frame, D!Frame, Drv!INVALID, D!INVALID, Drv!Ignore, D!Ignore,
     Drv!Modes, D!Modes, Drv!Network, D!Network, Drv!NoFrame, D!NoFrame, Drv!PeerDrops,
     D!PeerDrops, Drv!ReadCompletes, D!ReadCompletes, Drv!ReadFails, D!ReadFails,
     Drv!Refusal, D!Refusal, Drv!Refuse, D!Refuse, Drv!ScanOf, D!ScanOf, Drv!StreamScan,
     D!StreamScan, Drv!Take, D!Take, Drv!Texts, D!Texts, Drv!call, D!call, Drv!client,
     D!client, Drv!lidar, D!lidar, Drv!Tcp!Arrive, D!Tcp!Arrive, Drv!Tcp!Complete,
     D!Tcp!Complete, Drv!Tcp!Established, D!Tcp!Established, Drv!Tcp!IsLine, D!Tcp!IsLine,
     Drv!Tcp!Op, D!Tcp!Op, Drv!Tcp!PeerDrops, D!Tcp!PeerDrops, Drv!Tcp!ReadCompletes,
     D!Tcp!ReadCompletes, Drv!Tcp!ReadFails, D!Tcp!ReadFails

LEMMA SameIoThread == Drv!IoThread <=> D!IoThread
BY DEF Drv!CommandReplies, D!CommandReplies, Drv!Frame, D!Frame, Drv!IoThread,
     D!IoThread, Drv!LineCallback, D!LineCallback, Drv!NoFrame, D!NoFrame,
     Drv!PacketCallback, D!PacketCallback, Drv!Packets, D!Packets, Drv!ReaderRuns,
     D!ReaderRuns, Drv!Scans, D!Scans, Drv!Signal, D!Signal, Drv!call, D!call, Drv!lidar,
     D!lidar, Drv!Tcp!ArmHeader, D!Tcp!ArmHeader, Drv!Tcp!At, D!Tcp!At,
     Drv!Tcp!BodyToCome, D!Tcp!BodyToCome, Drv!Tcp!CallbackReturns, D!Tcp!CallbackReturns,
     Drv!Tcp!CheckConnected, D!Tcp!CheckConnected, Drv!Tcp!Die, D!Tcp!Die,
     Drv!Tcp!Dispatch, D!Tcp!Dispatch, Drv!Tcp!HandleConnect, D!Tcp!HandleConnect,
     Drv!Tcp!HandleLine, D!Tcp!HandleLine, Drv!Tcp!HandlePacket, D!Tcp!HandlePacket,
     Drv!Tcp!HandleReceive, D!Tcp!HandleReceive, Drv!Tcp!Op, D!Tcp!Op, Drv!Tcp!StartBody,
     D!Tcp!StartBody, Drv!Tcp!StartRead, D!Tcp!StartRead

LEMMA SameCaller ==
  /\ Drv!Caller <=> D!Caller
  /\ Drv!Send <=> D!Send
  /\ Drv!Tcp!ConnectDone <=> D!Tcp!ConnectDone
BY DEF Drv!Call, D!Call, Drv!Caller, D!Caller, Drv!CommandReplies, D!CommandReplies,
     Drv!Connect, D!Connect, Drv!Connecting, D!Connecting, Drv!Disconnect, D!Disconnect,
     Drv!Disconnecting, D!Disconnecting, Drv!EnsureReader, D!EnsureReader, Drv!Expire,
     D!Expire, Drv!Frame, D!Frame, Drv!GetConfigurationId, D!GetConfigurationId,
     Drv!GetSafetyArea, D!GetSafetyArea, Drv!GetScanDetails, D!GetScanDetails,
     Drv!GetSensorStatus, D!GetSensorStatus, Drv!GetVersionDetails, D!GetVersionDetails,
     Drv!INVALID, D!INVALID, Drv!ModeAfter, D!ModeAfter, Drv!Modes, D!Modes,
     Drv!NoCommand, D!NoCommand, Drv!NoFrame, D!NoFrame, Drv!Operation, D!Operation,
     Drv!Packets, D!Packets, Drv!Prepare, D!Prepare, Drv!Query, D!Query, Drv!ReadLine,
     D!ReadLine, Drv!Return, D!Return, Drv!Scans, D!Scans, Drv!Send, D!Send,
     Drv!SendFails, D!SendFails, Drv!StartStreaming, D!StartStreaming, Drv!StartingReader,
     D!StartingReader, Drv!StopCommand, D!StopCommand, Drv!call, D!call, Drv!client,
     D!client, Drv!lidar, D!lidar, Drv!Tcp!Abandoned, D!Tcp!Abandoned,
     Drv!Tcp!AsyncReadLine, D!Tcp!AsyncReadLine, Drv!Tcp!BodyToCome, D!Tcp!BodyToCome,
     Drv!Tcp!ClearStopped, D!Tcp!ClearStopped, Drv!Tcp!CloseDescriptor,
     D!Tcp!CloseDescriptor, Drv!Tcp!CloseSocket, D!Tcp!CloseSocket, Drv!Tcp!Connect,
     D!Tcp!Connect, Drv!Tcp!ConnectDone, D!Tcp!ConnectDone, Drv!Tcp!ConnectFailed,
     D!Tcp!ConnectFailed, Drv!Tcp!ConnectTimeout, D!Tcp!ConnectTimeout,
     Drv!Tcp!Disconnect, D!Tcp!Disconnect, Drv!Tcp!IsConnect, D!Tcp!IsConnect,
     Drv!Tcp!IsLine, D!Tcp!IsLine, Drv!Tcp!LineOutstanding, D!Tcp!LineOutstanding,
     Drv!Tcp!LineReturned, D!Tcp!LineReturned, Drv!Tcp!LineTimeout, D!Tcp!LineTimeout,
     Drv!Tcp!Op, D!Tcp!Op, Drv!Tcp!SetOption, D!Tcp!SetOption, Drv!Tcp!SetStopped,
     D!Tcp!SetStopped, Drv!Tcp!Settled, D!Tcp!Settled, Drv!Tcp!StartAsyncReadTask,
     D!Tcp!StartAsyncReadTask, Drv!Tcp!StartRead, D!Tcp!StartRead

LEMMA SameNext ==
  /\ Drv!Next <=> D!Next
  /\ (UNCHANGED Drv!vars) <=> (UNCHANGED D!vars)
<1>1. Drv!Next <=> D!Next
  BY SameNetwork, SameIoThread, SameCaller DEF Drv!Next, D!Next, Drv!Lidar, D!Lidar
<1>2. (UNCHANGED Drv!vars) <=> (UNCHANGED D!vars)
  BY DEF Drv!call, D!call, Drv!client, D!client, Drv!lidar, D!lidar, Drv!vars, D!vars
<1> QED BY <1>1, <1>2

\* The main thread is the caller of the driver, or the power supply of the
\* lidar, which it may cut.
LEMMA MainDriver == Main => Drv!Caller \/ Drv!PeerDrops \/ UNCHANGED driver
<1> SUFFICES ASSUME Main PROVE Drv!Caller \/ Drv!PeerDrops \/ UNCHANGED driver
  OBVIOUS
<1>1. CASE Configure
  <2>1. CASE Connect \/ Connecting \/ Proceed \/ Return \/ Throw \/ CatchDisconnects
    BY <2>1 DEF Connect, Connecting, Proceed, Return, Throw, CatchDisconnects, Drv!Caller
  <2>2. CASE Start \/ StartStreaming
    BY <2>2 DEF Start, StartStreaming, Calls, Queries, Drv!Caller, Drv!Operation
  <2>3. CASE \/ ConnectReturns \/ WriteParams \/ AreasCached \/ SwapAreas
             \/ PublishStatus \/ Stamp \/ Catch
    BY <2>3 DEF ConnectReturns, WriteParams, AreasCached, SwapAreas, PublishStatus, Stamp,
       Catch
  <2> QED BY <1>1, <2>1, <2>2, <2>3 DEF Configure
<1>2. CASE ConfigureTimer \/ Watchdog \/ DynamicReconfigure \/ Reconfigures
  BY <1>2 DEF ConfigureTimer, Watchdog, DynamicReconfigure, Reconfigures, NewDeadline,
     ParamsChanged
<1>3. CASE WatchdogRuns
  BY <1>3 DEF WatchdogRuns, WatchdogReset, TriggerReconfigure, Disconnecting,
     WatchdogReturns, Drv!Caller
<1> QED BY <1>1, <1>2, <1>3 DEF Main

\* The io thread runs the handlers of the driver, and scanCallback() in one.
LEMMA IoDriver == IoThread => Drv!IoThread \/ UNCHANGED driver
BY DEF IoThread, ScanStamp, ScanLimits, ScanPublish, CallbackReturns, ReaderRuns,
   LineCallback, Drv!IoThread

\* What the driver meets with outside the node.
LEMMA EnvironmentDriver ==
  Environment => \/ Drv!Lidar \/ (\E ok \in BOOLEAN : Drv!Established(ok))
                 \/ Drv!PeerDrops \/ Drv!ReadCompletes \/ Drv!ReadFails
                 \/ UNCHANGED driver
<1>1. TRUE \in BOOLEAN /\ FALSE \in BOOLEAN
  BY Zenon
<1> QED BY <1>1 DEF Environment, Serves, Misbehaves, Silence, DeadlinePasses,
           IntervalPasses, Drv!Lidar

\* Every step of the node is a step of its driver, or none of it.
LEMMA DriverSteps == [Next]_vars => [Drv!Next]_(Drv!vars)
<1>1. Next => Drv!Next \/ UNCHANGED driver
  BY MainDriver, IoDriver, EnvironmentDriver DEF Next, Drv!Next
<1>2. UNCHANGED vars => UNCHANGED driver
  BY DEF vars
<1>3. UNCHANGED driver => UNCHANGED Drv!vars
  BY DEF driver, client, Drv!vars, Drv!client, Drv!call, Drv!lidar
<1> QED BY <1>1, <1>2, <1>3

\* The node uses its driver as UamDriver says it may be used: what the proofs
\* and the runs say of the driver alone holds of the driver in the node.
THEOREM DriverRefined == Spec => Drv!Spec
<1>1. Init => Drv!Init
  BY DEF Init
<1>2. [Next]_vars => [Drv!Next]_(Drv!vars)
  BY DriverSteps
<1> QED BY <1>1, <1>2, PTL DEF Spec, Drv!Spec

(***************************************************************************)
(* TYPES                                                                   *)
(***************************************************************************)
AreaInv == pc \notin {"swap", "catch"} => area < Areas

TypeInv == D!TypeInv /\ TypeOK /\ AreaInv

LEMMA TypeInit == Init => TypeInv
<1> SUFFICES ASSUME Init PROVE TypeInv
  OBVIOUS
<1>1. D!TypeInv
  BY DriverAssumptions, D!TypeInit, SameState DEF Init
<1>2. Drv!TypeOK
  BY <1>1, SameState DEF D!TypeInv
<1>3. {configured, timer, cached, rested, fresh, watchdog, reconf} \subseteq BOOLEAN
  BY DEF Init
<1>4. AreaInv /\ attempts \in 0..(ConfigureAttempts + 1) /\ area \in 0..Areas
  BY NumbersAssumption DEF Init, AreaInv
<1>5. faults \in 0..MaxFaults
  BY NumbersAssumption DEF Init
<1>6. pc \in Points /\ scan = "none" /\ discard = "unset"
  BY DEF Init, Points
<1> QED BY <1>1, <1>2, <1>3, <1>4, <1>5, <1>6 DEF TypeInv, TypeOK

LEMMA TypeStep == TypeInv /\ [Next]_vars => TypeInv'
<1> SUFFICES ASSUME TypeInv, [Next]_vars PROVE TypeInv'
  OBVIOUS
<1> DEFINE Own == /\ pc \in Points
                  /\ {configured, timer, cached, rested, fresh, watchdog, reconf}
                       \subseteq BOOLEAN
                  /\ attempts \in 0..(ConfigureAttempts + 1)
                  /\ area \in 0..Areas
                  /\ scan \in {"none", "limits", "publish", "done"}
                  /\ discard \in {"unset", "running", "over"}
                  /\ faults \in 0..MaxFaults
                  /\ AreaInv
<1>1. D!TypeInv'
  BY DriverSteps, SameNext, DriverAssumptions, D!TypeStep DEF TypeInv
<1>2. Drv!TypeOK'
  BY <1>1, SameState DEF D!TypeInv
<1>3. Own
  BY DEF TypeInv, TypeOK
<1> SUFFICES Own'
  BY <1>1, <1>2 DEF TypeInv, TypeOK
<1> USE NumbersAssumption DEF AreaInv, Points, NoFault, retry, locks, data
<1>4. faults' \in 0..MaxFaults
  <2>1. NoFault \/ Fault
    BY DEF Next, vars, Main, Configure, WatchdogRuns, Reconfigures, IoThread, Environment,
       Connect, Connecting, ConnectReturns, Start, Proceed, Return, StartStreaming,
       WriteParams, AreasCached, SwapAreas, PublishStatus, Stamp, Throw, CatchDisconnects,
       Catch, ConfigureTimer, Watchdog, WatchdogReset, TriggerReconfigure, Disconnecting,
       WatchdogReturns, DynamicReconfigure, NewDeadline, ParamsChanged, ScanStamp,
       ScanLimits, ScanPublish, CallbackReturns, ReaderRuns, LineCallback, Serves,
       Misbehaves, Silence, DeadlinePasses, IntervalPasses
  <2> QED BY <1>3, <2>1 DEF Fault
<1>5. CASE UNCHANGED vars
  BY <1>3, <1>5 DEF vars
<1>6. CASE \/ Connect \/ Connecting \/ ConnectReturns \/ Start \/ Proceed
           \/ CatchDisconnects \/ Throw
  BY <1>3, <1>4, <1>6 DEF Connect, Connecting, ConnectReturns, Start, Proceed,
     CatchDisconnects, Throw
<1>7. CASE Return \/ StartStreaming
  <2>1. CASE pc = "start" /\ Configured /\ UNCHANGED <<cached, fresh, discard, scan, locks>>
    BY <1>3, <1>4, <2>1 DEF Configured
  <2>2. CASE UNCHANGED <<pc, retry, locks, data, scan>>
    BY <1>3, <1>4, <2>2
  <2>3. CASE Return /\ pc # "start"
    <3>1. /\ UNCHANGED <<retry, locks, cached, fresh, discard, scan>>
          /\ \/ area' = area /\ pc' \in {"params", "areas", "status", "publish"}
                /\ pc # "areas"
             \/ pc = "areas" /\ area' = area + 1 /\ pc' = AfterArea(area')
      BY <2>3 DEF Return, After
    <3>2. area' \in 0..Areas /\ (pc' # "swap" => area' < Areas)
      BY <1>3, <2>3, <3>1 DEF AfterArea, Return
    <3>3. pc' \in Points
      BY <3>1 DEF AfterArea
    <3> QED BY <1>3, <1>4, <3>1, <3>2, <3>3
  <2> QED BY <1>7, <2>1, <2>2, <2>3 DEF Return, StartStreaming
<1>8. CASE WriteParams \/ AreasCached \/ SwapAreas \/ PublishStatus \/ Stamp \/ Catch
  <2>1. CASE WriteParams \/ AreasCached \/ PublishStatus \/ Stamp
    BY <1>3, <1>4, <2>1 DEF WriteParams, AreasCached, PublishStatus, Stamp, After
  <2>2. CASE SwapAreas
    BY <1>3, <1>4, <2>2 DEF SwapAreas, After
  <2>3. CASE Catch
    <3>1. attempts' \in 0..(ConfigureAttempts + 1)
      BY <1>3, <2>3 DEF Catch
    <3>2. /\ pc' = "spin" /\ configured' = FALSE /\ timer' = TRUE /\ area' = 0
          /\ UNCHANGED <<locks, cached, fresh, discard, scan>>
      BY <2>3 DEF Catch
    <3>3. rested' = FALSE \/ rested' = rested
      BY <2>3 DEF Catch
    <3>4. AreaInv' /\ area' \in 0..Areas
      BY <3>2
    <3>5. {configured, timer, cached, rested, fresh, watchdog, reconf}' \subseteq BOOLEAN
      BY <1>3, <3>2, <3>3
    <3> QED BY <1>3, <1>4, <3>1, <3>2, <3>4, <3>5
  <2> QED BY <1>8, <2>1, <2>2, <2>3
<1>9. CASE \/ ConfigureTimer \/ Watchdog \/ WatchdogRuns \/ DynamicReconfigure
           \/ Reconfigures
  BY <1>3, <1>4, <1>9 DEF ConfigureTimer, Watchdog, WatchdogRuns, WatchdogReset,
     TriggerReconfigure, Disconnecting, WatchdogReturns, DynamicReconfigure, Reconfigures,
     NewDeadline, ParamsChanged
<1>10. CASE IoThread
  BY <1>3, <1>4, <1>10 DEF IoThread, ScanStamp, ScanLimits, ScanPublish, CallbackReturns,
     ReaderRuns, LineCallback
<1>11. CASE Environment
  BY <1>3, <1>4, <1>11 DEF Environment, Serves, Misbehaves, Silence, DeadlinePasses,
     IntervalPasses
<1> QED BY <1>5, <1>6, <1>7, <1>8, <1>9, <1>10, <1>11 DEF Next, Main, Configure

\* Every variable of the node keeps its type, those of its driver and of its
\* client included: the areas and the attempts are counted within their bounds.
THEOREM NodeTyped == Spec => []TypeOK
<1>1. TypeInv => TypeOK
  BY DEF TypeInv
<1> QED BY <1>1, TypeInit, TypeStep, PTL DEF Spec

(***************************************************************************)
(* THE RETRY TIMER                                                         *)
(***************************************************************************)
TimerInv == pc \in {"spin", "deadline", "changed"} /\ ~configured => timer

LEMMA TimerStep == TimerInv /\ [Next]_vars => TimerInv'
<1> SUFFICES ASSUME TimerInv, [Next]_vars PROVE TimerInv'
  OBVIOUS
<1> USE DEF TimerInv, retry
<1>1. CASE UNCHANGED vars
  BY <1>1 DEF vars
<1>2. CASE Configure
  BY <1>2 DEF Configure, Connect, Connecting, ConnectReturns, Start, Proceed, Return,
     StartStreaming, Configured, WriteParams, AreasCached, SwapAreas, PublishStatus, Stamp,
     Throw, CatchDisconnects, Catch, After, AfterArea
<1>3. CASE \/ ConfigureTimer \/ Watchdog \/ WatchdogRuns \/ DynamicReconfigure
           \/ Reconfigures
  BY <1>3 DEF ConfigureTimer, Watchdog, WatchdogRuns, WatchdogReset, TriggerReconfigure,
     Disconnecting, WatchdogReturns, DynamicReconfigure, Reconfigures, NewDeadline,
     ParamsChanged
<1>4. CASE IoThread \/ Environment
  BY <1>4 DEF IoThread, ScanStamp, ScanLimits, ScanPublish, CallbackReturns, ReaderRuns,
     LineCallback, Environment, Serves, Misbehaves, Silence, DeadlinePasses, IntervalPasses
<1> QED BY <1>1, <1>2, <1>3, <1>4 DEF Next, Main

\* A node that is not configured and in ros::spin has its retry timer running:
\* whatever way configure() fails and whoever gives the connection up, there is
\* something left to wake the node.
THEOREM NeverStuckAlways == Spec => []NeverStuck
<1>1. Init => TimerInv
  BY DEF Init, TimerInv
<1>2. TimerInv => NeverStuck
  BY DEF TimerInv, NeverStuck
<1> QED BY <1>1, <1>2, TimerStep, PTL DEF Spec

(***************************************************************************)
(* THE INDUCTIVE INVARIANT                                                 *)
(*                                                                         *)
(* What each point of the main thread knows of the driver below it, and,   *)
(* for the io thread, that a connection on which nothing was subscribed    *)
(* yet carries no scan: none is streamed, none asked for, none on its way. *)
(***************************************************************************)
\* The points at which configure() has a connection, and those of ros::spin.
Busy  == {"details", "params", "version", "areas", "swap", "status", "publish", "stamp",
          "start"}
Rests == {"spin", "deadline", "changed", "reset", "trigger"}

Stop == Drv!StopCommand(Streaming)

\* The command that is in progress at each point of configure().
CommandInv ==
  /\ \/ command = "none"
     \/ pc = "details" /\ command = "PP"
     \/ pc = "version" /\ command = "VR00"
     \/ pc = "areas" /\ command = "YR" /\ ~cached
     \/ pc = "status" /\ command = Stop /\ then = "XR00" /\ mode = Streaming
     \/ pc = "status" /\ command = "XR00" /\ mode = "INVALID"
     \/ pc = "start" /\ command = Streaming
  /\ then # "none" => command = Stop

ConnectionInv ==
  /\ pc \in {"connect", "catch", "triggered"} => ~connected
  /\ pc \in Busy \cup {"connect", "connecting"} => ~configured
  /\ pc \in Busy => connected
  /\ pc \in {"reset", "trigger"} => configured
  /\ pc \in Rests => (configured <=> connected)
  /\ pc \in {"connect", "params", "swap", "publish", "stamp"} \cup Rests => caller = "idle"
  /\ pc \in {"details", "params"} => stopped
  /\ pc = "connecting" /\ connected => stopped

ModeInv ==
  /\ pc \in {"publish", "stamp", "start"} => mode = "INVALID"
  /\ pc \in {"status", "publish", "stamp", "start"} => cached
  /\ pc \in Rests /\ configured =>
       ~stopped /\ cached /\ mode = Streaming /\ stream = Streaming

DiscardInv ==
  /\ connected /\ pc \in (Busy \ {"start"}) \cup {"connecting"} => discard = "unset"
  /\ pc = "start" => discard # "unset"

MainInv == CommandInv /\ ConnectionInv /\ ModeInv /\ DiscardInv

\* The scans, and what the lidar is asked when it answers with one or starts
\* to stream them.
ScanFrames   == {frame \in D!Packets : frame.name \in D!Scans}
ScanSendings == [name : D!Scans \cup {Streaming}, ticket : {0, 1}]

NoScan == stream = "INVALID" /\ ~D!Coming(ScanFrames) /\ ~D!Any(asked, ScanSendings)

\* When no scan may be: until the deadline of the connection is set, unless
\* the end of AR07 is asked for with AR06, which is answered with a scan's name.
Quieted == discard = "unset" /\ command # "AR06" /\ (connected \/ Streaming # "AR07")

ScanInv ==
  /\ scan # "none" => IsScan
  /\ Quieted => NoScan

NodeInv == TypeInv /\ D!DriverInv /\ MainInv /\ ScanInv

(***************************************************************************)
(* WHAT THE DRIVER DOES                                                    *)
(***************************************************************************)
LEMMA Names ==
  /\ Streaming \in {"AR02", "AR04", "AR07"} /\ Stop \in {"AR03", "AR05", "AR06"}
  /\ Stop = D!StopCommand(Streaming) /\ (Stop = "AR06" => Streaming = "AR07")
BY StreamingAssumption DEF Stop, Drv!StopCommand, D!StopCommand

\* What the driver's invariant tells the node.
LEMMA DriverFacts ==
  ASSUME D!DriverInv
  PROVE  /\ step = "none" <=> command = "none"
         /\ connected => caller \notin {"connecting", "closing", "stopping"}
         /\ ~connected =>
              step = "none" /\ caller \in {"idle", "connecting", "closing", "stopping"}
         /\ caller \in {"connecting", "option"} => stopped
         /\ step = "none" => caller \notin {"starting", "line", "failed"}
         /\ connected /\ step = "none" => asked = <<>>
         /\ step = "wait" /\ ready =>
              command # "AR06" /\ (command = Streaming => stream = Streaming)
         /\ command = "PP" => caller # "starting"
         /\ step = "wait" /\ command # "PP" => caller = "idle" /\ ~stopped
<1> USE DriverAssumptions
<1>1. /\ step = "none" <=> command = "none"
      /\ step = "none" => caller \notin {"starting", "line", "failed"}
      /\ step # "none" => connected
  BY DEF D!DriverInv, D!TypeInv, D!CallInv, D!NoCommand
<1>2. /\ connected => caller \notin {"connecting", "closing", "stopping"}
      /\ ~connected => caller \in {"idle", "connecting", "closing", "stopping"}
      /\ caller \in {"connecting", "option"} => stopped
  BY D!ClientFacts DEF D!DriverInv
<1>3. /\ command = "PP" => caller # "starting"
      /\ step = "wait" /\ command # "PP" => caller = "idle" /\ ~stopped
  BY <1>1 DEF D!DriverInv, D!TypeInv, D!TypeOK, D!Steps, D!CallInv
<1>4. connected /\ step = "none" => asked = <<>>
  BY DEF D!DriverInv, D!ReplyInv, D!OnlyOnTheWay, D!Expected, D!Awaiting
<1>5. step = "wait" /\ ready =>
        command # "AR06" /\ (command = Streaming => stream = Streaming)
  <2> SUFFICES ASSUME step = "wait", ready
               PROVE  command # "AR06" /\ (command = Streaming => stream = Streaming)
    OBVIOUS
  <2>1. connected
    BY <1>1
  <2>2. reply = D!Frame(command, ticket) /\ reply \in D!Replies
    BY <2>1 DEF D!DriverInv, D!ReplyInv
  <2>3. command # "AR06"
    BY <2>2 DEF D!Replies, D!Frame, D!CommandReplies
  <2> QED BY <2>1, <2>3 DEF D!DriverInv, D!StreamInv
<1> QED BY <1>1, <1>2, <1>3, <1>4, <1>5

\* The io thread leaves the calls of the main thread as they are.
LEMMA IoEffects ==
  ASSUME D!DriverInv, IoThread
  PROVE  /\ UNCHANGED <<connected, caller, step, command, then, mode, stream, asked>>
         /\ UNCHANGED <<pc, configured, cached, discard>>
         /\ stopped' = stopped \/ ~connected
<1>1. CASE ScanStamp \/ ScanLimits \/ ScanPublish
  BY <1>1 DEF ScanStamp, ScanLimits, ScanPublish, driver, client, retry, data
<1>2. CASE CallbackReturns
  BY <1>2 DEF CallbackReturns, Drv!PacketCallback, Drv!Tcp!CallbackReturns, Drv!call,
     Drv!lidar, retry, data
<1>3. CASE LineCallback
  BY <1>3 DEF LineCallback, Drv!LineCallback, Drv!Tcp!HandleLine, Drv!call, Drv!lidar,
     retry, data
<1>4. CASE ReaderRuns
  <2>1. Drv!Tcp!Die => ~connected
    BY DriverAssumptions, D!ClientFacts DEF D!DriverInv, Drv!Tcp!Die
  <2> QED BY <1>4, <2>1 DEF ReaderRuns, Drv!ReaderRuns, Drv!Tcp!HandleReceive,
             Drv!Tcp!StartBody, Drv!Tcp!HandlePacket, Drv!Tcp!CheckConnected,
             Drv!Tcp!ArmHeader, Drv!Tcp!Die, Drv!Tcp!HandleConnect, Drv!call, Drv!lidar,
             retry, data
<1> QED BY <1>1, <1>2, <1>3, <1>4 DEF IoThread

\* The network and time leave the main thread where it is; the lidar changes
\* what it streams only when it answers.
LEMMA EnvironmentEffects ==
  ASSUME Environment
  PROVE  /\ UNCHANGED <<connected, stopped, caller, step, command, then, mode>>
         /\ UNCHANGED <<pc, configured, cached>>
         /\ asked = <<>> => stream' = stream
         /\ discard = "unset" <=> discard' = "unset"
<1>1. CASE Silence \/ DeadlinePasses \/ IntervalPasses
  BY <1>1 DEF Silence, DeadlinePasses, IntervalPasses, driver, client, retry, data
<1>2. CASE Serves \/ Misbehaves
  BY <1>2 DEF Serves, Misbehaves, Drv!Answer, Drv!Refuse, Drv!Ignore, Drv!StreamScan,
     Drv!Take, Drv!Established, Drv!PeerDrops, Drv!ReadCompletes, Drv!ReadFails,
     Drv!Network, Drv!Tcp!Arrive, Drv!Tcp!Established, Drv!Tcp!PeerDrops,
     Drv!Tcp!ReadCompletes, Drv!Tcp!ReadFails, Drv!client, Drv!call, Drv!lidar, retry, data
<1> QED BY <1>1, <1>2 DEF Environment

LEMMA MainStep == NodeInv /\ [Next]_vars => MainInv'
<1> SUFFICES ASSUME NodeInv, [Next]_vars PROVE MainInv'
  OBVIOUS
<1>1. D!DriverInv /\ MainInv /\ TypeOK
  BY DEF NodeInv, TypeInv
<1> USE <1>1, DriverFacts, Names
<1>2. CASE UNCHANGED vars
  BY <1>2 DEF vars, driver, client, retry, data, MainInv, CommandInv, ConnectionInv,
     ModeInv, DiscardInv
<1>3. CASE IoThread
  BY <1>3, IoEffects DEF MainInv, CommandInv, ConnectionInv, ModeInv, DiscardInv, Busy,
     Rests
<1>4. CASE Environment
  BY <1>4, EnvironmentEffects DEF MainInv, CommandInv, ConnectionInv, ModeInv, DiscardInv,
     Busy, Rests
<1>5. CASE Connect
  BY <1>5 DEF Connect, Drv!Connect, Drv!Tcp!Connect, Drv!call, retry, data, MainInv,
     CommandInv, ConnectionInv, ModeInv, DiscardInv, Busy, Rests
<1>6. CASE Connecting
  BY <1>6 DEF Connecting, Drv!Connecting, Drv!Tcp!ConnectTimeout, Drv!Tcp!ConnectFailed,
     Drv!Tcp!ConnectDone, Drv!Tcp!SetOption, Drv!call, Drv!lidar, retry, MainInv,
     CommandInv, ConnectionInv, ModeInv, DiscardInv, Busy, Rests
<1>7. CASE \/ ConnectReturns \/ WriteParams \/ AreasCached \/ SwapAreas
           \/ PublishStatus \/ Stamp
  BY <1>7 DEF ConnectReturns, WriteParams, AreasCached, SwapAreas, PublishStatus, Stamp,
     After, driver, client, retry, data, MainInv, CommandInv, ConnectionInv, ModeInv,
     DiscardInv, Busy, Rests
<1>8. CASE Catch
  BY <1>8 DEF Catch, driver, client, MainInv, CommandInv, ConnectionInv, ModeInv,
     DiscardInv, Busy, Rests
<1>9. CASE \/ ConfigureTimer \/ Watchdog \/ WatchdogReturns \/ DynamicReconfigure
           \/ Reconfigures
  BY <1>9 DEF ConfigureTimer, Watchdog, WatchdogReturns, DynamicReconfigure, Reconfigures,
     NewDeadline, ParamsChanged, driver, client, retry, data, MainInv, CommandInv,
     ConnectionInv, ModeInv, DiscardInv, Busy, Rests
<1>10. CASE WatchdogReset
  <2>1. UNCHANGED <<connected, stopped, caller, command, then, mode, stream>>
    BY <1>10 DEF WatchdogReset, Drv!PeerDrops, Drv!Network, Drv!Tcp!PeerDrops, Drv!call,
       Drv!lidar, driver, client
  <2>2. pc = "reset" /\ pc' = "trigger" /\ UNCHANGED <<configured, cached, discard>>
    BY <1>10 DEF WatchdogReset, data
  <2> QED BY <2>1, <2>2 DEF MainInv, CommandInv, ConnectionInv, ModeInv, DiscardInv, Busy,
             Rests
<1>11. CASE TriggerReconfigure \/ CatchDisconnects
  BY <1>11 DEF TriggerReconfigure, CatchDisconnects, Drv!Disconnect, Drv!Tcp!Disconnect,
     Drv!NoCommand, Drv!lidar, retry, data, MainInv, CommandInv, ConnectionInv, ModeInv,
     DiscardInv, Busy, Rests
<1>12. CASE Disconnecting
  BY <1>12 DEF Disconnecting, Drv!Disconnecting, Drv!Tcp!CloseSocket, Drv!Tcp!SetStopped,
     Drv!call, Drv!lidar, retry, data, MainInv, CommandInv, ConnectionInv, ModeInv,
     DiscardInv, Busy, Rests
<1>13. CASE Start
  <2>1. /\ UNCHANGED <<pc, configured, cached, discard>>
        /\ connected /\ step = "none" /\ caller = "idle"
        /\ UNCHANGED <<connected, stopped, mode, stream>>
    BY <1>13 DEF Start, Calls, Drv!GetScanDetails, Drv!GetVersionDetails,
       Drv!GetSafetyArea, Drv!GetSensorStatus, Drv!Query, Drv!Call, Drv!EnsureReader,
       Drv!Tcp!StartAsyncReadTask, Drv!client, Drv!lidar, retry, data
  <2>2. \/ pc = "details" /\ command' = "PP" /\ then' = "none"
        \/ pc = "version" /\ command' = "VR00" /\ then' = "none"
        \/ pc = "areas" /\ command' = "YR" /\ then' = "none" /\ ~cached
        \/ pc = "status" /\ command' = "XR00" /\ then' = "none" /\ mode = "INVALID"
        \/ pc = "status" /\ command' = Stop /\ then' = "XR00" /\ mode = Streaming
    <3>1. mode # "INVALID" => mode = Streaming
      BY DEF TypeOK, Drv!TypeOK, Drv!INVALID
    <3> QED BY <1>13, <3>1 DEF Start, Calls, Drv!GetScanDetails, Drv!GetVersionDetails,
               Drv!GetSafetyArea, Drv!GetSensorStatus, Drv!Query, Drv!Call, Drv!NoCommand,
               Drv!INVALID, Stop
  <2> QED BY <2>1, <2>2 DEF MainInv, CommandInv, ConnectionInv, ModeInv, DiscardInv, Busy,
             Rests
<1>14. CASE StartStreaming
  BY <1>14 DEF StartStreaming, Drv!StartStreaming, Drv!Call, Drv!EnsureReader,
     Drv!NoCommand, Drv!INVALID, Drv!Tcp!StartAsyncReadTask, Drv!client, Drv!lidar,
     retry, data, MainInv, CommandInv, ConnectionInv, ModeInv, DiscardInv, Busy, Rests
<1>15. CASE Proceed
  <2>1. /\ UNCHANGED <<pc, configured, cached, discard>>
        /\ UNCHANGED <<connected, command, then, mode, stream>>
    BY <1>15 DEF Proceed, Drv!StartingReader, Drv!Tcp!ClearStopped, Drv!Prepare, Drv!Send,
       Drv!ReadLine, Drv!Tcp!AsyncReadLine, Drv!client, Drv!call, Drv!lidar, retry, data
  <2>2. \/ command # "none" /\ UNCHANGED stopped
        \/ command \notin {"none", "PP"}
    BY <1>15 DEF Proceed, Drv!StartingReader, Drv!Tcp!ClearStopped, Drv!Prepare, Drv!Send,
       Drv!ReadLine, Drv!Tcp!AsyncReadLine, Drv!client
  <2> QED BY <2>1, <2>2 DEF MainInv, CommandInv, ConnectionInv, ModeInv, DiscardInv, Busy,
             Rests
<1>16. CASE Throw
  BY <1>16 DEF Throw, Drv!SendFails, Drv!Expire, Drv!Tcp!LineTimeout, Drv!client,
     Drv!lidar, retry, data, MainInv, CommandInv, ConnectionInv, ModeInv, DiscardInv,
     Busy, Rests
<1>17. CASE Return
  <2>1. /\ step = "wait" /\ ready /\ command # "none"
        /\ command' = then /\ then' = "none" /\ mode' = Drv!ModeAfter(command)
        /\ UNCHANGED <<connected, stopped, stream, cached, discard>>
    BY <1>17 DEF Return, Drv!Return, Drv!Tcp!LineReturned, Drv!NoCommand, Drv!client,
       Drv!lidar
  <2>2. /\ command = Stop /\ mode = Streaming => mode' = "INVALID"
        /\ command = Streaming => mode' = Streaming
        /\ command \in {"PP", "VR00", "YR", "XR00"} => mode' = mode
    <3>1. CASE mode = "INVALID"
      BY <2>1, <3>1 DEF Drv!ModeAfter, Drv!Modes, Drv!INVALID
    <3>2. CASE mode = Streaming
      <4>1. Drv!ModeAfter(command) = IF command \in Drv!Modes THEN command
                                     ELSE IF command = Stop THEN "INVALID" ELSE mode
        BY <3>2 DEF Drv!ModeAfter, Drv!Modes, Drv!INVALID, Stop
      <4> QED BY <2>1, <3>2, <4>1 DEF Drv!Modes
    <3> QED BY <3>1, <3>2 DEF TypeOK, Drv!TypeOK, Drv!INVALID
  <2>3. \/ pc \in {"details", "version"} /\ pc' = After(pc) /\ configured' = configured
        \/ pc = "areas" /\ pc' \in {"areas", "swap"} /\ configured' = configured
        \/ pc = "status" /\ configured' = configured
              /\ pc' = IF then = "none" THEN "publish" ELSE pc
        \/ pc = "start" /\ pc' = "spin" /\ configured' = TRUE
    BY <1>17 DEF Return, Configured, After, AfterArea, retry
  <2>4. caller' = "idle"
    BY <1>17 DEF Return, Drv!Return, Drv!Tcp!LineReturned, Drv!client
  <2>5. CASE pc # "start"
    BY <2>1, <2>2, <2>3, <2>4, <2>5 DEF After, MainInv, CommandInv, ConnectionInv, ModeInv,
       DiscardInv, Busy, Rests
  <2>6. CASE pc = "start"
    <3>1. command = Streaming /\ connected
      BY <2>1, <2>6 DEF MainInv, CommandInv, ConnectionInv, Busy
    <3> QED BY <2>1, <2>2, <2>3, <2>4, <2>6, <3>1 DEF MainInv, CommandInv,
               ConnectionInv, ModeInv, DiscardInv, Busy, Rests
  <2> QED BY <2>5, <2>6
<1> QED BY <1>2, <1>3, <1>4, <1>5, <1>6, <1>7, <1>8, <1>9, <1>10, <1>11, <1>12, <1>13,
        <1>14, <1>15, <1>16, <1>17 DEF Next, Main, Configure, WatchdogRuns

(***************************************************************************)
(* THE SCANS                                                               *)
(***************************************************************************)
\* The io thread is in scanCallback() only with a scan in its hands.
LEMMA CallbackStep == (scan # "none" => IsScan) /\ [Next]_vars => (scan' # "none" => IsScan')
<1> SUFFICES ASSUME scan # "none" => IsScan, [Next]_vars, scan' # "none" PROVE IsScan'
  OBVIOUS
<1>1. UNCHANGED io => IsScan' = IsScan
  BY DEF IsScan
<1>2. CASE UNCHANGED vars
  BY <1>1, <1>2 DEF vars, driver, client
<1>3. CASE ScanStamp \/ ScanLimits \/ ScanPublish
  BY <1>1, <1>3 DEF ScanStamp, ScanLimits, ScanPublish, driver, client
<1>4. CASE CallbackReturns
  BY <1>4 DEF CallbackReturns
<1>5. CASE ReaderRuns
  <2>1. io.at # "callback"
    BY <1>5 DEF ReaderRuns, Drv!ReaderRuns, Drv!Tcp!HandleReceive, Drv!Tcp!StartBody,
       Drv!Tcp!HandlePacket, Drv!Tcp!CheckConnected, Drv!Tcp!ArmHeader, Drv!Tcp!Die,
       Drv!Tcp!HandleConnect, Drv!Tcp!Dispatch
  <2> QED BY <1>5, <2>1 DEF ReaderRuns, IsScan
<1>6. CASE LineCallback
  BY <1>1, <1>6 DEF LineCallback, Drv!LineCallback, Drv!Tcp!HandleLine
<1>7. CASE Environment
  <2>1. UNCHANGED <<io, scan>>
    BY <1>7 DEF Environment, Serves, Misbehaves, Silence, DeadlinePasses, IntervalPasses,
       Drv!Answer, Drv!Refuse, Drv!Ignore, Drv!StreamScan, Drv!Established, Drv!PeerDrops,
       Drv!ReadCompletes, Drv!ReadFails, Drv!Network, Drv!Tcp!Arrive, Drv!Tcp!Established,
       Drv!Tcp!PeerDrops, Drv!Tcp!ReadCompletes, Drv!Tcp!ReadFails, Drv!client, driver,
       client
  <2> QED BY <1>1, <2>1
<1>8. CASE Main
  <2>1. Drv!Caller \/ Drv!PeerDrops \/ UNCHANGED driver
    BY <1>8, MainDriver
  <2>2. UNCHANGED io
    <3>1. CASE Drv!Caller
      BY <3>1 DEF Drv!Caller, Drv!Connect, Drv!Connecting, Drv!Disconnect,
         Drv!Disconnecting, Drv!Operation, Drv!GetVersionDetails, Drv!GetSafetyArea,
         Drv!GetSensorStatus, Drv!GetConfigurationId, Drv!StartStreaming, Drv!Query,
         Drv!Call, Drv!EnsureReader, Drv!GetScanDetails, Drv!StartingReader, Drv!Prepare,
         Drv!Send, Drv!SendFails, Drv!ReadLine, Drv!Return, Drv!Expire, Drv!Tcp!Connect,
         Drv!Tcp!ConnectTimeout, Drv!Tcp!ConnectFailed, Drv!Tcp!ConnectDone,
         Drv!Tcp!SetOption, Drv!Tcp!Disconnect, Drv!Tcp!CloseSocket, Drv!Tcp!SetStopped,
         Drv!Tcp!StartAsyncReadTask, Drv!Tcp!ClearStopped, Drv!Tcp!AsyncReadLine,
         Drv!Tcp!LineReturned, Drv!Tcp!LineTimeout, Drv!client
    <3> QED BY <2>1, <3>1 DEF Drv!PeerDrops, Drv!Network, Drv!Tcp!PeerDrops, driver, client
  <2>3. UNCHANGED scan
    BY <1>8 DEF Main, Configure, Connect, Connecting, ConnectReturns, Start, Proceed,
       Return, StartStreaming, WriteParams, AreasCached, SwapAreas, PublishStatus, Stamp,
       Throw, CatchDisconnects, Catch, ConfigureTimer, Watchdog, WatchdogRuns,
       WatchdogReset, TriggerReconfigure, Disconnecting, WatchdogReturns,
       DynamicReconfigure, Reconfigures, NewDeadline, ParamsChanged
  <2> QED BY <1>1, <2>2, <2>3
<1> QED BY <1>2, <1>3, <1>4, <1>5, <1>6, <1>7, <1>8 DEF Next, IoThread

\* A scan waits for a deadline that was set for its connection: before that
\* nothing changes which the quiet depends on, unless a connection is made.
LEMMA QuietedBefore ==
  ASSUME NodeInv, Next, Quieted'
  PROVE  Quieted \/ (Drv!Tcp!ConnectDone /\ UNCHANGED <<asked, stream>>)
<1>1. D!DriverInv /\ MainInv
  BY DEF NodeInv
<1> USE <1>1, DriverFacts, Names
<1>2. CASE IoThread
  BY <1>2, IoEffects DEF Quieted
<1>3. CASE Environment
  BY <1>3, EnvironmentEffects DEF Quieted
<1>4. CASE Main
  <2>1. connected' =>
          connected \/ (Drv!Tcp!ConnectDone /\ UNCHANGED <<asked, stream>>)
    <3>1. CASE Drv!Caller
      BY <3>1 DEF Drv!Caller, Drv!Connect, Drv!Connecting, Drv!Disconnect,
         Drv!Disconnecting, Drv!Operation, Drv!GetVersionDetails, Drv!GetSafetyArea,
         Drv!GetSensorStatus, Drv!GetConfigurationId, Drv!StartStreaming, Drv!Query,
         Drv!Call, Drv!EnsureReader, Drv!GetScanDetails, Drv!StartingReader, Drv!Prepare,
         Drv!Send, Drv!SendFails, Drv!ReadLine, Drv!Return, Drv!Expire, Drv!Tcp!Connect,
         Drv!Tcp!ConnectTimeout, Drv!Tcp!ConnectFailed, Drv!Tcp!ConnectDone,
         Drv!Tcp!SetOption, Drv!Tcp!Disconnect, Drv!Tcp!CloseSocket, Drv!Tcp!SetStopped,
         Drv!Tcp!StartAsyncReadTask, Drv!Tcp!ClearStopped, Drv!Tcp!AsyncReadLine,
         Drv!Tcp!LineReturned, Drv!Tcp!LineTimeout, Drv!client,
         Drv!lidar
    <3> QED BY <1>4, <3>1, MainDriver
            DEF Drv!PeerDrops, Drv!Network, Drv!Tcp!PeerDrops, driver, client
  <2>2. discard = "unset" \/ (Drv!Tcp!ConnectDone /\ UNCHANGED <<asked, stream>>)
    <3>1. CASE Connecting /\ connected'
      <4>1. pc = "connecting"
        BY <3>1 DEF Connecting
      <4> QED BY <2>1, <3>1, <4>1 DEF MainInv, DiscardInv
    <3>2. CASE ~(Connecting /\ connected')
      BY <1>4, <3>2 DEF Quieted, data, Main, Configure, Connect, Connecting,
         ConnectReturns, Start, Proceed, Return, StartStreaming, WriteParams, AreasCached,
         SwapAreas, PublishStatus, Stamp, Throw, CatchDisconnects, Catch, ConfigureTimer,
         Watchdog, WatchdogRuns, WatchdogReset, TriggerReconfigure, Disconnecting,
         WatchdogReturns, DynamicReconfigure, Reconfigures, NewDeadline, ParamsChanged
    <3> QED BY <3>1, <3>2
  <2>3. command # "AR06"
    <3> SUFFICES ASSUME command = "AR06" PROVE FALSE
      OBVIOUS
    <3>1. Streaming = "AR07" /\ step # "none" /\ connected
      BY DEF MainInv, CommandInv
    <3>2. ~Drv!Return
      BY DEF Drv!Return
    <3>3. CASE Drv!Caller /\ ~Drv!Disconnect
      <4>1. UNCHANGED command
        BY <3>1, <3>2, <3>3 DEF Drv!Caller, Drv!Connect, Drv!Connecting, Drv!Disconnecting,
           Drv!Operation, Drv!GetVersionDetails, Drv!GetSafetyArea, Drv!GetSensorStatus,
           Drv!GetConfigurationId, Drv!StartStreaming, Drv!Query, Drv!Call,
           Drv!GetScanDetails, Drv!StartingReader, Drv!Prepare, Drv!Send, Drv!SendFails,
           Drv!ReadLine, Drv!Expire, Drv!call
      <4> QED BY <4>1 DEF Quieted
    <3>4. CASE Drv!Disconnect
      BY <3>1, <3>4 DEF Quieted, Drv!Disconnect, Drv!Tcp!Disconnect
    <3>5. CASE Drv!PeerDrops \/ UNCHANGED driver
      BY <3>5 DEF Quieted, Drv!PeerDrops, Drv!Network, Drv!call, driver
    <3> QED BY <1>4, <3>3, <3>4, <3>5, MainDriver
  <2> QED BY <2>1, <2>2, <2>3 DEF Quieted
<1> QED BY <1>2, <1>3, <1>4 DEF Next

LEMMA NoFrameIsNoScan == D!NoFrame \notin ScanFrames
BY DEF D!NoFrame, D!Frame, ScanFrames, D!Packets, D!CommandReplies, D!Scans

\* What the lidar is asked before the subscription is answered with no scan.
LEMMA SendsNoScan ==
  ASSUME NodeInv, Drv!Send, Quieted
  PROVE  ~D!Any(asked, ScanSendings)'
<1>1. D!DriverInv /\ MainInv
  BY DEF NodeInv
<1> USE <1>1, DriverFacts, Names, DriverAssumptions
<1>2. step = "send" /\ connected /\ command # "none"
  BY DEF Drv!Send
<1>3. command \notin D!Scans \cup {Streaming}
  BY <1>2 DEF Quieted, MainInv, CommandInv, DiscardInv, D!Scans
<1>4. asked = <<>>
  BY <1>2, SameCaller, D!EmptyBeforeSend
<1> PICK g : g = D!Frame(command, ticket')
  OBVIOUS
<1>5. asked' = <<g>>
  <2>1. asked' = Append(<<>>, g)
    BY <1>4 DEF Drv!Send, Drv!Frame, D!Frame
  <2> QED BY <2>1
<1>6. g \notin ScanSendings
  BY <1>3 DEF D!Frame, ScanSendings
<1> QED BY <1>5, <1>6 DEF D!Any

\* The main thread subscribes to nothing before the deadline is set.
LEMMA MainQuiet ==
  ASSUME NodeInv, Main, Quieted
  PROVE  NoScan'
<1>1. D!DriverInv /\ NoScan
  BY DEF NodeInv, ScanInv
<1>2. ~D!Coming(ScanFrames)'
  <2>1. CASE D!Caller \/ D!PeerDrops
    BY <1>1, <2>1, D!NothingNew, DriverAssumptions, NoFrameIsNoScan DEF NoScan
  <2>2. CASE UNCHANGED driver
    BY <1>1, <2>2 DEF NoScan, driver, client, D!Coming, D!OnWire, D!InReads, D!InQueue,
       D!InIo
  <2> QED BY <2>1, <2>2, MainDriver, SameCaller, SameNetwork
<1>3. CASE Drv!Caller
  <2>1. CASE Drv!Send
    BY <1>1, <1>2, <2>1, SendsNoScan DEF Drv!Send, NoScan
  <2>2. CASE Drv!Connect
    <3>1. asked' = <<>> /\ stream' = "INVALID"
      BY <2>2 DEF Drv!Connect, Drv!INVALID
    <3> QED BY <1>2, <3>1 DEF NoScan, D!Any
  <2>3. CASE ~Drv!Send /\ ~Drv!Connect
    <3>1. UNCHANGED <<asked, stream>>
      BY <1>3, <2>3 DEF Drv!Caller, Drv!Connecting, Drv!Disconnect, Drv!Disconnecting,
         Drv!Operation, Drv!GetVersionDetails, Drv!GetSafetyArea, Drv!GetSensorStatus,
         Drv!GetConfigurationId, Drv!StartStreaming, Drv!Query, Drv!Call,
         Drv!GetScanDetails, Drv!StartingReader, Drv!Prepare, Drv!SendFails, Drv!ReadLine,
         Drv!Return, Drv!Expire, Drv!lidar
    <3> QED BY <1>1, <1>2, <3>1 DEF NoScan, D!Any
  <2> QED BY <2>1, <2>2, <2>3
<1>4. CASE Drv!PeerDrops \/ UNCHANGED driver
  <2>1. UNCHANGED <<asked, stream>>
    BY <1>4 DEF Drv!PeerDrops, Drv!Network, Drv!lidar, driver
  <2> QED BY <1>1, <1>2, <2>1 DEF NoScan, D!Any
<1> QED BY <1>3, <1>4, MainDriver

\* The lidar sends no scan that it was not asked for.
LEMMA LidarQuiet ==
  ASSUME NodeInv, Environment, NoScan
  PROVE  NoScan'
<1>1. D!DriverInv /\ D!TypeOK /\ D!Tcp!TypeOK
  BY DEF NodeInv, D!DriverInv, D!TypeInv, D!TypeOK
<1> USE <1>1, DriverAssumptions
<1>2. ~D!Coming(ScanFrames) /\ stream = "INVALID" /\ ~D!Any(asked, ScanSendings)
  BY DEF NoScan
<1>3. asked \in Seq(D!Sendings)
  BY D!SendingFrames
<1>4. ASSUME NEW frame \in D!Packets \cup D!Texts, frame \notin ScanFrames,
             D!Tcp!Arrive(frame)
      PROVE  ~D!Coming(ScanFrames)'
  <2>1. D!OnlyComing(ScanFrames, D!NoFrame)
    BY <1>2, D!NothingComing
  <2> QED BY <1>2, <1>4, <2>1, D!LidarSends
<1>5. CASE D!Answer
  <2>1. /\ asked # <<>> /\ asked' = Tail(asked) /\ D!Tcp!Arrive(Head(asked))
        /\ stream' = CASE Head(asked).name \in D!Modes -> Head(asked).name
                       [] stream # D!INVALID /\ Head(asked).name = D!EndsStream(stream) ->
                            D!INVALID
                       [] OTHER -> stream
    BY <1>5 DEF D!Answer, D!Take
  <2>2. /\ Head(asked) \in D!Sendings /\ Head(asked).name \in D!Commands
        /\ Head(asked) \in D!Packets \cup D!Texts
    BY <2>1, D!SendingFrames
  <2>3. Head(asked) \notin ScanSendings /\ ~D!Any(Tail(asked), ScanSendings)
    BY <1>2, <1>3, <2>1, D!NoneAtAll, D!OneLess
  <2>4. Head(asked).name \notin D!Scans \cup {Streaming}
    BY <2>2, <2>3 DEF D!Sendings, ScanSendings
  <2>5. Head(asked).name \notin D!Modes
    BY <2>2, <2>4, D!CommandFacts
  <2>6. stream' = "INVALID"
    BY <1>2, <2>1, <2>5 DEF D!INVALID
  <2>7. ~D!Coming(ScanFrames)'
    BY <1>4, <2>1, <2>2, <2>4 DEF ScanFrames
  <2> QED BY <2>1, <2>3, <2>6, <2>7 DEF NoScan, D!Any
<1>6. CASE D!Refuse
  <2>1. D!Refusal \notin ScanFrames /\ D!Refusal \in D!Packets
    BY D!LidarFrames DEF D!Refusal, D!Frame, ScanFrames, D!Scans
  <2>2. asked # <<>> /\ asked' = Tail(asked) /\ D!Tcp!Arrive(D!Refusal) /\ stream' = stream
    BY <1>6 DEF D!Refuse, D!Take
  <2>3. ~D!Any(Tail(asked), ScanSendings)
    BY <1>2, <1>3, <2>2, D!NoneAtAll, D!OneLess
  <2> QED BY <1>2, <1>4, <2>1, <2>2, <2>3 DEF NoScan, D!Any
<1>7. CASE D!Ignore
  <2>1. asked # <<>> /\ asked' = Tail(asked) /\ UNCHANGED D!client /\ stream' = stream
    BY <1>7 DEF D!Ignore, D!Take
  <2>2. ~D!Any(Tail(asked), ScanSendings)
    BY <1>2, <1>3, <2>1, D!NoneAtAll, D!OneLess
  <2> QED BY <1>2, <2>1, <2>2 DEF NoScan, D!Any, D!client, D!Coming, D!OnWire, D!InReads,
             D!InQueue, D!InIo
<1>8. ~D!StreamScan
  BY <1>2 DEF D!StreamScan, D!INVALID
<1>9. CASE \/ \E ok \in BOOLEAN : D!Established(ok)
           \/ D!PeerDrops \/ D!ReadCompletes \/ D!ReadFails
  <2>1. ~D!Coming(ScanFrames)'
    BY <1>2, <1>9, D!NothingNew, NoFrameIsNoScan
  <2>2. UNCHANGED <<asked, stream>>
    BY <1>9 DEF D!Established, D!PeerDrops, D!ReadCompletes, D!ReadFails, D!Network,
       D!lidar
  <2> QED BY <1>2, <2>1, <2>2 DEF NoScan, D!Any
<1>10. CASE UNCHANGED driver
  BY <1>2, <1>10 DEF driver, client, NoScan, D!Any, D!Coming, D!OnWire, D!InReads,
     D!InQueue, D!InIo
<1> QED BY <1>5, <1>6, <1>7, <1>8, <1>9, <1>10, EnvironmentDriver, SameNetwork DEF Drv!Lidar

LEMMA ScanStep == NodeInv /\ [Next]_vars => ScanInv'
<1> SUFFICES ASSUME NodeInv, [Next]_vars PROVE ScanInv'
  OBVIOUS
<1>1. D!DriverInv /\ ScanInv
  BY DEF NodeInv
<1>2. scan' # "none" => IsScan'
  BY <1>1, CallbackStep DEF ScanInv
<1>3. ASSUME Quieted' PROVE NoScan'
  <2>1. CASE UNCHANGED vars
    <3>1. UNCHANGED <<discard, command, connected, driver>>
      BY <2>1 DEF vars, data, driver, client
    <3> QED BY <1>1, <1>3, <3>1 DEF ScanInv, Quieted, NoScan, D!Any, D!Coming, D!OnWire,
               D!InReads, D!InQueue, D!InIo, driver, client
  <2>2. CASE Next /\ Quieted
    <3>1. NoScan
      BY <1>1, <2>2 DEF ScanInv
    <3>2. CASE Main
      BY <2>2, <3>2, MainQuiet
    <3>3. CASE IoThread
      <4>1. ~D!Coming(ScanFrames)'
        <5>1. CASE D!IoThread
          BY <1>1, <3>1, <5>1, D!NothingNew, DriverAssumptions, NoFrameIsNoScan DEF NoScan
        <5>2. CASE UNCHANGED driver
          BY <3>1, <5>2 DEF NoScan, driver, client, D!Coming, D!OnWire, D!InReads,
             D!InQueue, D!InIo
        <5> QED BY <3>3, <5>1, <5>2, IoDriver, SameIoThread
      <4>2. UNCHANGED <<asked, stream>>
        BY <1>1, <3>3, IoEffects
      <4> QED BY <3>1, <4>1, <4>2 DEF NoScan, D!Any
    <3>4. CASE Environment
      BY <3>1, <3>4, LidarQuiet
    <3> QED BY <2>2, <3>2, <3>3, <3>4 DEF Next
  <2>3. CASE Drv!Tcp!ConnectDone /\ UNCHANGED <<asked, stream>>
    <3>1. ~D!Coming(ScanFrames) /\ asked = <<>> /\ stream = "INVALID"
      BY <1>1, <2>3, SameCaller, D!NewSession, DriverAssumptions, NoFrameIsNoScan
      DEF D!INVALID
    <3>2. UNCHANGED <<wire, reads, queue, io>>
      BY <2>3 DEF Drv!Tcp!ConnectDone
    <3> QED BY <2>3, <3>1, <3>2 DEF NoScan, D!Any, D!Coming, D!OnWire, D!InReads,
               D!InQueue, D!InIo
  <2> QED BY <1>3, <2>1, <2>2, <2>3, QuietedBefore
<1> QED BY <1>2, <1>3 DEF ScanInv

(***************************************************************************)
(* THE THEOREMS                                                            *)
(***************************************************************************)
LEMMA NodeInit == Init => NodeInv
<1> SUFFICES ASSUME Init PROVE NodeInv
  OBVIOUS
<1>1. TypeInv
  BY TypeInit
<1>2. D!DriverInv
  BY DriverAssumptions, SameState, D!DriverInit DEF Init
<1>3. connected = FALSE /\ caller = "idle" /\ wire = <<>> /\ reads = <<>> /\ queue = <<>>
      /\ io.frame = D!NoFrame
  BY DEF Init, Drv!Init, Drv!Tcp!Init, Drv!Tcp!At, Drv!NoFrame, D!NoFrame, Drv!Frame,
     D!Frame
<1>4. /\ command = "none" /\ then = "none" /\ asked = <<>> /\ stream = "INVALID"
      /\ pc = "connect" /\ configured = FALSE /\ scan = "none"
  BY DEF Init, Drv!Init, Drv!NoCommand, Drv!INVALID
<1>5. MainInv
  BY <1>3, <1>4 DEF MainInv, CommandInv, ConnectionInv, ModeInv, DiscardInv, Busy, Rests
<1>6. ScanInv
  BY <1>3, <1>4, NoFrameIsNoScan DEF ScanInv, NoScan, D!Any, D!Coming, D!OnWire,
     D!InReads, D!InQueue, D!InIo
<1> QED BY <1>1, <1>2, <1>5, <1>6 DEF NodeInv

LEMMA NodeStep == NodeInv /\ Settle /\ [Next]_vars => NodeInv'
<1> SUFFICES ASSUME NodeInv, Settle, [Next]_vars PROVE NodeInv'
  OBVIOUS
<1>1. TypeInv'
  BY TypeStep DEF NodeInv
<1>2. D!DriverInv'
  BY DriverSteps, SameNext, DriverAssumptions, D!DriverStep DEF NodeInv
<1>3. MainInv' /\ ScanInv'
  BY MainStep, ScanStep
<1> QED BY <1>1, <1>2, <1>3 DEF NodeInv

LEMMA NodeInvariant == ASSUME Settle PROVE Spec => []NodeInv
<1>1. NodeInv /\ [Next]_vars => NodeInv'
  BY NodeStep
<1> QED BY <1>1, NodeInit, PTL DEF Spec

\* A scan in the hands of the io thread is one on its way.
LEMMA QuietCallback == NodeInv /\ Quieted => scan = "none"
<1> SUFFICES ASSUME NodeInv, Quieted, scan # "none" PROVE FALSE
  OBVIOUS
<1>1. /\ IsScan /\ ~D!InIo(ScanFrames)
  BY DEF NodeInv, ScanInv, NoScan, D!Coming
<1>2. io.frame \in D!Packets \cup D!Texts \cup {D!NoFrame}
  <2>1. D!Tcp!TypeOK
    BY DEF NodeInv, D!DriverInv, D!TypeInv, D!TypeOK
  <2> QED BY <2>1, DriverAssumptions, D!LidarFrames DEF D!Tcp!TypeOK, D!Tcp!DataTyped
<1>3. io.frame.name \in D!Scans
  BY <1>1 DEF IsScan, D!Scans
<1>4. io.frame \in D!Packets
  BY <1>2, <1>3 DEF D!Texts, D!NoFrame, D!Frame, D!Scans
<1> QED BY <1>1, <1>3, <1>4 DEF ScanFrames, D!InIo

\* At the points of configure() between two calls no scan is handled.
LEMMA QuietPoints ==
  NodeInv /\ pc \in {"params", "swap", "publish"} => Quieted
BY DEF NodeInv, MainInv, CommandInv, ConnectionInv, DiscardInv, Busy, Quieted

\* "At this point the receiver thread is not yet running, so we can safely
\* write into scan_params": while configure() writes scan_params_ no read chain
\* of any connection exists, nor is the io thread in scanCallback().
THEOREM ReceiverNotRunningAlways == ASSUME Settle PROVE Spec => []ReceiverNotRunning
<1>1. NodeInv => ReceiverNotRunning
  <2> SUFFICES ASSUME NodeInv, pc = "params" PROVE Drv!Tcp!NoChain /\ scan = "none"
    BY DEF ReceiverNotRunning
  <2>1. scan = "none"
    BY QuietCallback, QuietPoints
  <2>2. connected /\ stopped /\ caller = "idle"
    BY DEF NodeInv, MainInv, ConnectionInv, Busy
  <2>3. D!Client!NoChain
    BY <2>2 DEF NodeInv, D!DriverInv, D!Client!PathInv, D!Client!IInv, D!Client!ReaderInv
  <2>4. D!Client!NoChain <=> Drv!Tcp!NoChain
    BY DEF D!Client!NoChain, Drv!Tcp!NoChain, D!Client!ChainReads, Drv!Tcp!ChainReads,
       D!Client!ChainQueued, Drv!Tcp!ChainQueued, D!Client!IoBusy, Drv!Tcp!IoBusy,
       D!Client!IsChain, Drv!Tcp!IsChain
  <2> QED BY <2>1, <2>3, <2>4
<1> QED BY <1>1, NodeInvariant, PTL

\* safety_areas_ and the last status have no lock: while configure() writes
\* them, or scan_params_, the io thread is not in scanCallback().
THEOREM SharedDataExclusiveAlways == ASSUME Settle PROVE Spec => []SharedDataExclusive
<1>1. NodeInv => SharedDataExclusive
  BY QuietCallback, QuietPoints DEF SharedDataExclusive
<1> QED BY <1>1, NodeInvariant, PTL

\* configured_ means a stream: on the present connection the lidar was told to
\* stream what the parameters select, and did, and the reader runs.
THEOREM ConfiguredStreamsAlways == ASSUME Settle PROVE Spec => []ConfiguredStreams
<1>1. NodeInv => ConfiguredStreams
  BY DEF NodeInv, MainInv, ConnectionInv, ModeInv, Rests, ConfiguredStreams
<1> QED BY <1>1, NodeInvariant, PTL

\* A scan that is used has seen the deadline of its own connection pass.  Not
\* so with multiple echoes: their scans have the number of the stop command.
THEOREM NoStartupScanAlways ==
  ASSUME Settle, Streaming # "AR07" PROVE Spec => []NoStartupScan
<1>1. NodeInv => NoStartupScan
  <2> SUFFICES ASSUME NodeInv, discard = "unset" PROVE scan = "none"
    BY DEF NoStartupScan
  <2>1. command # "AR06"
    BY Names DEF NodeInv, MainInv, CommandInv
  <2> QED BY <2>1, QuietCallback DEF Quieted
<1> QED BY <1>1, NodeInvariant, PTL

=============================================================================
