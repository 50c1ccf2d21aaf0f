-------------------------------- MODULE UamROS --------------------------------
(***************************************************************************)
(* The ROS node of the UAM lidar (uam/uam_driver_ros.h and .cpp) over the  *)
(* UamDriver and the TcpClient.                                            *)
(*                                                                         *)
(* ros::spin() runs every callback of the node in one thread, the MAIN     *)
(* thread: configuration and its retry timer, the scan watchdog, dynamic   *)
(* reconfigure.  The IO THREAD runs scanCallback inside the packet handler *)
(* of the TcpClient.  They share scan_params_, safety_areas_, the last     *)
(* status and the deadline of the startup data, partly under two mutexes,  *)
(* partly under none: configure() relies on the receiver being quiet.      *)
(*                                                                         *)
(* A fault is a dropped link, a refused connection, a failed or late send, *)
(* reply or line, a refused or ignored command: MaxFaults of them happen.  *)
(***************************************************************************)
EXTENDS Naturals, Sequences

CONSTANTS
  Streaming,          \* AR02, AR04 (use_intensity) or AR07 (use_multi_echo)
  Areas,              \* safety areas read: 32 numbers of 9 types in the code
  ConfigureAttempts,  \* params_.configure_attempts
  MaxFaults,          \* bound
  MaxAsked, MaxWire, MaxQueue, Settle

Queries == {"PP", "VR00", "YR", "XR00"}

ASSUME StreamingAssumption == Streaming \in {"AR02", "AR04", "AR07"}
ASSUME NumbersAssumption ==
  /\ Areas \in Nat \ {0} /\ ConfigureAttempts \in Nat
  /\ MaxFaults \in Nat /\ MaxAsked \in Nat
ASSUME ClientAssumption == MaxWire \in Nat /\ MaxQueue \in Nat /\ Settle \in BOOLEAN

VARIABLES connected, stopped, caller, dial, open, link, wire, reads, queue, io
VARIABLES step, command, then, ready, reply, mode, ticket, asked, stream

Drv == INSTANCE UamDriver

VARIABLES
  pc,          \* the main thread: the callback it runs and how far it is
  configured,  \* configured_
  attempts,    \* configure_attempts_, counted up to ConfigureAttempts + 1
  timer,       \* configure_timer_ is started
  area,        \* safety areas read by the readSafetyAreas() in progress
  cached,      \* safety_areas_ is not empty
  rested,      \* lidar_power_cycle_interval has passed since the last reset
  fresh,       \* scan_timeout has not passed since the last stamp
  watchdog,    \* the main thread holds watchdog_mutex_
  reconf,      \* the main thread holds reconfigure_mutex_
  scan,        \* scanCallback(): where the io thread is in it
  discard,     \* discard_data_until_: set for this connection, and still ahead
  faults       \* faults left

client == <<connected, stopped, caller, dial, open, link, wire, reads, queue, io>>
driver == <<client, step, command, then, ready, reply, mode, ticket, asked, stream>>
retry  == <<configured, attempts, timer, rested>>
locks  == <<watchdog, reconf>>
data   == <<area, cached, fresh, discard>>
vars   == <<driver, pc, retry, locks, data, scan, faults>>

Points == {"spin", "connect", "connecting", "details", "params", "version", "areas",
           "swap", "status", "publish", "stamp", "start", "catch", "reset",
           "trigger", "triggered", "deadline", "changed"}

TypeOK ==
  /\ Drv!TypeOK
  /\ pc \in Points
  /\ {configured, timer, cached, rested, fresh, watchdog, reconf} \subseteq BOOLEAN
  /\ attempts \in 0..(ConfigureAttempts + 1)
  /\ area \in 0..Areas
  /\ scan \in {"none", "limits", "publish", "done"}
  /\ discard \in {"unset", "running", "over"}
  /\ faults \in 0..MaxFaults

\* The constructor calls configure() itself.
Init ==
  /\ Drv!Init
  /\ pc = "connect" /\ configured = FALSE /\ attempts = 0 /\ timer = FALSE
  /\ area = 0 /\ cached = FALSE /\ rested = TRUE /\ fresh = FALSE
  /\ watchdog = FALSE /\ reconf = FALSE /\ scan = "none" /\ discard = "unset"
  /\ faults = MaxFaults

Fault   == faults > 0 /\ faults' = faults - 1
NoFault == UNCHANGED faults

----------------------------------------------------------------------------
(* configure() *)

Connect ==
  /\ pc = "connect" /\ Drv!Connect
  /\ pc' = "connecting" /\ NoFault
  /\ UNCHANGED <<retry, locks, data, scan>>

\* A new connection has no deadline yet: what discard_data_until_ holds was
\* set for an earlier one.
Connecting ==
  /\ pc = "connecting" /\ Drv!Connecting
  /\ IF dial = "pending" \/ (caller = "option" /\ ~connected') THEN Fault ELSE NoFault
  /\ discard' = IF connected' THEN "unset" ELSE discard
  /\ UNCHANGED <<pc, retry, locks, area, cached, fresh, scan>>

ConnectReturns ==
  /\ pc = "connecting" /\ caller = "idle"
  /\ pc' = IF connected THEN "details" ELSE "catch"
  /\ NoFault /\ UNCHANGED <<driver, retry, locks, data, scan>>

\* Mutant: scan_params_ is written after the reader was started.
AfterParamsLate(point) ==
  CASE point = "details" -> "version"  [] point = "version" -> "params"
    [] point = "params" -> "areas"     [] point = "areas" -> "status"
    [] point = "status" -> "publish"   [] point = "publish" -> "stamp"
    [] point = "stamp" -> "start"

\* The order of the statements of configure().
After(point) ==
  CASE point = "details" -> "params"   [] point = "params" -> "version"
    [] point = "version" -> "areas"    [] point = "areas" -> "status"
    [] point = "status" -> "publish"   [] point = "publish" -> "stamp"
    [] point = "stamp" -> "start"

\* Mutant: streaming starts before the safety areas and the status are read.
CallsStreamFirst ==
  \/ pc = "details" /\ Drv!GetScanDetails
  \/ pc = "version" /\ Drv!StartStreaming
  \/ pc = "areas" /\ ~cached /\ Drv!GetSafetyArea
  \/ pc = "status" /\ Drv!GetVersionDetails

\* The calls of the driver, one for each point of configure() that has one.
Calls ==
  \/ pc = "details" /\ Drv!GetScanDetails
  \/ pc = "version" /\ Drv!GetVersionDetails
  \/ pc = "areas" /\ ~cached /\ Drv!GetSafetyArea
  \/ pc = "status" /\ Drv!GetSensorStatus

Start ==
  /\ Calls
  /\ NoFault /\ UNCHANGED <<pc, retry, locks, data, scan>>

Proceed ==
  /\ Drv!StartingReader \/ Drv!Prepare \/ Drv!Send \/ Drv!ReadLine
  /\ NoFault /\ UNCHANGED <<pc, retry, locks, data, scan>>

Configured ==
  /\ pc' = "spin" /\ configured' = TRUE /\ attempts' = 0
  /\ UNCHANGED <<timer, rested, area>>

\* Mutant: one area too many.
AfterAreaPastEnd(read) == IF read > Areas THEN "swap" ELSE "areas"

\* The two loops of readSafetyAreas(), over the numbers and the types.
AfterArea(read) == IF read = Areas THEN "swap" ELSE "areas"

\* A call returns: the next point of configure(), with the area counted.
Return ==
  /\ Drv!Return /\ NoFault
  /\ \/ /\ pc \in {"details", "version"} /\ pc' = After(pc) /\ UNCHANGED <<retry, area>>
     \/ /\ pc = "areas" /\ area' = area + 1
        /\ pc' = AfterArea(area') /\ UNCHANGED retry
     \/ /\ pc = "status" /\ pc' = IF then = "none" THEN After(pc) ELSE pc
        /\ UNCHANGED <<retry, area>>
     \/ /\ pc = "start" /\ Configured
  /\ UNCHANGED <<locks, cached, fresh, discard, scan>>

\* startStreaming() returns at once from a driver that believes to stream.
StartStreaming ==
  /\ pc = "start"
  /\ IF mode # "INVALID" /\ step = "none"
       THEN Configured /\ UNCHANGED driver
       ELSE Drv!StartStreaming /\ UNCHANGED <<pc, retry, area>>
  /\ NoFault /\ UNCHANGED <<locks, cached, fresh, discard, scan>>

\* scan_params_ is assigned and its angle limits are set.
WriteParams ==
  /\ pc = "params" /\ pc' = After(pc)
  /\ NoFault /\ UNCHANGED <<driver, retry, locks, data, scan>>

AreasCached ==
  /\ pc = "areas" /\ cached /\ pc' = After(pc)
  /\ NoFault /\ UNCHANGED <<driver, retry, locks, data, scan>>

\* std::swap(cached_areas, safety_areas_)
SwapAreas ==
  /\ pc = "swap" /\ pc' = After("areas")
  /\ cached' = TRUE /\ area' = 0
  /\ NoFault /\ UNCHANGED <<driver, retry, locks, fresh, discard, scan>>

\* updateStatus(..., true) in the main thread.
PublishStatus ==
  /\ pc = "publish" /\ pc' = After(pc)
  /\ NoFault /\ UNCHANGED <<driver, retry, locks, data, scan>>

\* Mutant: the deadline of an earlier connection is kept.
StampKeepsDeadline ==
  /\ pc = "stamp" /\ ~watchdog /\ pc' = After(pc)
  /\ fresh' = TRUE
  /\ NoFault /\ UNCHANGED <<driver, retry, locks, area, cached, discard, scan>>

\* No deadline at all is one that is over: discard_startup_data_s is 0.
Stamp ==
  /\ pc = "stamp" /\ ~watchdog /\ pc' = After(pc)
  /\ fresh' = TRUE /\ discard' \in {"running", "over"}
  /\ NoFault /\ UNCHANGED <<driver, retry, locks, area, cached, scan>>

\* A send fails or a reply does not come in time.  The wait runs to its end
\* by itself when nothing is on its way any more.
NothingComes ==
  \/ link # "up"
  \/ /\ asked = <<>> /\ wire = <<>> /\ queue = <<>> /\ io.at = "idle"
     /\ reads = <<>> \/ Head(reads).kind # "body"

Throw ==
  /\ \/ Drv!SendFails /\ Fault
     \/ Drv!Expire /\ IF NothingComes THEN NoFault ELSE Fault
  /\ UNCHANGED <<pc, retry, locks, data, scan>>

\* catch: disconnect() first, then the attempt is counted.
CatchDisconnects ==
  /\ step = "threw" /\ Drv!Disconnect
  /\ pc' = "catch" /\ NoFault
  /\ UNCHANGED <<retry, locks, data, scan>>

\* lidarHardReset() after too many attempts, when the last reset is long ago
\* enough, and the retry timer in any case.
Catch ==
  LET counted == IF attempts > ConfigureAttempts THEN attempts ELSE attempts + 1
      tooMany == counted > ConfigureAttempts
  IN /\ pc = "catch" /\ caller = "idle"
     /\ \/ tooMany /\ rested /\ rested' = FALSE /\ attempts' \in {0, counted}
        \/ ~(tooMany /\ rested) /\ attempts' = counted /\ UNCHANGED rested
     /\ configured' = FALSE /\ timer' = TRUE /\ area' = 0 /\ pc' = "spin"
     /\ NoFault /\ UNCHANGED <<driver, locks, cached, fresh, discard, scan>>

----------------------------------------------------------------------------
(* The callbacks of ros::spin *)

ConfigureTimer ==
  /\ pc = "spin" /\ timer
  /\ timer' = FALSE
  /\ pc' = IF configured THEN "spin" ELSE "connect"
  /\ NoFault /\ UNCHANGED <<driver, configured, attempts, rested, locks, data, scan>>

\* The watchdog holds its mutex during the reset of the lidar and until the
\* client is disconnected.
Watchdog ==
  /\ pc = "spin" /\ configured /\ ~fresh
  /\ watchdog' = TRUE /\ pc' = "reset"
  /\ NoFault /\ UNCHANGED <<driver, retry, reconf, data, scan>>

WatchdogReset ==
  /\ pc = "reset" /\ pc' = "trigger"
  /\ \/ /\ rested /\ rested' = FALSE
        /\ \/ Drv!PeerDrops
           \/ UNCHANGED driver
     \/ ~rested /\ UNCHANGED <<rested, driver>>
  /\ NoFault /\ UNCHANGED <<configured, attempts, timer, locks, data, scan>>

TriggerReconfigure ==
  /\ pc = "trigger" /\ Drv!Disconnect
  /\ pc' = "triggered"
  /\ NoFault /\ UNCHANGED <<retry, locks, data, scan>>

Disconnecting ==
  /\ Drv!Disconnecting
  /\ NoFault /\ UNCHANGED <<pc, retry, locks, data, scan>>

\* Mutant: triggerReconfigure() does not start the retry timer.
WatchdogReturnsUntimed ==
  /\ pc = "triggered" /\ caller = "idle"
  /\ configured' = FALSE /\ watchdog' = FALSE /\ pc' = "spin"
  /\ NoFault /\ UNCHANGED <<driver, attempts, rested, timer, reconf, data, scan>>

WatchdogReturns ==
  /\ pc = "triggered" /\ caller = "idle"
  /\ configured' = FALSE /\ timer' = TRUE /\ watchdog' = FALSE /\ pc' = "spin"
  /\ NoFault /\ UNCHANGED <<driver, attempts, rested, reconf, data, scan>>

\* dynamicReconfigureCallback(): reconfigure_mutex_, and inside it, when the
\* discard time changes, watchdog_mutex_ for the new deadline.
DynamicReconfigure ==
  /\ pc = "spin" /\ ~reconf
  /\ reconf' = TRUE /\ pc' \in {"deadline", "changed"}
  /\ NoFault /\ UNCHANGED <<driver, retry, watchdog, data, scan>>

NewDeadline ==
  /\ pc = "deadline" /\ ~watchdog
  /\ discard' \in {"running", "over"} /\ pc' = "changed"
  /\ NoFault /\ UNCHANGED <<driver, retry, locks, area, cached, fresh, scan>>

ParamsChanged ==
  /\ pc = "changed"
  /\ reconf' = FALSE /\ pc' = "spin"
  /\ NoFault /\ UNCHANGED <<driver, retry, watchdog, data, scan>>

----------------------------------------------------------------------------
(* The io thread *)

IsScan == io.at = "callback" /\ io.frame.name \in {"AR00", "AR01", "AR06"}

\* scanCallback(): the stamp and the deadline under watchdog_mutex_, then the
\* parameters under reconfigure_mutex_, then status and scan under no lock.
ScanStamp ==
  /\ IsScan /\ scan = "none" /\ ~watchdog
  /\ fresh' = TRUE
  /\ scan' = IF discard = "running" THEN "done" ELSE "limits"
  /\ NoFault /\ UNCHANGED <<driver, pc, retry, locks, area, cached, discard>>

ScanLimits ==
  /\ scan = "limits" /\ ~reconf
  /\ scan' = "publish"
  /\ NoFault /\ UNCHANGED <<driver, pc, retry, locks, data>>

ScanPublish ==
  /\ scan = "publish" /\ scan' = "done"
  /\ NoFault /\ UNCHANGED <<driver, pc, retry, locks, data>>

CallbackReturns ==
  /\ IsScan => scan = "done"
  /\ Drv!PacketCallback
  /\ scan' = "none"
  /\ NoFault /\ UNCHANGED <<pc, retry, locks, data>>

ReaderRuns ==
  /\ Drv!ReaderRuns
  /\ NoFault /\ UNCHANGED <<pc, retry, locks, data, scan>>

\* A malformed text reply is a fault.
LineCallback ==
  /\ Drv!LineCallback
  /\ IF Head(queue).kind = "line" /\ Head(queue).ok /\ ~ready' THEN Fault ELSE NoFault
  /\ UNCHANGED <<pc, retry, locks, data, scan>>

----------------------------------------------------------------------------
(* The lidar, the network and time *)

Serves ==
  /\ Drv!Answer \/ Drv!StreamScan \/ Drv!Established(TRUE)
     \/ Drv!ReadCompletes \/ Drv!ReadFails
  /\ NoFault /\ UNCHANGED <<pc, retry, locks, data, scan>>

Misbehaves ==
  /\ Drv!Refuse \/ Drv!Ignore \/ Drv!PeerDrops \/ Drv!Established(FALSE)
  /\ Fault /\ UNCHANGED <<pc, retry, locks, data, scan>>

\* scan_timeout passes: no scan came, or (a fault) scans or replies were slow.
Quiet == configured /\ (link # "up" \/ stream = "INVALID")

Silence ==
  /\ fresh /\ fresh' = FALSE
  /\ IF Quiet THEN NoFault ELSE Fault
  /\ UNCHANGED <<driver, pc, retry, locks, area, cached, discard, scan>>

DeadlinePasses ==
  /\ discard = "running" /\ discard' = "over"
  /\ NoFault /\ UNCHANGED <<driver, pc, retry, locks, area, cached, fresh, scan>>

IntervalPasses ==
  /\ ~rested /\ rested' = TRUE
  /\ NoFault /\ UNCHANGED <<driver, pc, configured, attempts, timer, locks, data, scan>>

----------------------------------------------------------------------------
Configure ==
  \/ Connect \/ Connecting \/ ConnectReturns \/ Start \/ Proceed \/ Return
  \/ StartStreaming \/ WriteParams \/ AreasCached \/ SwapAreas \/ PublishStatus
  \/ Stamp \/ Throw \/ CatchDisconnects \/ Catch

WatchdogRuns ==
  WatchdogReset \/ TriggerReconfigure \/ Disconnecting \/ WatchdogReturns

Reconfigures == NewDeadline \/ ParamsChanged

Main ==
  \/ Configure \/ ConfigureTimer
  \/ Watchdog \/ WatchdogRuns
  \/ DynamicReconfigure \/ Reconfigures

IoThread ==
  \/ ScanStamp \/ ScanLimits \/ ScanPublish
  \/ CallbackReturns \/ ReaderRuns \/ LineCallback

Environment == Serves \/ Misbehaves \/ Silence \/ DeadlinePasses \/ IntervalPasses

Next == Main \/ IoThread \/ Environment

Spec == Init /\ [][Next]_vars

\* The main thread runs the callback it is in to its end, and ros::spin()
\* serves every timer in turn; the io thread runs; the lidar and the network
\* serve when they do not misbehave; time passes.
Fairness ==
  /\ WF_vars(Configure) /\ WF_vars(WatchdogRuns) /\ WF_vars(Reconfigures)
  /\ SF_vars(ConfigureTimer) /\ SF_vars(Watchdog)
  /\ WF_vars(IoThread)
  /\ WF_vars(Serves /\ ~Drv!StreamScan)
  /\ WF_vars(Silence /\ Quiet)

FairSpec == Spec /\ Fairness
----------------------------------------------------------------------------
(* Properties *)

\* "At this point the receiver thread is not yet running, so we can safely
\* write into scan_params": no packet of any connection is in the hands of the
\* io thread while configure() writes scan_params_.
ReceiverNotRunning == pc = "params" => Drv!Tcp!NoChain /\ scan = "none"

\* safety_areas_ and the last status have no lock: while configure() writes
\* them the io thread is not in scanCallback, which reads and writes them.
SharedDataExclusive == pc \in {"params", "swap", "publish"} => scan = "none"

\* configured_ means a stream: the lidar was told to stream on the present
\* connection, the driver knows it and reads, and the areas are cached.
ConfiguredStreams ==
  pc = "spin" /\ configured =>
    /\ connected /\ ~stopped /\ cached
    /\ mode = Streaming /\ (link = "up" => stream = Streaming)

\* A node that is not configured has its retry timer running, or it is in
\* configure(): it never sits in ros::spin with nothing left to wake it up.
NeverStuck == pc = "spin" /\ ~configured => timer

\* "Set discard deadline before starting streaming to ensure no startup
\* packets slip through": a scan that is used has seen the deadline of its own
\* connection pass.
NoStartupScan == scan \in {"limits", "publish"} => discard # "unset"

\* Once the faults are over the node is configured, on a live link with the
\* stream it wants, and stays so: retries succeed, a dead link is noticed, and
\* the watchdog does not reset a lidar that works.
StreamsForGood == <>[](configured /\ link = "up" /\ stream = Streaming)

\* "Configuration failed. Restart the timer to try again": trying again works.
Recovers == ~configured ~> configured

=============================================================================
