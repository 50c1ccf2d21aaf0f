-------------------------------- MODULE UrgNode --------------------------------
(***************************************************************************)
(* The older node (urg_node_driver.cpp) over the wrapper of urg_c          *)
(* (urg_c_wrapper.cpp): a scan thread that connects, streams and           *)
(* reconnects, the main thread with the status service, dynamic            *)
(* reconfigure and the destructor, and the diagnostics thread.             *)
(*                                                                         *)
(* lidar_mutex_ guards the grabbing of a scan and the status, not dynamic  *)
(* reconfigure and not the end of a connection.  urg_ is null exactly when *)
(* conn is "none"; with a "dead" connection every exchange fails.          *)
(*                                                                         *)
(* A fault is a lost link, or a request on a live link that fails;         *)
(* MaxFaults of them happen.                                               *)
(***************************************************************************)
EXTENDS Naturals

CONSTANTS
  ErrorLimit,   \* error_limit_
  MaxFaults     \* bound

ASSUME UrgNodeAssumption == ErrorLimit \in Nat /\ MaxFaults \in Nat

Threads == {"scan", "main"}

VARIABLES
  pc,         \* where each of the two threads is
  diag,       \* the diagnostics thread has tested urg_ and is about to use it
  conn,       \* urg_: "none", or a wrapper whose connection is "live" or "dead"
  started,    \* started_ of the wrapper: the lidar was told to stream
  restart,    \* restart of the sendCommand() in progress
  mutex,      \* the thread that holds lidar_mutex_, or "none"
  yield,      \* service_yield_
  errors,     \* error_count_
  srv,        \* srv_ is not null
  ok,         \* ros::ok()
  detailed,   \* detailed_status_, a parameter
  calibrate,  \* calibrate_time_, a parameter
  overtaken,  \* scans grabbed while main waits for the lock with the flag up,
              \* counted up to 2
  faults      \* faults left

device   == <<conn, started>>
flags    == <<mutex, yield, overtaken>>
settings == <<detailed, calibrate>>
vars     == <<pc, diag, device, restart, flags, errors, srv, ok, settings, faults>>

Updating   == {"asks", "locks", "query", "exchange", "blocked"}
ScanPoints == Updating \cup {"top", "connects", "connecting", "calibrates",
                "calibrating", "clears", "spins", "checks", "starts", "loop",
                "grabbing", "pauses", "clear", "limit", "ended", "crashed", "null"}
MainPoints == Updating \cup {"spin", "stops", "starts", "fatal", "closes",
                "joins", "ended", "crashed", "null"}

FlagsTyped ==
  {diag, started, restart, yield, srv, ok, detailed, calibrate} \subseteq BOOLEAN

DataTyped ==
  /\ pc \in [Threads -> ScanPoints \cup MainPoints]
  /\ pc["scan"] \in ScanPoints /\ pc["main"] \in MainPoints
  /\ conn \in {"none", "live", "dead"}
  /\ mutex \in Threads \cup {"none"}
  /\ errors \in 0..(ErrorLimit + 1)
  /\ overtaken \in 0..2
  /\ faults \in 0..MaxFaults

TypeOK == FlagsTyped /\ DataTyped

\* run(): the first attempt to connect is over, the threads are started.
Init ==
  /\ pc = [t \in Threads |-> IF t = "scan" THEN "top" ELSE "spin"] /\ diag = FALSE
  /\ conn \in {"none", "live"} /\ started = FALSE /\ restart = FALSE
  /\ mutex = "none" /\ yield = FALSE /\ errors = 0 /\ srv = FALSE /\ ok = TRUE
  /\ detailed \in BOOLEAN /\ calibrate \in BOOLEAN
  /\ overtaken = 0 /\ faults = MaxFaults

\* Mutant: the scan thread is told to end after it was joined.
CloseScanLate == pc["main"] = "ended"

\* close_scan_, which the destructor sets when the diagnostics thread is gone.
close_scan == pc["main"] \in {"joins", "ended"}

Alive == pc["main"] \notin {"crashed", "null"}

\* A service waits for the mutex with its flag up.
ServiceWaits == pc["main"] = "locks" /\ yield

Go(t, point) == pc' = [pc EXCEPT ![t] = point]

Fault == faults > 0 /\ faults' = faults - 1

\* urg_.reset(): stops the measurement and closes the connection.
Reset == conn' = "none" /\ started' = FALSE

\* A null urg_ is used: the process ends.
Dereference ==
  /\ pc' = [t \in Threads |-> "null"] /\ diag' = FALSE
  /\ UNCHANGED <<device, restart, flags, errors, srv, ok, settings, faults>>

Acquire(t) == mutex = "none" /\ mutex' = t
Release    == mutex' = "none"

----------------------------------------------------------------------------
(* updateStatus(), by the thread t *)

\* A service served by ros::spinOnce() returns to the scan thread before srv_
\* is made, the call in scanThread() after it.
Back(t) == IF t = "main" THEN "spin" ELSE IF srv THEN "starts" ELSE "checks"

Ask(t) ==
  /\ pc[t] = "asks" /\ Go(t, "locks")
  /\ yield' = TRUE /\ overtaken' = IF t = "main" THEN 0 ELSE overtaken
  /\ UNCHANGED <<diag, device, restart, mutex, errors, srv, ok, settings, faults>>

Lock(t) ==
  /\ pc[t] = "locks"
  /\ IF conn = "none"
     THEN mutex = "none" /\ Go(t, Back(t)) /\ UNCHANGED mutex
     ELSE Acquire(t) /\ Go(t, "query")
  /\ UNCHANGED <<diag, device, restart, yield, overtaken, errors, srv, ok, settings, faults>>

\* getSensorStatus(); with the detailed status sendCommand() stops the scan.
Query(t) ==
  /\ pc[t] = "query" /\ conn # "none"
  /\ \/ /\ ~detailed /\ Release /\ Go(t, Back(t)) /\ UNCHANGED <<started, restart>>
     \/ /\ detailed /\ Go(t, "exchange") /\ UNCHANGED mutex
        /\ restart' = started /\ started' = FALSE
  /\ UNCHANGED <<diag, conn, yield, overtaken, errors, srv, ok, settings, faults>>

\* urg_ was reset by the scan thread, which does not hold the mutex for it.
QueryNull(t) == pc[t] = "query" /\ conn = "none" /\ Dereference

\* The reply is read and the scan resumed.
Answered(t) ==
  /\ pc[t] = "exchange" /\ conn = "live" /\ ~started
  /\ started' = restart /\ restart' = FALSE
  /\ Release /\ Go(t, Back(t))
  /\ UNCHANGED <<diag, conn, yield, overtaken, errors, srv, ok, settings, faults>>

\* The socket is closed, the reply is lost, the bytes of a scan are taken for
\* it, or the scan does not resume.  read() = -1 makes a string of the length
\* SIZE_MAX and start() throws: the service catches that, the scan thread does
\* not.  process() reads outside of an empty reply, which it may survive.
Failed(t) ==
  /\ pc[t] = "exchange"
  /\ IF conn # "live" \/ started THEN UNCHANGED faults ELSE Fault
  /\ \/ /\ Release /\ Go(t, Back(t)) /\ UNCHANGED diag
     \/ /\ pc' = [s \in Threads |-> "crashed"] /\ diag' = FALSE /\ UNCHANGED mutex
  /\ restart' = FALSE
  /\ UNCHANGED <<device, yield, overtaken, errors, srv, ok, settings>>

\* The lidar does not answer: read() has no timeout.
Ignored(t) ==
  /\ pc[t] = "exchange" /\ conn = "live" /\ ~started /\ Fault /\ Go(t, "blocked")
  /\ UNCHANGED <<diag, device, restart, flags, errors, srv, ok, settings>>

UpdateStatus(t) ==
  Ask(t) \/ Lock(t) \/ Query(t) \/ QueryNull(t) \/ Answered(t) \/ Failed(t)

----------------------------------------------------------------------------
(* scanThread() *)

\* update_reconfigure_limits() changes nothing that is modelled.
Limits == IF calibrate THEN "calibrates" ELSE "clears"

Top ==
  /\ pc["scan"] = "top"
  /\ Go("scan", IF close_scan THEN "ended"
                ELSE IF conn = "none" THEN "connects" ELSE Limits)
  /\ UNCHANGED <<diag, device, restart, flags, errors, srv, ok, settings, faults>>

Connect ==
  /\ pc["scan"] = "connects" /\ Acquire("scan") /\ Reset /\ Go("scan", "connecting")
  /\ UNCHANGED <<diag, restart, yield, overtaken, errors, srv, ok, settings, faults>>

\* The constructor of the wrapper clears started_.
Connected ==
  /\ pc["scan"] = "connecting" /\ Release
  /\ conn' = "live" /\ Go("scan", Limits)
  /\ UNCHANGED <<diag, started, restart, yield, overtaken, errors, srv, ok, settings, faults>>

Refused ==
  /\ pc["scan"] = "connecting" /\ Fault /\ Release /\ Go("scan", "top")
  /\ UNCHANGED <<diag, device, restart, yield, overtaken, errors, srv, ok, settings>>

Calibrate ==
  /\ pc["scan"] = "calibrates" /\ Acquire("scan") /\ Go("scan", "calibrating")
  /\ UNCHANGED <<diag, device, restart, yield, overtaken, errors, srv, ok, settings, faults>>

Calibrated ==
  /\ pc["scan"] = "calibrating" /\ conn = "live" /\ ~started
  /\ Release /\ Go("scan", "clears")
  /\ UNCHANGED <<diag, device, restart, yield, overtaken, errors, srv, ok, settings, faults>>

\* computeLatency() throws while the scan is started, and after it has started
\* the scan itself without getting one.
CalibrationFails ==
  /\ pc["scan"] = "calibrating"
  /\ IF conn = "dead" \/ started \/ pc["main"] = "starts" THEN UNCHANGED faults ELSE Fault
  /\ started' \in {started, TRUE}
  /\ Release /\ ok' = FALSE /\ Go("scan", "clears")
  /\ UNCHANGED <<diag, conn, restart, yield, overtaken, errors, srv, settings>>

\* srv_.reset() waits for a reconfigure_callback() that runs.
ResetServer ==
  /\ pc["scan"] = "clears" /\ pc["main"] \notin {"stops", "starts", "fatal"}
  /\ srv' = FALSE /\ Go("scan", "spins")
  /\ UNCHANGED <<diag, device, restart, flags, errors, ok, settings, faults>>

\* ros::spinOnce() may serve a status request in this thread.
SpinOnce ==
  /\ pc["scan"] = "spins"
  /\ \/ Go("scan", "checks")
     \/ ok /\ Go("scan", "asks")
  /\ UNCHANGED <<diag, device, restart, flags, errors, srv, ok, settings, faults>>

\* The first call of reconfigure_callback(), with a negative level, is made
\* here; it sets the limits of a lidar that does not stream.
MakeServer ==
  /\ pc["scan"] = "checks"
  /\ srv' = ok /\ Go("scan", IF ok THEN "asks" ELSE "top")
  /\ UNCHANGED <<diag, device, restart, flags, errors, ok, settings, faults>>

\* Mutant: the errors of the last connection are kept.
StartKeepsErrors ==
  /\ pc["scan"] = "starts" /\ (started \/ conn = "live")
  /\ started' = TRUE /\ Go("scan", "loop")
  /\ UNCHANGED <<diag, conn, restart, flags, errors, srv, ok, settings, faults>>

Start ==
  /\ pc["scan"] = "starts" /\ (started \/ conn = "live")
  /\ started' = TRUE /\ errors' = 0 /\ Go("scan", "loop")
  /\ UNCHANGED <<diag, conn, restart, flags, srv, ok, settings, faults>>

\* urg_.reset() without the mutex.
StartFails ==
  /\ pc["scan"] = "starts" /\ ~started
  /\ IF conn = "dead" THEN UNCHANGED faults ELSE Fault
  /\ Reset /\ Go("scan", "top")
  /\ UNCHANGED <<diag, restart, flags, errors, srv, ok, settings>>

LeaveLoop ==
  /\ pc["scan"] = "loop" /\ close_scan /\ Go("scan", "top")
  /\ UNCHANGED <<diag, device, restart, flags, errors, srv, ok, settings, faults>>

Grab ==
  /\ pc["scan"] = "loop" /\ ~close_scan /\ Acquire("scan") /\ Go("scan", "grabbing")
  /\ overtaken' = IF ServiceWaits /\ overtaken < 2 THEN overtaken + 1 ELSE overtaken
  /\ UNCHANGED <<diag, device, restart, yield, errors, srv, ok, settings, faults>>

\* Mutant: the flag is never looked at.
AfterGrabHeedless == "limit"

\* The scan thread pauses for 10 ms if a service has raised the flag.
AfterGrab == IF yield THEN "pauses" ELSE "limit"

Grabbed ==
  /\ pc["scan"] = "grabbing" /\ conn = "live" /\ started
  /\ Release /\ Go("scan", AfterGrab)
  /\ UNCHANGED <<diag, device, restart, yield, overtaken, errors, srv, ok, settings, faults>>

GrabFails ==
  /\ pc["scan"] = "grabbing"
  /\ IF conn = "live" /\ started THEN Fault ELSE UNCHANGED faults
  /\ errors' = errors + 1 /\ Release /\ Go("scan", AfterGrab)
  /\ UNCHANGED <<diag, device, restart, yield, overtaken, srv, ok, settings>>

\* 10 ms are enough for a thread that waits for a free mutex.
EndPause ==
  /\ pc["scan"] = "pauses" /\ ~(pc["main"] = "locks" /\ mutex = "none")
  /\ Go("scan", "clear")
  /\ UNCHANGED <<diag, device, restart, flags, errors, srv, ok, settings, faults>>

ClearYield ==
  /\ pc["scan"] = "clear" /\ yield' = FALSE /\ overtaken' = 0 /\ Go("scan", "limit")
  /\ UNCHANGED <<diag, device, restart, mutex, errors, srv, ok, settings, faults>>

\* Mutant: the loop is left without giving up the connection.
GiveUpKeeps == UNCHANGED device

\* urg_.reset() without the mutex.
GiveUp == Reset

Limit ==
  /\ pc["scan"] = "limit"
  /\ \/ errors > ErrorLimit /\ GiveUp /\ Go("scan", "top")
     \/ errors <= ErrorLimit /\ UNCHANGED device /\ Go("scan", "loop")
  /\ UNCHANGED <<diag, restart, flags, errors, srv, ok, settings, faults>>

ScanThread ==
  \/ Top \/ Connect \/ Connected \/ Refused \/ Calibrate \/ Calibrated
  \/ CalibrationFails \/ ResetServer \/ SpinOnce \/ MakeServer \/ Start
  \/ StartFails \/ LeaveLoop \/ Grab \/ Grabbed \/ GrabFails \/ EndPause
  \/ ClearYield \/ Limit

----------------------------------------------------------------------------
(* The main thread: ros::spin() and the destructor *)

Service ==
  /\ pc["main"] = "spin" /\ ok /\ Go("main", "asks")
  /\ UNCHANGED <<diag, device, restart, flags, errors, srv, ok, settings, faults>>

\* reconfigure_callback() with a positive level; a null urg_ is refused.
Reconfigure ==
  /\ pc["main"] = "spin" /\ ok /\ srv /\ conn # "none" /\ Go("main", "stops")
  /\ UNCHANGED <<diag, device, restart, flags, errors, srv, ok, settings, faults>>

StopScan ==
  /\ pc["main"] = "stops" /\ conn # "none"
  /\ started' = FALSE /\ Go("main", "starts")
  /\ UNCHANGED <<diag, conn, restart, flags, errors, srv, ok, settings, faults>>

RestartScan ==
  /\ pc["main"] = "starts" /\ conn # "none" /\ (started \/ conn = "live")
  /\ started' = TRUE /\ Go("main", "spin")
  /\ UNCHANGED <<diag, conn, restart, flags, errors, srv, ok, settings, faults>>

RestartFails ==
  /\ pc["main"] = "starts" /\ conn # "none" /\ ~started
  /\ IF conn = "dead" THEN UNCHANGED faults ELSE Fault
  /\ Go("main", "fatal")
  /\ UNCHANGED <<diag, device, restart, flags, errors, srv, ok, settings>>

\* urg_ was reset after reconfigure_callback() had tested it.
UseNull ==
  /\ pc["main"] \in {"stops", "starts"} /\ conn = "none" /\ Dereference

Fatal ==
  /\ pc["main"] = "fatal" /\ ok' = FALSE /\ Go("main", "spin")
  /\ UNCHANGED <<diag, device, restart, flags, errors, srv, settings, faults>>

SpinEnds ==
  /\ pc["main"] = "spin" /\ ~ok /\ Go("main", "closes")
  /\ UNCHANGED <<diag, device, restart, flags, errors, srv, ok, settings, faults>>

\* ~UrgNode(): the diagnostics thread is joined, close_scan_ is set.
Close ==
  /\ pc["main"] = "closes" /\ ~diag /\ Go("main", "joins")
  /\ UNCHANGED <<diag, device, restart, flags, errors, srv, ok, settings, faults>>

Join ==
  /\ pc["main"] = "joins" /\ pc["scan"] = "ended" /\ Go("main", "ended")
  /\ UNCHANGED <<diag, device, restart, flags, errors, srv, ok, settings, faults>>

MainThread ==
  \/ StopScan \/ RestartScan \/ RestartFails \/ UseNull \/ Fatal \/ SpinEnds
  \/ Close \/ Join

----------------------------------------------------------------------------
(* populateDiagnosticsStatus() in the diagnostics thread, with no mutex *)

Diagnose ==
  /\ ~diag /\ conn # "none" /\ pc["main"] \notin {"closes", "joins", "ended", "crashed", "null"}
  /\ diag' = TRUE
  /\ UNCHANGED <<pc, device, restart, flags, errors, srv, ok, settings, faults>>

Diagnosed ==
  /\ diag /\ conn # "none" /\ diag' = FALSE
  /\ UNCHANGED <<pc, device, restart, flags, errors, srv, ok, settings, faults>>

DiagnoseNull == diag /\ conn = "none" /\ Dereference

Diagnostics == Diagnosed \/ DiagnoseNull

----------------------------------------------------------------------------
(* The environment *)

LinkLost ==
  /\ Alive /\ conn = "live" /\ conn' = "dead" /\ Fault
  /\ UNCHANGED <<pc, diag, started, restart, flags, errors, srv, ok, settings>>

Shutdown ==
  /\ Alive /\ ok /\ ok' = FALSE
  /\ UNCHANGED <<pc, diag, device, restart, flags, errors, srv, settings, faults>>

Next ==
  \/ \E t \in Threads : UpdateStatus(t) \/ Ignored(t)
  \/ ScanThread \/ MainThread \/ Service \/ Reconfigure
  \/ Diagnose \/ Diagnostics \/ LinkLost \/ Shutdown

Spec == Init /\ [][Next]_vars

----------------------------------------------------------------------------
(* Properties *)

\* A service that waits for the lidar with its flag up is overtaken by one scan
\* at most: the scan thread sees the flag after that scan and pauses for it.
OvertakenOnce == ServiceWaits => overtaken <= 1

\* Every thread runs; nobody is owed a mutex that others take again and again.
FairSpec ==
  /\ Spec
  /\ WF_vars(ScanThread) /\ WF_vars(MainThread) /\ WF_vars(Diagnostics)
  /\ \A t \in Threads : WF_vars(UpdateStatus(t))

Blocked == \E t \in Threads : pc[t] = "blocked"

\* A service that waits with its flag up gets the lidar in the end: the scan
\* thread pauses, and no other thread takes the mutex for ever.  The flag may be
\* lost: the scan thread clears it after the pause, whoever has raised it since.
FlagIsHeeded ==
  ServiceWaits ~> pc["main"] # "locks" \/ ~yield \/ ~ok \/ Blocked

\* Whatever faults there were, the node grabs scans again, unless it has ended
\* itself, a reply never comes, or the main thread is at work for ever.
StreamsAgain ==
  <>[](ok /\ ~Blocked /\ Alive /\ pc["main"] = "spin") => []<><<Grabbed>>_vars

\* After ros::shutdown() both threads end, unless the process crashed, a reply
\* never comes, or a service waits for the mutex for ever.
NodeEnds ==
  <>~ok => \/ <>(pc["main"] = "ended" /\ pc["scan"] = "ended")
           \/ <>(Blocked \/ ~Alive)
           \/ <>[](pc["main"] = "locks")

\* "Added more robustness and the ability to continually reloop and reconnect
\* until node is shutdown" (CHANGELOG.rst:481): a connection that the scan thread
\* gives up takes no thread that uses it with it.  The crashes in which a reply
\* ends (Failed) are left out.
Reloops == pc["main"] # "null"
================================================================================
