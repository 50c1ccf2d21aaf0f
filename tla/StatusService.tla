----------------------------- MODULE StatusService -----------------------------
(***************************************************************************)
(* The status of the lidar in the ROS node: statusCallback(), the service  *)
(* that asks for it, and updateStatus(), which publishes it.               *)
(*                                                                         *)
(* The service runs in the main thread: it sets publish_status_requested_  *)
(* and polls it for Cycles half scan periods.  The io thread clears it in  *)
(* updateStatus() after it has published the status of a scan.  The safety *)
(* area that is published along with it is left to SafetyAreas.            *)
(***************************************************************************)
EXTENDS Naturals

CONSTANTS
  Statuses,  \* what the status fields of a scan may say
  None,      \* no status yet
  Cycles     \* half_scan_cycles_timeout, 4 in the code

ASSUME CyclesAssumption == Cycles \in Nat
ASSUME NoneAssumption == None \notin Statuses

VARIABLES
  configured,  \* configured_
  requested,   \* publish_status_requested_
  service,     \* the main thread: "idle", or "waiting" in statusCallback()
  waited,      \* cycles_waited
  answer,      \* what the last call of the service returned
  io,          \* the io thread in updateStatus()
  status,      \* the sensing data of the scan it handles
  onRequest, onUpdate,  \* on_request_status, on_update_status
  last,        \* last_received_status_
  requestTopic, updateTopic   \* the last messages of the two latched topics

main   == <<configured, service, waited, answer>>
thread == <<io, status, onRequest, onUpdate>>
topics == <<requestTopic, updateTopic>>
vars   == <<main, requested, thread, last, topics>>

TypeOK ==
  /\ configured \in BOOLEAN /\ requested \in BOOLEAN
  /\ service \in {"idle", "waiting"}
  /\ waited \in 0..Cycles
  /\ answer \in {"none", "published", "failed"}
  /\ io \in {"idle", "compare", "publish", "clear", "update"}
  /\ {status, last, requestTopic, updateTopic} \subseteq Statuses \cup {None}
  /\ onRequest \in BOOLEAN /\ onUpdate \in BOOLEAN

Init ==
  /\ configured = FALSE /\ requested = FALSE
  /\ service = "idle" /\ waited = 0 /\ answer = "none"
  /\ io = "idle" /\ status = None /\ onRequest = FALSE /\ onUpdate = FALSE
  /\ last = None /\ requestTopic = None /\ updateTopic = None

----------------------------------------------------------------------------
(* The main thread *)

\* configure(): updateStatus(status, true) while the io thread is in no scan.
Configure(received) ==
  /\ service = "idle" /\ ~configured /\ io = "idle"
  /\ configured' = TRUE /\ requested' = FALSE
  /\ last' = received /\ requestTopic' = received /\ updateTopic' = received
  /\ UNCHANGED <<service, waited, answer, thread>>

\* The watchdog gives the connection up; a scan may be in progress.
TriggerReconfigure ==
  /\ service = "idle" /\ configured
  /\ configured' = FALSE
  /\ UNCHANGED <<service, waited, answer, requested, thread, last, topics>>

Call ==
  /\ service = "idle" /\ configured
  /\ service' = "waiting" /\ waited' = 0 /\ answer' = "none"
  /\ requested' = TRUE
  /\ UNCHANGED <<configured, thread, last, topics>>

Refuse ==
  /\ service = "idle" /\ ~configured
  /\ answer' = "failed"
  /\ UNCHANGED <<configured, service, waited, requested, thread, last, topics>>

\* Mutant: the number of cycles is not looked at before the thread sleeps.
SleepOn ==
  /\ service = "waiting" /\ requested
  /\ waited' = waited + 1
  /\ UNCHANGED <<configured, service, answer, requested, thread, last, topics>>

Sleep ==
  /\ service = "waiting" /\ requested /\ waited < Cycles
  /\ waited' = waited + 1
  /\ UNCHANGED <<configured, service, answer, requested, thread, last, topics>>

\* Mutant: the number of cycles is not looked at.
ReturnWhenServed ==
  /\ service = "waiting" /\ ~requested
  /\ service' = "idle" /\ waited' = 0 /\ answer' = "published"
  /\ UNCHANGED <<configured, requested, thread, last, topics>>

\* The loop ends with the flag cleared or after Cycles; the flag, read once
\* more, decides the answer.  A request that failed stays requested.
Return ==
  /\ service = "waiting" /\ (~requested \/ waited = Cycles)
  /\ service' = "idle" /\ waited' = 0
  /\ answer' = IF requested THEN "failed" ELSE "published"
  /\ UNCHANGED <<configured, requested, thread, last, topics>>

----------------------------------------------------------------------------
(* The io thread: updateStatus(sensing_data, false) of scanCallback() *)

Scan(received) ==
  /\ io = "idle" /\ configured
  /\ status' = received /\ io' = "compare"
  /\ UNCHANGED <<main, requested, onRequest, onUpdate, last, topics>>

\* Mutant: an update is recognised only when nobody asks for the status.
CompareRequestFirst ==
  /\ io = "compare"
  /\ onRequest' = requested /\ onUpdate' = (~requested /\ last # status)
  /\ last' = IF onRequest' \/ onUpdate' THEN status ELSE last
  /\ io' = "publish"
  /\ UNCHANGED <<main, requested, status, topics>>

\* The flag is read once; whatever is published becomes the last status.
Compare ==
  /\ io = "compare"
  /\ onRequest' = requested /\ onUpdate' = (last # status)
  /\ last' = IF onRequest' \/ onUpdate' THEN status ELSE last
  /\ io' = "publish"
  /\ UNCHANGED <<main, requested, status, topics>>

PublishOnRequest ==
  /\ io = "publish"
  /\ \/ /\ onRequest /\ io' = "clear"
        /\ requestTopic' = status
     \/ ~onRequest /\ io' = "update" /\ UNCHANGED requestTopic
  /\ UNCHANGED <<main, requested, status, onRequest, onUpdate, last, updateTopic>>

ClearRequest ==
  /\ io = "clear"
  /\ requested' = FALSE /\ io' = "update"
  /\ UNCHANGED <<main, status, onRequest, onUpdate, last, topics>>

PublishOnUpdate ==
  /\ io = "update"
  /\ updateTopic' = IF onUpdate THEN status ELSE updateTopic
  /\ io' = "idle" /\ status' = None /\ onRequest' = FALSE /\ onUpdate' = FALSE
  /\ UNCHANGED <<main, requested, last, requestTopic>>

----------------------------------------------------------------------------
Main ==
  \/ \E received \in Statuses : Configure(received)
  \/ TriggerReconfigure \/ Call \/ Refuse \/ Sleep \/ Return

UpdateStatus == Compare \/ PublishOnRequest \/ ClearRequest \/ PublishOnUpdate

Next == Main \/ UpdateStatus \/ \E received \in Statuses : Scan(received)

Spec == Init /\ [][Next]_vars

\* A call of the service runs to its end, and so does a scan; no lidar is
\* obliged to send one.
FairSpec == Spec /\ WF_vars(Sleep \/ Return) /\ WF_vars(UpdateStatus)

----------------------------------------------------------------------------
(* Properties *)

\* The update topic never lags behind: between two scans its latched message
\* is the last status received, whoever published that and why.
UpdateTopicIsCurrent == io = "idle" => updateTopic = last

\* The service ends, scans or not: the one thread of the node is not held up.
ServiceReturns == service = "waiting" ~> service = "idle"

=============================================================================
