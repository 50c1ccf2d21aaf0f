----------------------------- MODULE UrgNode_proofs -----------------------------
(***************************************************************************)
(* Theorems about UrgNode, for every error limit and any number of faults. *)
(***************************************************************************)
EXTENDS UrgNode, TLAPS

\* The flags are a matter of logic, the rest of the state one of arithmetic.
LEMMA FlagsInit == Init => FlagsTyped
BY Zenon DEF Init, FlagsTyped

LEMMA FlagsStep == FlagsTyped /\ [Next]_vars => FlagsTyped'
<1> SUFFICES ASSUME FlagsTyped, [Next]_vars PROVE FlagsTyped'
  OBVIOUS
<1> USE DEF device, flags, settings
<1>1. CASE UNCHANGED vars
  BY <1>1, Zenon DEF vars, FlagsTyped
<1>2. ASSUME NEW t \in Threads, UpdateStatus(t) \/ Ignored(t) PROVE FlagsTyped'
  BY <1>2, Zenon DEF FlagsTyped, UpdateStatus, Ask, Lock, Query, QueryNull, Answered,
     Failed, Ignored, Dereference
<1>3. CASE ScanThread
  BY <1>3, Zenon DEF FlagsTyped, ScanThread, Top, Connect, Connected, Refused, Calibrate,
     Calibrated, CalibrationFails, ResetServer, SpinOnce, MakeServer, Start,
     StartFails, LeaveLoop, Grab, Grabbed, GrabFails, EndPause, ClearYield, Limit,
     GiveUp, Reset
<1>4. CASE MainThread \/ Service \/ Reconfigure
  BY <1>4, Zenon DEF FlagsTyped, MainThread, StopScan, RestartScan, RestartFails,
     UseNull, Fatal, SpinEnds, Close, Join, Service, Reconfigure, Dereference
<1>5. CASE Diagnose \/ Diagnostics \/ LinkLost \/ Shutdown
  BY <1>5, Zenon DEF FlagsTyped, Diagnose, Diagnostics, Diagnosed, DiagnoseNull,
     LinkLost, Shutdown, Dereference
<1>6. QED
  BY <1>1, <1>2, <1>3, <1>4, <1>5 DEF Next

\* error_count_ passes the limit only on the way out of the inner loop.
ErrorsInv == pc["scan"] \in {"loop", "grabbing"} => errors <= ErrorLimit

\* Where a thread may hold lidar_mutex_.
Holding == {"query", "exchange", "blocked", "crashed", "null", "connecting", "calibrating", "grabbing"}

MutexInv == \A t \in Threads : mutex = t => pc[t] \in Holding

\* A service that was overtaken had its flag up, and the scan thread has not
\* yet ended the pause that it owes.
OvertakenInv ==
  pc["main"] = "locks" /\ overtaken # 0
    => overtaken = 1 /\ yield /\ pc["scan"] \in {"grabbing", "pauses"}

IInv == DataTyped /\ ErrorsInv /\ MutexInv /\ OvertakenInv

LEMMA InitInv == Init => IInv
BY UrgNodeAssumption DEF Init, IInv, DataTyped, ErrorsInv, MutexInv, OvertakenInv,
   Threads, ScanPoints, MainPoints, Updating, Holding

\* The use of a null urg_ keeps the invariant: it moves both threads and nothing else.
LEMMA DereferenceInv == IInv /\ Dereference => IInv'
BY DEF Dereference, IInv, DataTyped, ErrorsInv, MutexInv, OvertakenInv, Threads, Holding,
   ScanPoints, MainPoints, device, flags, settings

LEMMA UpdateInv ==
  ASSUME IInv, NEW t \in Threads, UpdateStatus(t) \/ Ignored(t)
  PROVE  IInv'
<1> USE UrgNodeAssumption
    DEF IInv, DataTyped, ErrorsInv, MutexInv, OvertakenInv, Threads, Holding,
        ScanPoints, MainPoints, Updating, device, flags, settings, Go, Back,
        Fault, Acquire, Release
<1>1. CASE Ask(t)
  BY <1>1 DEF Ask
<1>2. CASE Lock(t)
  BY <1>2 DEF Lock
<1>3. CASE Query(t)
  BY <1>3 DEF Query
<1>4. CASE QueryNull(t)
  BY <1>4, DereferenceInv DEF QueryNull
<1>5. CASE Answered(t)
  BY <1>5 DEF Answered
<1>6. CASE Failed(t)
  BY <1>6 DEF Failed
<1>7. CASE Ignored(t)
  BY <1>7 DEF Ignored
<1>8. QED
  BY <1>1, <1>2, <1>3, <1>4, <1>5, <1>6, <1>7 DEF UpdateStatus

LEMMA ScanInv == IInv /\ ScanThread => IInv'
<1> USE UrgNodeAssumption
    DEF IInv, DataTyped, ErrorsInv, MutexInv, OvertakenInv, Threads, Holding,
        ScanPoints, MainPoints, Updating, device, flags, settings, Go, Limits,
        Fault, Acquire, Release, Reset
<1> SUFFICES ASSUME IInv, ScanThread PROVE IInv'
  OBVIOUS
<1>1. CASE Top
  BY <1>1 DEF Top, close_scan
<1>2. CASE Connect \/ Connected \/ Refused
  BY <1>2 DEF Connect, Connected, Refused
<1>3. CASE Calibrate \/ Calibrated
  BY <1>3 DEF Calibrate, Calibrated
<1>4. CASE CalibrationFails
  <2>1. faults' \in 0..MaxFaults
    BY <1>4 DEF CalibrationFails
  <2>2. /\ Release /\ Go("scan", "clears") /\ pc["scan"] = "calibrating"
        /\ UNCHANGED <<conn, yield, overtaken, errors>>
    BY <1>4 DEF CalibrationFails
  <2>3. QED
    BY <2>1, <2>2
<1>5. CASE ResetServer \/ SpinOnce \/ MakeServer
  BY <1>5 DEF ResetServer, SpinOnce, MakeServer
<1>6. CASE Start \/ StartFails
  BY <1>6 DEF Start, StartFails
<1>7. CASE LeaveLoop \/ Limit
  BY <1>7 DEF LeaveLoop, Limit, GiveUp
<1>8. CASE Grab
  <2>1. DataTyped'
    BY <1>8 DEF Grab, ServiceWaits
  <2>2. OvertakenInv'
    BY <1>8 DEF Grab, ServiceWaits
  <2>3. QED
    BY <1>8, <2>1, <2>2 DEF Grab
<1>9. CASE Grabbed
  BY <1>9 DEF Grabbed, AfterGrab
<1>10. CASE GrabFails
  BY <1>10 DEF GrabFails, AfterGrab
<1>11. CASE EndPause
  \* A free mutex lets the waiting service in first, a held one is its own.
  <2>1. ~(pc["main"] = "locks" /\ mutex \in {"main", "scan"})
    BY <1>11 DEF EndPause
  <2>2. pc["main"] # "locks"
    BY <1>11, <2>1 DEF EndPause
  <2>3. QED
    BY <1>11, <2>2 DEF EndPause
<1>12. CASE ClearYield
  BY <1>12 DEF ClearYield
<1>13. QED
  BY <1>1, <1>2, <1>3, <1>4, <1>5, <1>6, <1>7, <1>8, <1>9, <1>10, <1>11, <1>12 DEF ScanThread

LEMMA MainInv == IInv /\ (MainThread \/ Service \/ Reconfigure) => IInv'
<1> USE UrgNodeAssumption
    DEF IInv, DataTyped, ErrorsInv, MutexInv, OvertakenInv, Threads, Holding,
        ScanPoints, MainPoints, Updating, device, flags, settings, Go, Fault
<1> SUFFICES ASSUME IInv, MainThread \/ Service \/ Reconfigure PROVE IInv'
  OBVIOUS
<1>1. CASE Service \/ Reconfigure
  BY <1>1 DEF Service, Reconfigure
<1>2. CASE StopScan \/ RestartScan \/ RestartFails
  BY <1>2 DEF StopScan, RestartScan, RestartFails
<1>3. CASE UseNull
  BY <1>3, DereferenceInv DEF UseNull
<1>4. CASE Fatal \/ SpinEnds \/ Close \/ Join
  BY <1>4 DEF Fatal, SpinEnds, Close, Join
<1>5. QED
  BY <1>1, <1>2, <1>3, <1>4 DEF MainThread

\* The diagnostics thread and the environment touch nothing of the hand-over.
LEMMA OthersInv ==
  IInv /\ (Diagnose \/ Diagnostics \/ LinkLost \/ Shutdown) => IInv'
<1> USE UrgNodeAssumption
    DEF IInv, DataTyped, ErrorsInv, MutexInv, OvertakenInv, Threads,
        device, flags, settings, Fault
<1> SUFFICES ASSUME IInv, Diagnose \/ Diagnostics \/ LinkLost \/ Shutdown PROVE IInv'
  OBVIOUS
<1>1. CASE Diagnose \/ Diagnosed
  BY <1>1 DEF Diagnose, Diagnosed
<1>2. CASE DiagnoseNull
  BY <1>2, DereferenceInv DEF DiagnoseNull
<1>3. CASE LinkLost \/ Shutdown
  BY <1>3 DEF LinkLost, Shutdown
<1>4. QED
  BY <1>1, <1>2, <1>3 DEF Diagnostics

LEMMA StepInv == IInv /\ [Next]_vars => IInv'
<1>1. CASE UNCHANGED vars
  BY <1>1 DEF vars, device, flags, settings, IInv, DataTyped, ErrorsInv, MutexInv, OvertakenInv
<1>2. ASSUME IInv, Next PROVE IInv'
  BY <1>2, UpdateInv, ScanInv, MainInv, OthersInv DEF Next
<1>3. QED
  BY <1>1, <1>2

LEMMA IInvAlways == Spec => [](FlagsTyped /\ IInv)
BY FlagsInit, FlagsStep, InitInv, StepInv, PTL DEF Spec

\* The node keeps its types for every error limit, whatever fails: error_count_
\* never runs past the limit by more than one.
THEOREM TypeCorrect == Spec => []TypeOK
<1>1. FlagsTyped /\ IInv => TypeOK
  BY DEF IInv, TypeOK
<1>2. QED
  BY <1>1, IInvAlways, PTL

\* A service that waits with service_yield_ up is overtaken by one scan at most,
\* however the threads interleave.
THEOREM OvertakenOnceAlways == Spec => []OvertakenOnce
<1>1. IInv => OvertakenOnce
  BY DEF IInv, DataTyped, OvertakenInv, OvertakenOnce, ServiceWaits
<1>2. QED
  BY <1>1, IInvAlways, PTL
================================================================================
