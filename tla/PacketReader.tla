----------------------------- MODULE PacketReader -----------------------------
(***************************************************************************)
(* What the TcpClient promises of its binary reader: ONE sequential loop   *)
(* that belongs to a session.  It is started in a session, waits for a     *)
(* packet, hands it over, waits again, and ends after the session; the     *)
(* next session cannot begin before the loop of the last one has ended.    *)
(***************************************************************************)
VARIABLES
  session,  \* the client is connected
  reader    \* "stopped", "waiting" for a packet, or "handling" one

vars == <<session, reader>>

Init == session = FALSE /\ reader = "stopped"

Open    == ~session /\ reader = "stopped" /\ session' = TRUE /\ UNCHANGED reader
Close   == session /\ session' = FALSE /\ UNCHANGED reader
Start   == session /\ reader = "stopped" /\ reader' = "waiting" /\ UNCHANGED session
Deliver == reader = "waiting" /\ reader' = "handling" /\ UNCHANGED session
Resume  == reader = "handling" /\ reader' = "waiting" /\ UNCHANGED session
End     == ~session /\ reader = "waiting" /\ reader' = "stopped" /\ UNCHANGED session

Next == Open \/ Close \/ Start \/ Deliver \/ Resume \/ End

Spec == Init /\ [][Next]_vars

\* The loop of a closed session ends.
FairSpec == Spec /\ WF_vars(Resume) /\ WF_vars(End)
=============================================================================
