------------------------ MODULE SafetyConfigurationId ------------------------
(***************************************************************************)
(* The command line tool uam_get_safety_configuration_id.cpp: it connects, *)
(* asks for the version, the configuration id and every safety area, and   *)
(* destroys its UamDriver.  An older lidar has no configuration id, so the *)
(* tool swallows that failure and carries on with the same connection.     *)
(***************************************************************************)
EXTENDS Naturals, Sequences

CONSTANTS
  Areas,   \* safety areas read: 32 numbers of 9 types in the code
  MaxAsked, MaxWire, MaxQueue, Settle

Queries   == {"VR00", "ID00", "YR"}
Streaming == "AR02"   \* the tool never streams

VARIABLES connected, stopped, caller, dial, open, link, wire, reads, queue, io
VARIABLES step, command, then, ready, reply, mode, ticket, asked, stream

Drv == INSTANCE UamDriver

VARIABLES
  pc,      \* main(): how far the thread is
  area,    \* safety areas read
  crcs     \* combined_crcs: the kinds of the packets it takes a CRC from

client == <<connected, stopped, caller, dial, open, link, wire, reads, queue, io>>
driver == <<client, step, command, then, ready, reply, mode, ticket, asked, stream>>
main   == <<pc, area, crcs>>
vars   == <<driver, main>>

Init == Drv!Init /\ pc = "connect" /\ area = 0 /\ crcs = {}

----------------------------------------------------------------------------
Connect == pc = "connect" /\ Drv!Connect /\ pc' = "connecting" /\ UNCHANGED <<area, crcs>>

Connecting ==
  /\ pc = "connecting"
  /\ \/ Drv!Connecting /\ UNCHANGED main
     \/ Drv!Disconnecting /\ UNCHANGED main
     \/ /\ caller = "idle" /\ UNCHANGED <<driver, area, crcs>>
        /\ pc' = IF connected THEN "version" ELSE "destroy"

Start ==
  /\ \/ pc = "version" /\ Drv!GetVersionDetails
     \/ pc = "id" /\ Drv!GetConfigurationId
     \/ pc = "areas" /\ Drv!GetSafetyArea
  /\ UNCHANGED main

Proceed ==
  /\ Drv!StartingReader \/ Drv!Prepare \/ Drv!Send \/ Drv!SendFails \/ Drv!Expire
  /\ UNCHANGED main

Return ==
  /\ Drv!Return
  /\ \/ pc = "version" /\ pc' = "id" /\ UNCHANGED <<area, crcs>>
     \/ pc = "id" /\ pc' = "areas" /\ UNCHANGED <<area, crcs>>
     \/ /\ pc = "areas" /\ area' = area + 1 /\ crcs' = crcs \cup {reply.name}
        /\ pc' = IF area' = Areas THEN "destroy" ELSE "areas"

\* getConfigurationId() of the tool: catch (...) { return ""; }
SwallowFailure ==
  /\ pc = "id" /\ step = "threw"
  /\ step' = "none" /\ command' = "none" /\ then' = "none" /\ pc' = "areas"
  /\ UNCHANGED <<client, ready, reply, mode, ticket, asked, stream, area, crcs>>

\* Any other failure unwinds main(), and the driver with it.
Unwind ==
  /\ pc \in {"version", "areas"} /\ step = "threw"
  /\ Drv!Disconnect /\ pc' = "destroy"
  /\ UNCHANGED <<area, crcs>>

\* ~UamDriver(): disconnect, and join the io thread, which ends when the
\* io_service has nothing left to do.
Destroy ==
  /\ pc = "destroy"
  /\ \/ Drv!Disconnect /\ UNCHANGED main
     \/ Drv!Disconnecting /\ UNCHANGED main
     \/ caller = "idle" /\ ~connected /\ pc' = "join" /\ UNCHANGED <<driver, area, crcs>>

Join ==
  /\ pc = "join"
  /\ queue = <<>> /\ reads = <<>> /\ io.at = "idle" /\ link # "syn"
  /\ pc' = "end" /\ UNCHANGED <<driver, area, crcs>>

----------------------------------------------------------------------------
Main ==
  \/ Connect \/ Connecting \/ Start \/ Proceed \/ Return
  \/ SwallowFailure \/ Unwind \/ Destroy \/ Join

IoThread == (Drv!IoThread) /\ UNCHANGED main

Environment ==
  /\ \/ Drv!Answer \/ Drv!Refuse \/ Drv!Ignore
     \/ \E ok \in BOOLEAN : Drv!Established(ok)
     \/ Drv!PeerDrops \/ Drv!ReadCompletes \/ Drv!ReadFails
  /\ UNCHANGED main

Next == Main \/ IoThread \/ Environment

Spec == Init /\ [][Next]_vars

\* A thread that can run runs, and a wait that has expired ends; the lidar
\* owes nothing.
FairSpec == Spec /\ WF_vars(Main) /\ WF_vars(IoThread)

----------------------------------------------------------------------------
(* Properties *)

\* The tool ends whatever the lidar does: every command is answered or times
\* out, and the destructor's join does not wait for a reader that lives on.
ToolEnds == <>(pc = "end")

\* "@return YRCommandReply if safety area was successfully decoded": every CRC
\* that enters safety_areas_crc32 comes from the reply of a safety area.
CrcsOfSafetyAreas == crcs \subseteq {"YR"}

=============================================================================
