----------------------------- MODULE MCAlgorithms -----------------------------
(* The components that nothing else of the project is composed with, each    *)
(* explored by itself: a behaviour takes the steps of one of them while the  *)
(* others stay at one of their initial states.                               *)
EXTENDS ScanParams, PacketStream, SynchronizedTime, SafetyAreas, ScipLine

VARIABLE part   \* the component whose steps are taken

MCAngles   == -11..11
MCForeign  == 12..21

AlgorithmsInit ==
  /\ part \in {"params", "stream", "clock", "areas", "text"}
  /\ Init /\ StreamInit /\ ClockInit /\ AreasInit /\ TextInit
  /\ part # "stream" => stream = "AR02"
  /\ part # "clock" => age = 0
  /\ part # "areas" => sensor = {} /\ selected = 0

AlgorithmsNext ==
  /\ UNCHANGED part
  /\ \/ part = "params" /\ Next /\ UNCHANGED <<streamVars, clockVars, areaVars, textVars>>
     \/ part = "stream" /\ StreamNext /\ UNCHANGED <<vars, clockVars, areaVars, textVars>>
     \/ part = "clock" /\ ClockNext /\ UNCHANGED <<vars, streamVars, areaVars, textVars>>
     \/ part = "areas" /\ AreasNext /\ UNCHANGED <<vars, streamVars, clockVars, textVars>>
     \/ part = "text" /\ TextNext /\ UNCHANGED <<vars, streamVars, clockVars, areaVars>>

AlgorithmsSpec ==
  AlgorithmsInit /\ [][AlgorithmsNext]_<<part, vars, streamVars, clockVars, areaVars, textVars>>

\* Every component keeps its types.
TypeOKParts == TypeOK /\ TypeOKStream /\ TypeOKClock /\ TypeOKAreas /\ TypeOKText
=============================================================================
