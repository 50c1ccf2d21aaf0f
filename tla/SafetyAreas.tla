------------------------------ MODULE SafetyAreas ------------------------------
(***************************************************************************)
(* The safety areas of the UAM lidar in the ROS node: readSafetyAreas()    *)
(* asks for each of them with a YR command while the node is configured,   *)
(* updateStatus() publishes those of the area number that the sensor       *)
(* reports, scanCallback() holds a scan against one of them.               *)
(*                                                                         *)
(* The sensor counts its areas from 0 and the node from 1.  A reply of     *)
(* YRWorker is decoded whatever its size and status, out of a buffer that  *)
(* every packet shares: when the sensor refuses, the ranges are those that *)
(* the buffer holds from the reply before.                                 *)
(***************************************************************************)
EXTENDS Integers

CONSTANTS
  LastNumber,  \* c_max_safety_area_index
  LastType,    \* the last EYRAreaType
  Reference    \* params_.reference_safety_area

ASSUME AreasAssumption ==
  LastNumber \in Nat \ {0} /\ LastType \in Nat /\ Reference \in 0..LastType

Numbers == 1..LastNumber
Types   == 0..LastType
Indices == 0..(LastNumber - 1)

VARIABLES
  sensor,        \* the areas that the sensor has, by index and type
  selected,      \* the index of the area that its inputs select
  buffer,        \* whose ranges receive_buffer_ holds
  step,          \* of configure(), and "streaming" after it
  next,          \* the area that readSafetyAreas() asks for
  cached_areas,  \* what it has read, by number and type
  safety_areas,
  reported,      \* last_received_status_.area_number, 0 before the first
  topics,        \* the message latched on the topic of each type
  points         \* the scan behind the last points in an area, and the area

areaVars == <<sensor, selected, buffer, step, next, cached_areas, safety_areas,
              reported, topics, points>>

\* What is no area is written as a pair as well.
None     == <<-1, 0>>   \* no such entry in a map, no message on a topic
Other    == <<-1, 1>>   \* ranges that are of no area
NoScan   == -1
Contents == (Indices \X Types) \cup {Other}
NoAreas  == [area \in Numbers \X Types |-> None]

----------------------------------------------------------------------------
\* Mutant: the number is sent as it is.
IndexUnadjusted(number) == number

\* getSafetyArea(): adjusted_area_number.
Index(number) == IF number = 0 THEN number ELSE number - 1

\* decodeSensingData(): "sensing_data.area_number += 1".
Number(index) == index + 1

\* The loop over the numbers, and over the types of each.
First          == <<1, 0>>
Following(area) ==
  IF area[2] < LastType THEN <<area[1], area[2] + 1>> ELSE <<area[1] + 1, 0>>

----------------------------------------------------------------------------
TypeOKAreas ==
  /\ sensor \subseteq Indices \X Types /\ selected \in Indices
  /\ buffer \in Contents
  /\ step \in {"idle", "reading", "status", "streaming"}
  /\ next \in (1..(LastNumber + 1)) \X Types
  /\ cached_areas \in [Numbers \X Types -> Contents \cup {None}]
  /\ safety_areas \in [Numbers \X Types -> Contents \cup {None}]
  /\ reported \in Numbers \cup {0}
  /\ topics \in [Types -> Contents \cup {None}]
  /\ points \in [scan : Indices \cup {NoScan}, area : Contents \cup {None}]

AreasInit ==
  /\ sensor \in SUBSET (Indices \X Types) /\ selected \in Indices
  /\ buffer = Other /\ step = "idle" /\ next = First
  /\ cached_areas = NoAreas /\ safety_areas = NoAreas
  /\ reported = 0 /\ topics = [type \in Types |-> None]
  /\ points = [scan |-> NoScan, area |-> None]

\* configure() up to readSafetyAreas(), which returns when it has read them.
ConfigureAreas ==
  /\ step = "idle"
  /\ step' = IF safety_areas = NoAreas THEN "reading" ELSE "status"
  /\ next' = First /\ cached_areas' = NoAreas /\ buffer' = Other
  /\ UNCHANGED <<sensor, selected, safety_areas, reported, topics, points>>

\* The reply to YR: the sensor refuses an area that it does not have, and
\* YRWorker::process decodes what the buffer holds.
AreaDecoded(area) ==
  IF <<Index(area[1]), area[2]>> \in sensor THEN <<Index(area[1]), area[2]>> ELSE buffer

ReadArea ==
  /\ step = "reading" /\ next[1] \in Numbers
  /\ buffer' = AreaDecoded(next)
  /\ cached_areas' = [cached_areas EXCEPT ![next] = buffer']
  /\ next' = Following(next)
  /\ UNCHANGED <<sensor, selected, step, safety_areas, reported, topics, points>>

\* "We got the complete list of areas, swap".
SwapSafetyAreas ==
  /\ step = "reading" /\ next[1] \notin Numbers
  /\ safety_areas' = cached_areas /\ step' = "status"
  /\ UNCHANGED <<sensor, selected, buffer, next, cached_areas, reported, topics, points>>

\* Mutant: what was read until then is kept.
ConfigureFailsHalfway ==
  /\ step \in {"reading", "status"} /\ step' = "idle"
  /\ safety_areas' = IF step = "reading" THEN cached_areas ELSE safety_areas
  /\ UNCHANGED <<sensor, selected, buffer, next, cached_areas, reported, topics, points>>

\* A command expires or the link is lost.
ConfigureFails ==
  /\ step \in {"reading", "status"} /\ step' = "idle"
  /\ UNCHANGED <<sensor, selected, buffer, next, cached_areas, safety_areas, reported,
                 topics, points>>

----------------------------------------------------------------------------
\* publishSafetyArea(): of every type that the map has.
PublishAreas(number) ==
  topics' = [type \in Types |->
               IF number \in Numbers /\ safety_areas[<<number, type>>] # None
               THEN safety_areas[<<number, type>>] ELSE topics[type]]

\* Mutant: a status of another area is published without its areas.
UpdateNumberOnly(number, publish) == reported' = number /\ UNCHANGED topics

\* updateStatus(): on a request, or when the status has changed.
UpdateNumber(number, publish) ==
  IF publish \/ number # reported
  THEN reported' = number /\ PublishAreas(number)
  ELSE UNCHANGED <<reported, topics>>

\* configure() from getSensorStatus() to startStreaming().
AreasConfigured ==
  /\ step = "status" /\ step' = "streaming" /\ buffer' = Other
  /\ UpdateNumber(Number(selected), TRUE)
  /\ UNCHANGED <<sensor, selected, next, cached_areas, safety_areas, points>>

\* scanCallback(): a scan that is locked out or has no reading is not looked
\* at, and the points that were published last stay.  A scan among the startup
\* data returns before all of this.
ScanInArea ==
  /\ step = "streaming" /\ buffer' = Other
  /\ \E requested \in BOOLEAN : UpdateNumber(Number(selected), requested)
  /\ \/ UNCHANGED points
     \/ points' = [scan |-> selected, area |-> safety_areas[<<Number(selected), Reference>>]]
  /\ UNCHANGED <<sensor, selected, step, next, cached_areas, safety_areas>>

StreamLost ==
  /\ step = "streaming" /\ step' = "idle"
  /\ UNCHANGED <<sensor, selected, buffer, next, cached_areas, safety_areas, reported,
                 topics, points>>

SelectArea(index) ==
  /\ selected' = index
  /\ UNCHANGED <<sensor, buffer, step, next, cached_areas, safety_areas, reported,
                 topics, points>>

AreasNext ==
  \/ ConfigureAreas \/ ReadArea \/ SwapSafetyAreas \/ ConfigureFails
  \/ AreasConfigured \/ ScanInArea \/ StreamLost
  \/ \E index \in Indices : SelectArea(index)

AreasSpec == AreasInit /\ [][AreasNext]_areaVars

----------------------------------------------------------------------------
(* Properties *)

\* Through retries that fail at any area, the cache is either empty or whole,
\* and every area that the sensor has is in it as itself: neither a refusal
\* nor a reading that was given up shifts one area to the place of another.
AreasAreTheSensors ==
  safety_areas = NoAreas
    \/ \A number \in Numbers, type \in Types :
         /\ safety_areas[<<number, type>>] # None
         /\ <<number - 1, type>> \in sensor =>
              safety_areas[<<number, type>>] = <<number - 1, type>>

\* The nine latched topics show the areas of one number, the one of the last
\* status that was published.
TopicsShowReported ==
  step = "streaming" =>
    \A type \in Types : topics[type] = safety_areas[<<reported, type>>]

\* A scan is held against the area that the sensor itself applied to it.
PointsAreOfAppliedArea ==
  points.scan # NoScan /\ <<points.scan, Reference>> \in sensor =>
    points.area = <<points.scan, Reference>>

=============================================================================
