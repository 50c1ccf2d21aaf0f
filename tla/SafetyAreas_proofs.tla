--------------------------- MODULE SafetyAreas_proofs ---------------------------
(***************************************************************************)
(* The safety areas of the node, for any sensor, any number of areas and   *)
(* any of them as the reference.                                           *)
(*                                                                         *)
(* The cache is whole because it is read whole: while readSafetyAreas() is *)
(* in its loops, every area that they have passed is read and right        *)
(* (ReadSoFar), and the list is swapped in when they have passed all.      *)
(***************************************************************************)
EXTENDS SafetyAreas, TLAPS

Areas == Numbers \X Types

\* The loops come to one area before another.
Before(area, other) ==
  area[1] < other[1] \/ (area[1] = other[1] /\ area[2] < other[2])

\* What a list has read for an area: ranges, and its own where it has some.
RightIn(list, area) ==
  /\ list[area] # None
  /\ <<area[1] - 1, area[2]>> \in sensor => list[area] = <<area[1] - 1, area[2]>>

ReadSoFar ==
  step = "reading" =>
    \A area \in Areas : Before(area, next) => RightIn(cached_areas, area)

\* The node has its areas whenever it is past readSafetyAreas().
WholeOnceRead ==
  step \in {"status", "streaming"} => \A area \in Areas : RightIn(safety_areas, area)

\* While scans arrive the status of one area has been published.
StatusReported == step = "streaming" => reported \in Numbers

AreasInv ==
  /\ TypeOKAreas
  /\ ReadSoFar /\ WholeOnceRead /\ StatusReported
  /\ AreasAreTheSensors /\ TopicsShowReported /\ PointsAreOfAppliedArea

----------------------------------------------------------------------------
(* What the entries of a list are *)

\* No ranges can be taken for a missing entry.
LEMMA NoneIsNoContent == None \notin Contents
BY AreasAssumption DEF None, Contents, Other, Indices, Types

\* What getSafetyArea() asks for is the area of that number, by its index.
LEMMA IndexOfNumber ==
  ASSUME NEW number \in Numbers
  PROVE  Index(number) = number - 1 /\ Index(number) \in Indices
BY AreasAssumption DEF Numbers, Index, Indices

\* What the buffer decodes to is ranges, and the area's own if it has some.
LEMMA DecodedRight ==
  ASSUME TypeOKAreas, NEW area \in Areas
  PROVE  /\ AreaDecoded(area) \in Contents
         /\ <<area[1] - 1, area[2]>> \in sensor => AreaDecoded(area) = <<area[1] - 1, area[2]>>
<1>1. Index(area[1]) = area[1] - 1 /\ Index(area[1]) \in Indices
  BY IndexOfNumber DEF Areas
<1>2. <<Index(area[1]), area[2]>> \in Indices \X Types
  BY <1>1 DEF Areas
<1>3. buffer \in Contents
  BY DEF TypeOKAreas
<1>4. AreaDecoded(area) =
        IF <<area[1] - 1, area[2]>> \in sensor THEN <<area[1] - 1, area[2]>> ELSE buffer
  BY <1>1, Zenon DEF AreaDecoded
<1> QED BY <1>1, <1>2, <1>3, <1>4 DEF Contents

\* The loops pass every area: what is before the one that follows another is
\* before that one, or is that one.
LEMMA FollowingTyped ==
  ASSUME NEW area \in Areas
  PROVE  Following(area) \in (1..(LastNumber + 1)) \X Types
BY AreasAssumption DEF Areas, Numbers, Types, Following

LEMMA BeforeFollowing ==
  ASSUME NEW area \in Areas, NEW other \in Areas, Before(other, Following(area))
  PROVE  Before(other, area) \/ other = area
<1>1. /\ area[1] \in Numbers /\ area[2] \in Types /\ other[1] \in Numbers /\ other[2] \in Types
      /\ area = <<area[1], area[2]>> /\ other = <<other[1], other[2]>>
  BY DEF Areas
<1>2. CASE area[2] < LastType
  <2>1. Following(area)[1] = area[1] /\ Following(area)[2] = area[2] + 1
    BY <1>2 DEF Following
  <2> QED BY <1>1, <2>1 DEF Before, Numbers, Types
<1>3. CASE ~(area[2] < LastType)
  <2>1. Following(area)[1] = area[1] + 1 /\ Following(area)[2] = 0
    BY <1>3 DEF Following
  <2>2. area[2] = LastType
    BY <1>1, <1>3, AreasAssumption DEF Types
  <2> QED BY <1>1, <2>1, <2>2, AreasAssumption DEF Before, Numbers, Types
<1> QED BY <1>2, <1>3

LEMMA NothingBeforeFirst ==
  ASSUME NEW area \in Areas
  PROVE  ~Before(area, First)
BY AreasAssumption DEF Areas, Numbers, Types, Before, First

LEMMA AllBeforeEnd ==
  ASSUME NEW area \in Areas, NEW end \in (1..(LastNumber + 1)) \X Types, end[1] \notin Numbers
  PROVE  Before(area, end)
BY AreasAssumption DEF Areas, Numbers, Types, Before

\* A whole list is not the empty one, and is what AreasAreTheSensors says.
LEMMA WholeIsTheSensors ==
  ASSUME NEW list, \A area \in Areas : RightIn(list, area)
  PROVE  /\ list # NoAreas
         /\ \A number \in Numbers, type \in Types :
              /\ list[<<number, type>>] # None
              /\ <<number - 1, type>> \in sensor =>
                   list[<<number, type>>] = <<number - 1, type>>
<1>1. <<1, 0>> \in Areas
  BY AreasAssumption DEF Areas, Numbers, Types
<1>2. list[<<1, 0>>] # None /\ NoAreas[<<1, 0>>] = None
  BY <1>1 DEF RightIn, NoAreas, Areas
<1>3. ASSUME NEW number \in Numbers, NEW type \in Types
      PROVE  RightIn(list, <<number, type>>)
  BY DEF Areas
<1> QED BY <1>2, <1>3 DEF RightIn

LEMMA TheSensorsIsWhole ==
  ASSUME AreasAreTheSensors, safety_areas # NoAreas
  PROVE  \A area \in Areas : RightIn(safety_areas, area)
<1> SUFFICES ASSUME NEW area \in Areas PROVE RightIn(safety_areas, area)
  OBVIOUS
<1>1. area[1] \in Numbers /\ area[2] \in Types /\ area = <<area[1], area[2]>>
  BY DEF Areas
<1> QED BY <1>1 DEF AreasAreTheSensors, RightIn

----------------------------------------------------------------------------
(* The invariant *)

LEMMA AreasInitially == AreasInit => AreasInv
<1> SUFFICES ASSUME AreasInit PROVE AreasInv
  OBVIOUS
<1>1. First \in (1..(LastNumber + 1)) \X Types
  BY AreasAssumption DEF First, Types
<1>2. NoAreas \in [Areas -> Contents \cup {None}]
  BY DEF NoAreas, Areas
<1>3. [type \in Types |-> None] \in [Types -> Contents \cup {None}]
  OBVIOUS
<1>4. [scan |-> NoScan, area |-> None]
        \in [scan : Indices \cup {NoScan}, area : Contents \cup {None}]
  OBVIOUS
<1>5. TypeOKAreas
  BY <1>1, <1>2, <1>3, <1>4 DEF AreasInit, TypeOKAreas, Contents, Areas
<1>6. ReadSoFar /\ WholeOnceRead /\ StatusReported /\ TopicsShowReported
  BY DEF AreasInit, ReadSoFar, WholeOnceRead, StatusReported, TopicsShowReported
<1>7. AreasAreTheSensors /\ PointsAreOfAppliedArea
  BY DEF AreasInit, AreasAreTheSensors, PointsAreOfAppliedArea
<1> QED BY <1>5, <1>6, <1>7 DEF AreasInv

LEMMA ConfigureKeepsInv ==
  ASSUME AreasInv, ConfigureAreas
  PROVE  AreasInv'
<1>1. /\ step' = IF safety_areas = NoAreas THEN "reading" ELSE "status"
      /\ next' = First /\ cached_areas' = NoAreas /\ buffer' = Other
      /\ UNCHANGED <<sensor, selected, safety_areas, reported, topics, points>>
  BY DEF ConfigureAreas
<1>2. First \in (1..(LastNumber + 1)) \X Types /\ NoAreas \in [Areas -> Contents \cup {None}]
  BY AreasAssumption DEF First, Types, NoAreas, Areas
<1>3. TypeOKAreas'
  BY <1>1, <1>2 DEF AreasInv, TypeOKAreas, Contents, Areas
<1>4. ReadSoFar'
  BY <1>1, NothingBeforeFirst DEF ReadSoFar
<1>5. WholeOnceRead'
  BY <1>1, TheSensorsIsWhole DEF AreasInv, WholeOnceRead, RightIn
<1> QED BY <1>1, <1>3, <1>4, <1>5
        DEF AreasInv, StatusReported, AreasAreTheSensors, TopicsShowReported,
            PointsAreOfAppliedArea

LEMMA ReadKeepsInv ==
  ASSUME AreasInv, ReadArea
  PROVE  AreasInv'
<1>1. /\ step = "reading" /\ next \in Areas
      /\ buffer' = AreaDecoded(next)
      /\ cached_areas' = [cached_areas EXCEPT ![next] = AreaDecoded(next)]
      /\ next' = Following(next)
      /\ UNCHANGED <<sensor, selected, step, safety_areas, reported, topics, points>>
  BY DEF ReadArea, AreasInv, TypeOKAreas, Areas
<1>2. TypeOKAreas /\ cached_areas \in [Areas -> Contents \cup {None}]
  BY DEF AreasInv, TypeOKAreas, Areas
<1>3. /\ AreaDecoded(next) \in Contents
      /\ <<next[1] - 1, next[2]>> \in sensor => AreaDecoded(next) = <<next[1] - 1, next[2]>>
  BY <1>1, <1>2, DecodedRight
<1>4. cached_areas' \in [Areas -> Contents \cup {None}]
  BY <1>1, <1>2, <1>3
<1>5. TypeOKAreas'
  BY <1>1, <1>2, <1>3, <1>4, FollowingTyped DEF TypeOKAreas, Areas
<1>6. ASSUME NEW area \in Areas, Before(area, next')
      PROVE  RightIn(cached_areas, area)'
  <2>1. CASE area = next
    <3>1. cached_areas'[area] = AreaDecoded(next)
      BY <1>1, <1>2, <2>1
    <3> QED BY <1>1, <1>3, <2>1, <3>1, NoneIsNoContent DEF RightIn
  <2>2. CASE area # next
    <3>1. Before(area, next)
      BY <1>1, <1>6, <2>2, BeforeFollowing
    <3>2. RightIn(cached_areas, area)
      BY <1>1, <3>1 DEF AreasInv, ReadSoFar
    <3>3. cached_areas'[area] = cached_areas[area]
      BY <1>1, <1>2, <2>2
    <3> QED BY <1>1, <3>2, <3>3 DEF RightIn
  <2> QED BY <2>1, <2>2
<1>7. ReadSoFar'
  BY <1>6 DEF ReadSoFar
<1> QED BY <1>1, <1>5, <1>7
        DEF AreasInv, WholeOnceRead, RightIn, StatusReported, AreasAreTheSensors,
            TopicsShowReported, PointsAreOfAppliedArea

LEMMA SwapKeepsInv ==
  ASSUME AreasInv, SwapSafetyAreas
  PROVE  AreasInv'
<1>1. /\ step = "reading" /\ next[1] \notin Numbers
      /\ safety_areas' = cached_areas /\ step' = "status"
      /\ UNCHANGED <<sensor, selected, buffer, next, cached_areas, reported, topics, points>>
  BY DEF SwapSafetyAreas
<1>2. TypeOKAreas /\ TypeOKAreas'
  BY <1>1 DEF AreasInv, TypeOKAreas
<1>3. ASSUME NEW area \in Areas
      PROVE  RightIn(cached_areas, area)
  BY <1>1, <1>2, AllBeforeEnd DEF AreasInv, TypeOKAreas, ReadSoFar
<1>4. AreasAreTheSensors'
  <2>1. \A number \in Numbers, type \in Types :
          /\ cached_areas[<<number, type>>] # None
          /\ <<number - 1, type>> \in sensor =>
               cached_areas[<<number, type>>] = <<number - 1, type>>
    BY <1>3, WholeIsTheSensors
  <2> QED BY <1>1, <2>1 DEF AreasAreTheSensors
<1>5. WholeOnceRead'
  BY <1>1, <1>3 DEF WholeOnceRead, RightIn
<1> QED BY <1>1, <1>2, <1>4, <1>5
        DEF AreasInv, ReadSoFar, StatusReported, TopicsShowReported, PointsAreOfAppliedArea

\* The steps that end a reading or a stream, and the inputs of the sensor.
LEMMA EndKeepsInv ==
  ASSUME AreasInv, ConfigureFails \/ StreamLost \/ \E index \in Indices : SelectArea(index)
  PROVE  AreasInv'
<1>1. /\ UNCHANGED <<sensor, buffer, next, cached_areas, safety_areas, reported, topics, points>>
      /\ selected' \in Indices /\ (step' = step \/ step' = "idle")
  BY DEF ConfigureFails, StreamLost, SelectArea, AreasInv, TypeOKAreas
<1>2. TypeOKAreas'
  BY <1>1 DEF AreasInv, TypeOKAreas
<1> QED BY <1>1, <1>2
        DEF AreasInv, ReadSoFar, WholeOnceRead, RightIn, StatusReported, AreasAreTheSensors,
            TopicsShowReported, PointsAreOfAppliedArea

\* A status that is published, or that has not changed, leaves the topics with
\* the areas of its number when the node has its areas.
LEMMA UpdateShows ==
  ASSUME TypeOKAreas, \A area \in Areas : RightIn(safety_areas, area),
         NEW number \in Numbers, NEW publish \in BOOLEAN, UpdateNumber(number, publish),
         UNCHANGED safety_areas,
         publish \/ \A type \in Types : topics[type] = safety_areas[<<reported, type>>]
  PROVE  /\ reported' = number
         /\ \A type \in Types : topics'[type] = safety_areas'[<<number, type>>]
         /\ topics' \in [Types -> Contents \cup {None}]
<1>1. CASE publish \/ number # reported
  <2>1. reported' = number /\ PublishAreas(number)
    BY <1>1 DEF UpdateNumber
  <2>2. ASSUME NEW type \in Types
        PROVE  /\ topics'[type] = safety_areas[<<number, type>>]
               /\ safety_areas[<<number, type>>] \in Contents \cup {None}
    <3>1. <<number, type>> \in Areas
      BY DEF Areas
    <3>2. safety_areas[<<number, type>>] # None
      BY <3>1 DEF RightIn
    <3> QED BY <2>1, <3>1, <3>2 DEF PublishAreas, TypeOKAreas, Areas
  <2>3. topics' = [type \in Types |-> topics'[type]]
    BY <2>1 DEF PublishAreas
  <2>4. topics' \in [Types -> Contents \cup {None}]
    BY <2>2, <2>3
  <2> QED BY <2>1, <2>2, <2>4
<1>2. CASE ~(publish \/ number # reported)
  <2>1. number = reported /\ UNCHANGED <<reported, topics>>
    BY <1>2, Zenon DEF UpdateNumber
  <2>2. ~publish
    BY <1>2, Zenon
  <2> QED BY <2>1, <2>2 DEF TypeOKAreas
<1> QED BY <1>1, <1>2

LEMMA NumberOfIndex ==
  ASSUME NEW index \in Indices
  PROVE  Number(index) \in Numbers /\ Number(index) - 1 = index
BY AreasAssumption DEF Indices, Number, Numbers

LEMMA ConfiguredKeepsInv ==
  ASSUME AreasInv, AreasConfigured
  PROVE  AreasInv'
<1>1. /\ step = "status" /\ step' = "streaming" /\ buffer' = Other
      /\ UpdateNumber(Number(selected), TRUE)
      /\ UNCHANGED <<sensor, selected, next, cached_areas, safety_areas, points>>
  BY DEF AreasConfigured
<1>2. TypeOKAreas /\ \A area \in Areas : RightIn(safety_areas, area)
  BY <1>1 DEF AreasInv, WholeOnceRead
<1>3. Number(selected) \in Numbers
  BY NumberOfIndex DEF AreasInv, TypeOKAreas
<1>4. /\ reported' = Number(selected)
      /\ \A type \in Types : topics'[type] = safety_areas'[<<Number(selected), type>>]
      /\ topics' \in [Types -> Contents \cup {None}]
  BY <1>1, <1>2, <1>3, UpdateShows
<1>5. TypeOKAreas'
  BY <1>1, <1>2, <1>3, <1>4 DEF TypeOKAreas, Contents
<1>6. TopicsShowReported' /\ StatusReported'
  BY <1>3, <1>4 DEF TopicsShowReported, StatusReported
<1>7. WholeOnceRead' /\ ReadSoFar'
  BY <1>1, <1>2 DEF WholeOnceRead, ReadSoFar, RightIn
<1> QED BY <1>1, <1>5, <1>6, <1>7 DEF AreasInv, AreasAreTheSensors, PointsAreOfAppliedArea

LEMMA ScanKeepsInv ==
  ASSUME AreasInv, ScanInArea
  PROVE  AreasInv'
<1> DEFINE number == Number(selected)
<1>1. /\ step = "streaming" /\ buffer' = Other
      /\ UNCHANGED <<sensor, selected, step, next, cached_areas, safety_areas>>
  BY DEF ScanInArea
<1>2. PICK requested \in BOOLEAN : UpdateNumber(number, requested)
  BY DEF ScanInArea
<1>3. TypeOKAreas /\ \A area \in Areas : RightIn(safety_areas, area)
  BY <1>1 DEF AreasInv, WholeOnceRead
<1>4. number \in Numbers /\ number - 1 = selected /\ selected \in Indices
  BY NumberOfIndex DEF AreasInv, TypeOKAreas
<1>5. \A type \in Types : topics[type] = safety_areas[<<reported, type>>]
  BY <1>1 DEF AreasInv, TopicsShowReported
<1> HIDE DEF number
<1>6. /\ reported' = number
      /\ \A type \in Types : topics'[type] = safety_areas'[<<number, type>>]
      /\ topics' \in [Types -> Contents \cup {None}]
  BY <1>1, <1>2, <1>3, <1>4, <1>5, UpdateShows
<1>7. <<number, Reference>> \in Areas
  BY <1>4, AreasAssumption DEF Areas, Types
<1>8. \/ UNCHANGED points
      \/ points' = [scan |-> selected, area |-> safety_areas[<<number, Reference>>]]
  BY DEF ScanInArea, number
<1>9. points' \in [scan : Indices \cup {NoScan}, area : Contents \cup {None}]
  BY <1>3, <1>4, <1>7, <1>8 DEF TypeOKAreas, Areas
<1>10. TypeOKAreas'
  BY <1>1, <1>3, <1>4, <1>6, <1>9 DEF TypeOKAreas, Contents
<1>11. PointsAreOfAppliedArea'
  <2>1. CASE UNCHANGED points
    BY <1>1, <2>1 DEF AreasInv, PointsAreOfAppliedArea
  <2>2. CASE points' = [scan |-> selected, area |-> safety_areas[<<number, Reference>>]]
    <3>1. RightIn(safety_areas, <<number, Reference>>)
      BY <1>3, <1>7
    <3>2. <<selected, Reference>> \in sensor =>
            safety_areas[<<number, Reference>>] = <<selected, Reference>>
      BY <1>4, <3>1 DEF RightIn
    <3> QED BY <1>1, <2>2, <3>2 DEF PointsAreOfAppliedArea
  <2> QED BY <1>8, <2>1, <2>2
<1>12. TopicsShowReported' /\ StatusReported'
  BY <1>4, <1>6 DEF TopicsShowReported, StatusReported
<1>13. WholeOnceRead' /\ ReadSoFar'
  BY <1>1, <1>3 DEF WholeOnceRead, ReadSoFar, RightIn
<1> QED BY <1>1, <1>10, <1>11, <1>12, <1>13 DEF AreasInv, AreasAreTheSensors

LEMMA AreasStep == AreasInv /\ [AreasNext]_areaVars => AreasInv'
<1> SUFFICES ASSUME AreasInv, [AreasNext]_areaVars PROVE AreasInv'
  OBVIOUS
<1>1. CASE UNCHANGED areaVars
  BY <1>1 DEF areaVars, AreasInv, TypeOKAreas, ReadSoFar, WholeOnceRead, RightIn,
     StatusReported, AreasAreTheSensors, TopicsShowReported, PointsAreOfAppliedArea
<1> QED BY <1>1, ConfigureKeepsInv, ReadKeepsInv, SwapKeepsInv, EndKeepsInv,
           ConfiguredKeepsInv, ScanKeepsInv DEF AreasNext

LEMMA AreasInvariant == AreasSpec => []AreasInv
<1> QED BY AreasInitially, AreasStep, PTL DEF AreasSpec

----------------------------------------------------------------------------
\* The node keeps its types for any sensor and any number of areas.
THEOREM AreasTyped == AreasSpec => []TypeOKAreas
<1>1. AreasInv => TypeOKAreas
  BY DEF AreasInv
<1> QED BY <1>1, AreasInvariant, PTL

\* readSafetyAreas() through any number of failed configurations: the cache is
\* empty or whole, with every area of the sensor at its own place.
THEOREM AreasAreAlwaysTheSensors == AreasSpec => []AreasAreTheSensors
<1>1. AreasInv => AreasAreTheSensors
  BY DEF AreasInv
<1> QED BY <1>1, AreasInvariant, PTL

\* publishSafetyArea() is called whenever the number changes, so the topics
\* always show the areas of one number.
THEOREM TopicsAlwaysShowReported == AreasSpec => []TopicsShowReported
<1>1. AreasInv => TopicsShowReported
  BY DEF AreasInv
<1> QED BY <1>1, AreasInvariant, PTL

\* scanCallback() holds a scan against the area that the sensor applied: the
\* two corrections of the number, by getSafetyArea() and by
\* decodeSensingData(), cancel out.
THEOREM PointsAlwaysOfAppliedArea == AreasSpec => []PointsAreOfAppliedArea
<1>1. AreasInv => PointsAreOfAppliedArea
  BY DEF AreasInv
<1> QED BY <1>1, AreasInvariant, PTL

=============================================================================
