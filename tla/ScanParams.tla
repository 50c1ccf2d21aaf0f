------------------------------ MODULE ScanParams ------------------------------
(***************************************************************************)
(* The field of view of a scan (uam/scan_params.h) and the two places of   *)
(* the ROS node that index by it: scanCallback, which applies new limits   *)
(* between two scans, and publishPointsInArea with its lookup table.       *)
(*                                                                         *)
(* An angle is a number of Parts-ths of a measurement step, 0 ahead; a     *)
(* step is an index of the reply's ranges, FrontStep ahead.                *)
(***************************************************************************)
EXTENDS Integers

CONSTANTS
  FirstLimit, LastLimit, FrontStep,  \* of the reply to the PP command
  Parts,    \* parts of a step that the angles distinguish
  Angles,   \* the angles that a user asks for
  Ranges    \* number of ranges in a scan

ASSUME StepsAssumption ==
  /\ FirstLimit \in Nat /\ LastLimit \in Nat /\ FrontStep \in Nat /\ Ranges \in Nat
  /\ FirstLimit < LastLimit /\ LastLimit < Ranges
ASSUME AnglesAssumption == Parts \in Nat \ {0} /\ Angles \subseteq Int

VARIABLES
  first, last,  \* first_step, last_step
  asked,        \* the limits that were asked for last
  lut           \* entries of the static lookup table, 0 before it is built

vars == <<first, last, asked, lut>>

Request == [min : Int, max : Int]

----------------------------------------------------------------------------
(* The algorithm *)

\* Mutant: the index is not clamped at the end.
ClampedBelow(step) == IF step < FirstLimit THEN FirstLimit ELSE step

Clamped(step) ==
  IF step > LastLimit THEN LastLimit ELSE IF step < FirstLimit THEN FirstLimit ELSE step

Floor(angle)   == angle \div Parts
Ceiling(angle) == -((-angle) \div Parts)

\* Mutant: the index is cut off towards the front.
TowardsFront(angle) == IF angle < 0 THEN Ceiling(angle) ELSE Floor(angle)

AwayFromFront(angle) == IF angle < 0 THEN Floor(angle) ELSE Ceiling(angle)

angle2step(angle) == Clamped(AwayFromFront(angle) + FrontStep)
step2angle(step)  == (step - FrontStep) * Parts

\* Mutant: the limits are taken in the order in which they were asked for.
AsOrdered(a, b) == <<a, b>>

\* Two steps at least, the smaller one first.
Ordered(a, b) ==
  IF a = b THEN IF a = FirstLimit THEN <<a, b + 1>> ELSE <<a - 1, b>>
  ELSE IF b < a THEN <<b, a>> ELSE <<a, b>>

setAngleLimits(min, max) ==
  LET steps == Ordered(angle2step(min), angle2step(max)) IN
    first' = steps[1] /\ last' = steps[2]

----------------------------------------------------------------------------
(* The state *)

TypeOK ==
  /\ first \in Int /\ last \in Int
  /\ asked \in Request
  /\ lut \in Nat

\* fromMessage(): the whole range of the sensor.
Init ==
  /\ first = FirstLimit /\ last = LastLimit
  /\ asked = [min |-> step2angle(FirstLimit), max |-> step2angle(LastLimit)]
  /\ lut = 0

Reconfigure(min, max) ==
  /\ setAngleLimits(min, max)
  /\ asked' = [min |-> min, max |-> max]
  /\ UNCHANGED lut

\* The table is built once, at the first scan that is published.
PublishScan ==
  /\ lut = 0 /\ lut' = last - first + 1
  /\ UNCHANGED <<first, last, asked>>

Next == PublishScan \/ \E min, max \in Angles : Reconfigure(min, max)

Spec == Init /\ [][Next]_vars

----------------------------------------------------------------------------
(* Properties *)

\* Every field of view is a part of the sensor's range with two readings at
\* least, for any pair of angles, reversed, equal or out of range: scanCallback
\* copies last - first + 1 readings that all exist.
FieldWithinLimits == FirstLimit <= first /\ first < last /\ last <= LastLimit

\* A field that was asked for around the front is covered, as far as the
\* sensor sees: rounding never cuts off a reading at either end.
RequestIsCovered ==
  asked.min <= 0 /\ asked.max >= 0 =>
    /\ step2angle(first) <= asked.min \/ first = FirstLimit
    /\ step2angle(last) >= asked.max \/ last = LastLimit

\* publishPointsInArea(): "Pair of scan index and respective range": the lookup
\* table has an entry for the index of every range of a scan, since the points
\* of the safety area are looked for in the whole scan.
LookupCoversScan == lut # 0 => lut >= Ranges

=============================================================================
