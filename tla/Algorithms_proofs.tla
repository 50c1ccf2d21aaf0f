----------------------------- MODULE Algorithms_proofs -----------------------------
(***************************************************************************)
(* The components that nothing else is composed with: the field of view of *)
(* ScanParams, the stamps of SynchronizedTime and the text of ScipLine,    *)
(* and the specification that MCAlgorithms makes of all five.              *)
(***************************************************************************)
EXTENDS MCAlgorithms, SafetyAreas_proofs, PacketStream_proofs, SequenceTheorems, TLAPS

(***************************************************************************)
(* Rounding: an angle behind the front becomes the step below it, one      *)
(* ahead of the front the step above it.                                   *)
(***************************************************************************)
LEMMA FloorBelow ==
  ASSUME NEW angle \in Int
  PROVE  Floor(angle) \in Int /\ Floor(angle) * Parts <= angle
  BY AnglesAssumption DEF Floor

LEMMA CeilingAbove ==
  ASSUME NEW angle \in Int
  PROVE  Ceiling(angle) \in Int /\ Ceiling(angle) * Parts >= angle
<1>1. (-angle) \div Parts \in Int /\ ((-angle) \div Parts) * Parts <= -angle
  BY AnglesAssumption
<1>2. QED BY <1>1, AnglesAssumption DEF Ceiling

\* The step of an angle is one of the sensor's steps.
LEMMA StepWithinLimits ==
  ASSUME NEW angle \in Int
  PROVE  angle2step(angle) \in FirstLimit..LastLimit
<1>1. AwayFromFront(angle) \in Int
  BY FloorBelow, CeilingAbove DEF AwayFromFront
<1>2. QED BY <1>1, StepsAssumption DEF angle2step, Clamped

\* Whatever two steps come out of the rounding, the field has two readings.
LEMMA OrderedField ==
  ASSUME NEW a \in FirstLimit..LastLimit, NEW b \in FirstLimit..LastLimit
  PROVE  LET steps == Ordered(a, b) IN
           /\ steps[1] \in Int /\ steps[2] \in Int
           /\ FirstLimit <= steps[1] /\ steps[1] < steps[2] /\ steps[2] <= LastLimit
  BY StepsAssumption DEF Ordered

(***************************************************************************)
(* The invariant: the types of the steps and the limits that they keep.    *)
(***************************************************************************)
LEMMA Step ==
  ASSUME TypeOK, FieldWithinLimits, [Next]_vars
  PROVE  TypeOK' /\ FieldWithinLimits'
<1> USE DEF TypeOK, FieldWithinLimits
<1>1. CASE PublishScan
  BY <1>1 DEF PublishScan, Request
<1>2. ASSUME NEW min \in Angles, NEW max \in Angles, Reconfigure(min, max)
      PROVE  TypeOK' /\ FieldWithinLimits'
  <2>1. min \in Int /\ max \in Int
    BY AnglesAssumption
  <2>2. /\ angle2step(min) \in FirstLimit..LastLimit
        /\ angle2step(max) \in FirstLimit..LastLimit
    BY <2>1, StepWithinLimits
  <2>3. first' \in Int /\ last' \in Int /\ FieldWithinLimits'
    BY <1>2, <2>2, OrderedField DEF Reconfigure, setAngleLimits
  <2>4. asked' \in Request /\ lut' \in Nat
    BY <1>2, <2>1 DEF Reconfigure, Request
  <2>5. QED BY <2>3, <2>4
<1>3. CASE UNCHANGED vars
  BY <1>3 DEF vars
<1>4. QED BY <1>1, <1>2, <1>3 DEF Next

\* setAngleLimits() and fromMessage(): the variables keep their types, and the
\* lookup table of publishPointsInArea() never has a negative size.
THEOREM ParamsTyped == Spec => []TypeOK
<1>1. Init => TypeOK /\ FieldWithinLimits
  BY StepsAssumption, AnglesAssumption
  DEF Init, TypeOK, FieldWithinLimits, Request, step2angle
<1>2. TypeOK /\ FieldWithinLimits /\ [Next]_vars => TypeOK' /\ FieldWithinLimits'
  BY Step
<1>3. QED BY <1>1, <1>2, PTL DEF Spec

\* Every field of view that setAngleLimits() makes is a part of the sensor's
\* range with two readings at least.
THEOREM FieldAlwaysWithinLimits == Spec => []FieldWithinLimits
<1>1. Init => TypeOK /\ FieldWithinLimits
  BY StepsAssumption, AnglesAssumption
  DEF Init, TypeOK, FieldWithinLimits, Request, step2angle
<1>2. TypeOK /\ FieldWithinLimits /\ [Next]_vars => TypeOK' /\ FieldWithinLimits'
  BY Step
<1>3. QED BY <1>1, <1>2, PTL DEF Spec

(***************************************************************************)
(* The second result: a field around the front loses no reading that was   *)
(* asked for.  The invariant needs nothing but the last request.           *)
(***************************************************************************)
LEMMA Monotone ==
  ASSUME NEW x \in Int, NEW y \in Int, x <= y
  PROVE  x * Parts <= y * Parts
  BY AnglesAssumption

LEMMA StepIsMonotone ==
  ASSUME NEW x \in Int, NEW y \in Int, x <= y
  PROVE  step2angle(x) <= step2angle(y)
<1>1. x - FrontStep <= y - FrontStep /\ x - FrontStep \in Int /\ y - FrontStep \in Int
  BY StepsAssumption
<1>2. QED BY <1>1, Monotone DEF step2angle

LEMMA LowerEnd ==
  ASSUME NEW angle \in Int, angle <= 0
  PROVE  angle2step(angle) = FirstLimit \/ step2angle(angle2step(angle)) <= angle
<1> DEFINE index == AwayFromFront(angle) + FrontStep
<1>1. AwayFromFront(angle) \in Int /\ AwayFromFront(angle) * Parts <= angle
  <2>1. CASE angle < 0
    BY <2>1, FloorBelow DEF AwayFromFront
  <2>2. CASE angle = 0
    <3>1. Ceiling(0) = 0
      BY AnglesAssumption DEF Ceiling
    <3>2. QED BY <2>2, <3>1, AnglesAssumption DEF AwayFromFront
  <2>3. QED BY <2>1, <2>2
<1>2. index \in Int /\ step2angle(index) <= angle
  BY <1>1, StepsAssumption DEF step2angle
<1>3. angle2step(angle) = FirstLimit \/ angle2step(angle) <= index
  BY <1>2, StepsAssumption DEF angle2step, Clamped
<1>4. angle2step(angle) \in Int
  BY StepWithinLimits, StepsAssumption
<1>5. step2angle(angle2step(angle)) \in Int /\ step2angle(index) \in Int
  BY <1>2, <1>4, StepsAssumption, AnglesAssumption DEF step2angle
<1> HIDE DEF index
<1>6. CASE angle2step(angle) <= index
  BY <1>2, <1>4, <1>5, <1>6, StepIsMonotone
<1>7. QED BY <1>3, <1>6

LEMMA UpperEnd ==
  ASSUME NEW angle \in Int, angle >= 0
  PROVE  angle2step(angle) = LastLimit \/ step2angle(angle2step(angle)) >= angle
<1> DEFINE index == AwayFromFront(angle) + FrontStep
<1>1. AwayFromFront(angle) \in Int /\ AwayFromFront(angle) * Parts >= angle
  BY CeilingAbove DEF AwayFromFront
<1>2. index \in Int /\ step2angle(index) >= angle
  BY <1>1, StepsAssumption DEF step2angle
<1>3. angle2step(angle) = LastLimit \/ angle2step(angle) >= index
  BY <1>2, StepsAssumption DEF angle2step, Clamped
<1>4. angle2step(angle) \in Int
  BY StepWithinLimits, StepsAssumption
<1>5. step2angle(angle2step(angle)) \in Int /\ step2angle(index) \in Int
  BY <1>2, <1>4, StepsAssumption, AnglesAssumption DEF step2angle
<1> HIDE DEF index
<1>6. CASE angle2step(angle) >= index
  BY <1>2, <1>4, <1>5, <1>6, StepIsMonotone
<1>7. QED BY <1>3, <1>6

\* The two ends do not cross: rounding and clamping keep their order.
LEMMA EndsInOrder ==
  ASSUME NEW min \in Int, NEW max \in Int, min <= 0, max >= 0
  PROVE  angle2step(min) <= angle2step(max)
<1>1. Ceiling(0) = 0
  BY AnglesAssumption DEF Ceiling
<1>2. AwayFromFront(min) \in Int /\ AwayFromFront(min) <= 0
  BY <1>1, AnglesAssumption DEF AwayFromFront, Floor
<1>3. (-max) \div Parts \in Int /\ (-max) \div Parts <= 0
  BY AnglesAssumption
<1>4. AwayFromFront(max) \in Int /\ AwayFromFront(max) >= 0
  BY <1>3 DEF AwayFromFront, Ceiling
<1>5. QED BY <1>2, <1>4, StepsAssumption DEF angle2step, Clamped

LEMMA Covers ==
  ASSUME NEW min \in Angles, NEW max \in Angles, Reconfigure(min, max)
  PROVE  RequestIsCovered'
<1>1. min \in Int /\ max \in Int
  BY AnglesAssumption
<1>2. asked' = [min |-> min, max |-> max]
  BY DEF Reconfigure
<1>3. SUFFICES ASSUME min <= 0, max >= 0
      PROVE  /\ step2angle(first') <= min \/ first' = FirstLimit
             /\ step2angle(last') >= max \/ last' = LastLimit
  BY <1>2 DEF RequestIsCovered, step2angle
<1> DEFINE a == angle2step(min)
           b == angle2step(max)
<1>4. a \in FirstLimit..LastLimit /\ b \in FirstLimit..LastLimit /\ a <= b
  BY <1>1, <1>3, StepWithinLimits, EndsInOrder
<1>5. a = FirstLimit \/ step2angle(a) <= min
  BY <1>1, <1>3, LowerEnd
<1>6. b = LastLimit \/ step2angle(b) >= max
  BY <1>1, <1>3, UpperEnd
<1>7. first' = Ordered(a, b)[1] /\ last' = Ordered(a, b)[2]
  BY DEF Reconfigure, setAngleLimits
<1> HIDE DEF a, b
<1>8. /\ first' \in Int /\ last' \in Int /\ a \in Int /\ b \in Int
      /\ first' = a \/ first' = a - 1
      /\ last' = b \/ (last' = b + 1 /\ b = FirstLimit)
  BY <1>4, <1>7, StepsAssumption DEF Ordered
<1>9. \A x \in Int : step2angle(x) \in Int
  BY StepsAssumption, AnglesAssumption DEF step2angle
<1>10. step2angle(first') <= step2angle(a)
  BY <1>8, StepIsMonotone
<1>11. step2angle(last') >= step2angle(b)
  BY <1>8, StepIsMonotone
<1>12. first' = FirstLimit \/ step2angle(first') <= min
  <2>1. CASE a = FirstLimit
    BY <2>1, <1>4, <1>7, StepsAssumption DEF Ordered
  <2>2. CASE step2angle(a) <= min
    BY <2>2, <1>1, <1>8, <1>9, <1>10
  <2>3. QED BY <1>5, <2>1, <2>2
<1>13. last' = LastLimit \/ step2angle(last') >= max
  <2>1. CASE b = LastLimit
    BY <2>1, <1>4, <1>7, StepsAssumption DEF Ordered
  <2>2. CASE step2angle(b) >= max
    BY <2>2, <1>1, <1>8, <1>9, <1>11
  <2>3. QED BY <1>6, <2>1, <2>2
<1>14. QED BY <1>12, <1>13

\* Rounding never cuts off a reading of a field that was asked for around the
\* front: setAngleLimits() with angle2step() rounds both of its ends outwards.
THEOREM RequestAlwaysCovered == Spec => []RequestIsCovered
<1>1. Init => RequestIsCovered
  <2>1. step2angle(FirstLimit) \in Int /\ step2angle(LastLimit) \in Int
    BY StepsAssumption, AnglesAssumption DEF step2angle
  <2>2. QED BY <2>1 DEF Init, RequestIsCovered
<1>2. RequestIsCovered /\ [Next]_vars => RequestIsCovered'
  <2> SUFFICES ASSUME RequestIsCovered, [Next]_vars
      PROVE  RequestIsCovered'
    OBVIOUS
  <2>1. CASE PublishScan
    BY <2>1 DEF PublishScan, RequestIsCovered, step2angle
  <2>2. CASE \E min, max \in Angles : Reconfigure(min, max)
    BY <2>2, Covers
  <2>3. CASE UNCHANGED vars
    BY <2>3 DEF vars, RequestIsCovered, step2angle
  <2>4. QED BY <2>1, <2>2, <2>3 DEF Next
<1>3. QED BY <1>1, <1>2, PTL DEF Spec

\* The offset of the average, were the hardware clock the sensor's age.
AverageOffset == hardware_clock_adj + hardware_clock - age

ClockInv ==
  /\ TypeOKClock
  /\ adj_count > 0 => /\ last_hardware_time_stamp = counter
                      /\ offsets.least <= AverageOffset
                      /\ AverageOffset <= offsets.greatest
  /\ adj_count = 0 => hardware_clock = 0 /\ last_hardware_time_stamp = 0
  /\ WarpIsReal

----------------------------------------------------------------------------
\* Two readings of the counter less than a wrap apart differ, masked, by the
\* time between them, whether or not the counter wrapped.
LEMMA MaskedDifference ==
  ASSUME NEW c \in 0..(Wrap - 1), NEW period \in Periods, counter = c
  PROVE  /\ Advance(period) \in 0..(Wrap - 1)
         /\ Difference(Advance(period), c) = period
BY ClockAssumption DEF Advance, Difference

\* The masked difference of two readings is no negative number.
LEMMA DifferenceNatural ==
  ASSUME NEW t1 \in 0..(Wrap - 1), NEW t0 \in 0..(Wrap - 1)
  PROVE  Difference(t1, t0) \in Nat
BY ClockAssumption DEF Difference

\* A stamp that is far from the system's comes from offsets that are far apart.
LEMMA FarApart ==
  ASSUME NEW least \in Int, NEW greatest \in Int, NEW now \in Int, NEW stamp \in Int,
         NEW offset \in Int, NEW limit \in Nat,
         least <= stamp - now, stamp - now <= greatest,
         least <= offset, offset <= greatest,
         Distance(stamp, now + offset) > limit
  PROVE  greatest - least > limit
BY DEF Distance

LEMMA ClockInitially == ClockInit => ClockInv
<1> SUFFICES ASSUME ClockInit PROVE ClockInv
  OBVIOUS
<1>1. warped = FALSE
  BY DEF ClockInit
<1>2. /\ age \in 0..(Wrap - 1) /\ counter = age /\ Fresh
      /\ offsets = [least |-> 0, greatest |-> 0]
  BY DEF ClockInit
<1>3. /\ age \in Nat /\ counter \in 0..(Wrap - 1) /\ hardware_clock \in Nat
      /\ last_hardware_time_stamp \in 0..(Wrap - 1) /\ hardware_clock_adj \in Int
      /\ adj_count \in Nat /\ offsets \in [least : Int, greatest : Int]
  BY <1>2, ClockAssumption DEF Fresh
<1>4. TypeOKClock
  BY <1>1, <1>3, Zenon DEF TypeOKClock
<1> QED BY <1>1, <1>2, <1>4 DEF Fresh, ClockInv, WarpIsReal

LEMMA StampKeepsInv ==
  ASSUME ClockInv, NEW period \in Periods, NEW offset \in Offsets,
         SynchronizedScan(period, offset)
  PROVE  /\ ClockInv'
         /\ adj_count > 0 /\ adj_count' > 0 => hardware_clock' - hardware_clock = age' - age
<1> DEFINE t1     == Advance(period)
           delta  == Difference(t1, last_hardware_time_stamp)
           clock  == hardware_clock + delta
           system == age + period + offset
<1>1. /\ period \in Nat /\ offset \in Int /\ Wrap \in Nat /\ WarpLimit \in Nat
      /\ Settling \in Nat
  BY ClockAssumption
<1>2. /\ age \in Nat /\ counter \in 0..(Wrap - 1) /\ hardware_clock \in Nat
      /\ last_hardware_time_stamp \in 0..(Wrap - 1) /\ hardware_clock_adj \in Int
      /\ adj_count \in Nat /\ offsets \in [least : Int, greatest : Int]
  BY DEF ClockInv, TypeOKClock
<1>3. t1 \in 0..(Wrap - 1) /\ (adj_count > 0 => delta = period)
  BY <1>2, MaskedDifference DEF ClockInv
<1>4. delta \in Nat /\ clock \in Nat /\ system \in Int
  BY <1>1, <1>2, <1>3, DifferenceNatural
<1>5. /\ age' = age + period /\ counter' = t1 /\ offsets' = Widened(offset)
      /\ hardware_clock_adj' \in Average(system - clock)
      /\ \/ /\ warped' /\ hardware_clock' = 0 /\ last_hardware_time_stamp' = 0
            /\ adj_count' = 0
         \/ /\ ~warped' /\ hardware_clock' = clock /\ last_hardware_time_stamp' = t1
            /\ adj_count' = adj_count + 1
  BY DEF SynchronizedScan
<1>6. /\ offsets' \in [least : Int, greatest : Int]
      /\ offsets'.least <= offset /\ offset <= offsets'.greatest
      /\ adj_count > 0 => /\ offsets'.least <= offsets.least
                          /\ offsets.greatest <= offsets'.greatest
  BY <1>1, <1>2, <1>5 DEF Widened
\* The new average lies within the offsets seen, moved by clock - age'.
<1>7. /\ hardware_clock_adj' \in Int
      /\ offsets'.least <= hardware_clock_adj' + clock - age'
      /\ hardware_clock_adj' + clock - age' <= offsets'.greatest
  <2>1. CASE adj_count = 0
    BY <2>1, <1>1, <1>2, <1>4, <1>5, <1>6 DEF Average
  <2>2. CASE adj_count > 0
    <3>1. hardware_clock_adj' \in Between(hardware_clock_adj, system - clock)
      BY <2>2, <1>5 DEF Average
    <3>2. /\ offsets.least <= hardware_clock_adj + hardware_clock - age
          /\ hardware_clock_adj + hardware_clock - age <= offsets.greatest
      BY <2>2 DEF ClockInv, AverageOffset
    <3>3. clock - age' = hardware_clock - age
      BY <2>2, <1>1, <1>2, <1>3, <1>5
    <3>4. \/ hardware_clock_adj <= hardware_clock_adj' /\ hardware_clock_adj' <= system - clock
          \/ system - clock <= hardware_clock_adj' /\ hardware_clock_adj' <= hardware_clock_adj
      BY <3>1, <1>2, <1>4 DEF Between
    <3>5. hardware_clock_adj' \in Int
      BY <3>1, <1>2, <1>4 DEF Between
    <3>6. system - clock = offset + age' - clock
      BY <1>1, <1>2, <1>4, <1>5
    <3> HIDE DEF clock, system
    <3> QED BY <2>2, <3>2, <3>3, <3>4, <3>5, <3>6, <1>1, <1>2, <1>4, <1>5, <1>6
  <2> QED BY <2>1, <2>2, <1>2
<1>8. warped' \in BOOLEAN
  BY Zenon DEF SynchronizedScan
<1>9. warped' => offsets'.greatest - offsets'.least > WarpLimit
  <2> SUFFICES ASSUME warped' PROVE offsets'.greatest - offsets'.least > WarpLimit
    OBVIOUS
  <2>1. Distance(clock + hardware_clock_adj', system) > WarpLimit
    BY Zenon DEF SynchronizedScan
  <2>2. Distance(clock + hardware_clock_adj', age' + offset) > WarpLimit
    <3>1. system = age' + offset
      BY <1>1, <1>2, <1>5
    <3> QED BY <2>1, <3>1
  <2>3. /\ offsets'.least \in Int /\ offsets'.greatest \in Int /\ age' \in Int
        /\ clock \in Int /\ hardware_clock_adj' \in Int
    BY <1>1, <1>2, <1>4, <1>5, <1>6, <1>7
  <2> DEFINE least == offsets'.least  greatest == offsets'.greatest
             stamp == clock + hardware_clock_adj'  now == age'
  <2>4. least <= stamp - now /\ stamp - now <= greatest
    <3> HIDE DEF clock
    <3> QED BY <2>3, <1>7
  <2>5. /\ least \in Int /\ greatest \in Int /\ now \in Int /\ stamp \in Int
        /\ least <= offset /\ offset <= greatest /\ offset \in Int /\ WarpLimit \in Nat
    BY <2>3, <1>1, <1>6
  <2> HIDE DEF least, greatest, stamp, now
  <2>6. greatest - least > WarpLimit
    BY <2>2, <2>4, <2>5, FarApart DEF stamp, now
  <2> QED BY <2>6 DEF least, greatest
<1>10. TypeOKClock'
  <2>1. (/\ age \in Nat /\ counter \in 0..(Wrap - 1) /\ hardware_clock \in Nat
         /\ last_hardware_time_stamp \in 0..(Wrap - 1) /\ hardware_clock_adj \in Int
         /\ adj_count \in Nat /\ offsets \in [least : Int, greatest : Int])'
    <3> HIDE DEF clock, t1, system
    <3> QED BY <1>1, <1>2, <1>3, <1>4, <1>5, <1>6, <1>7
  <2> QED BY <2>1, <1>8, Zenon DEF TypeOKClock
<1>11. (adj_count > 0 => /\ last_hardware_time_stamp = counter
                         /\ offsets.least <= AverageOffset
                         /\ AverageOffset <= offsets.greatest)'
  <2> HIDE DEF clock, t1, system
  <2> QED BY <1>2, <1>5, <1>7 DEF AverageOffset
<1>12. (adj_count = 0 => hardware_clock = 0 /\ last_hardware_time_stamp = 0)'
  BY <1>2, <1>5
<1>13. adj_count > 0 /\ adj_count' > 0 => hardware_clock' - hardware_clock = age' - age
  BY <1>1, <1>2, <1>3, <1>5
<1> QED BY <1>9, <1>10, <1>11, <1>12, <1>13 DEF ClockInv, WarpIsReal

LEMMA ReconnectedKeepsInv ==
  ASSUME ClockInv, Reconnected
  PROVE  ClockInv' /\ adj_count' = 0
<1>1. warped' = FALSE
  BY DEF Reconnected
<1>2. (/\ age \in Nat /\ counter \in 0..(Wrap - 1) /\ hardware_clock \in Nat
       /\ last_hardware_time_stamp \in 0..(Wrap - 1) /\ hardware_clock_adj \in Int
       /\ adj_count \in Nat /\ offsets \in [least : Int, greatest : Int])'
  BY ClockAssumption DEF ClockInv, TypeOKClock, Reconnected
<1>3. TypeOKClock'
  BY <1>1, <1>2, Zenon DEF TypeOKClock
<1>4. adj_count' = 0 /\ hardware_clock' = 0 /\ last_hardware_time_stamp' = 0
  BY DEF Reconnected
<1> QED BY <1>1, <1>3, <1>4 DEF ClockInv, WarpIsReal

LEMMA ClockStep ==
  ASSUME ClockInv, [ClockNext]_clockVars
  PROVE  /\ ClockInv'
         /\ adj_count > 0 /\ adj_count' > 0 => hardware_clock' - hardware_clock = age' - age
<1>1. CASE StampedScan
  <2> PICK period \in Periods, offset \in Offsets : SynchronizedScan(period, offset)
    BY <1>1 DEF StampedScan
  <2> QED BY StampKeepsInv
<1>2. CASE Reconnected
  BY <1>2, ReconnectedKeepsInv
<1>3. CASE UNCHANGED clockVars
  <2>1. age' = age /\ counter' = counter /\ hardware_clock' = hardware_clock
        /\ last_hardware_time_stamp' = last_hardware_time_stamp
        /\ hardware_clock_adj' = hardware_clock_adj /\ adj_count' = adj_count
        /\ offsets' = offsets /\ warped' = warped
    BY <1>3 DEF clockVars, filter
  <2>2. age \in Nat /\ hardware_clock \in Nat
    BY DEF ClockInv, TypeOKClock
  <2> QED BY <2>1, <2>2 DEF ClockInv, TypeOKClock, WarpIsReal, AverageOffset
<1> QED BY <1>1, <1>2, <1>3 DEF ClockNext

----------------------------------------------------------------------------
\* The clock's state keeps its types.
THEOREM ClockTyped == ClockSpec => []TypeOKClock
<1>1. ClockInv => TypeOKClock BY DEF ClockInv
<1> QED BY <1>1, ClockInitially, ClockStep, PTL DEF ClockSpec

\* A warp that getSynchronizedTime() reports is a change of the offset of the
\* two clocks by more than the limit, whatever the counter did.
THEOREM WarpsAreReal == ClockSpec => []WarpIsReal
<1>1. ClockInv => WarpIsReal BY DEF ClockInv
<1> QED BY <1>1, ClockInitially, ClockStep, PTL DEF ClockSpec

\* The hardware clock measures the time between two scans across a wrap.
THEOREM ClockFollows == ClockSpec => ClockFollowsSensor
<1>1. ClockInv /\ [ClockNext]_clockVars
        => [adj_count > 0 /\ adj_count' > 0 =>
              hardware_clock' - hardware_clock = age' - age]_clockVars
  BY ClockStep
<1> QED BY <1>1, ClockInitially, ClockStep, PTL DEF ClockSpec, ClockFollowsSensor

----------------------------------------------------------------------------
(***************************************************************************)
(* The text reply of ScipLine, for any number of texts that are cut.       *)
(*                                                                         *)
(* Two lines with a number that stand together are a whole field and the   *)
(* field after it, because a text begins with lines that have none         *)
(* (InFields).  Seven of them are then the fields that are decoded.  The   *)
(* buffer never holds more lines than the cut texts have left (LengthInv), *)
(* and what failed commands consume of them is gone for good (HealInv).    *)
(***************************************************************************)
Follows(line, successor) ==
  HasNumber(line) /\ HasNumber(successor) =>
    line = LineOf(line.field) /\ successor.field = line.field + 1

InFields(lines) ==
  /\ \A i \in 1..Len(lines) : HasNumber(lines[i]) => lines[i].field \in Decoded
  /\ \A i \in 1..(Len(lines) - 1) : Follows(lines[i], lines[i + 1])

CutInv ==
  /\ HasNumber(rest) => rest.field \in Decoded
  /\ rest # Blank
  /\ readline_buffer # <<>> => Follows(readline_buffer[Len(readline_buffer)], rest)

LengthInv == Len(readline_buffer) <= NR_LINES * cuts

\* A text that is left behind is left behind whole.
LeftInv == Delimited => readline_buffer[Len(readline_buffer)] = Blank

\* While commands fail the buffer ends with the empty line of a whole text.
HealInv ==
  failures > 0 =>
    /\ rest = NoLine
    /\ readline_buffer # <<>> =>
         /\ readline_buffer[Len(readline_buffer)] = Blank
         /\ (NR_LINES + 1) * (failures - 1) + Len(readline_buffer) <= NR_LINES * cuts

TextInv ==
  /\ TypeOKText
  /\ InFields(readline_buffer) /\ CutInv /\ LengthInv /\ LeftInv /\ HealInv
  /\ FieldsAreTheSensors /\ TextHeals

\* A text that can stand behind any line: its beginning has no number.
Joins(text) ==
  /\ text \in Seq(Lines) /\ InFields(text)
  /\ \A i \in 1..Len(text) : i <= 2 => ~HasNumber(text[i])

LEMMA LinesOfText ==
  /\ \A field \in 0..(NR_LINES - 1) :
       /\ LineOf(field) \in Lines /\ LineOf(field) # Blank
       /\ LineOf(field).field = field
       /\ HasNumber(LineOf(field)) <=> field \in Decoded
  /\ Blank \in Lines /\ NoLine \in Lines /\ ~HasNumber(Blank) /\ ~HasNumber(NoLine)
  /\ Blank # NoLine
BY DEF LineOf, Line, Lines, Blank, NoLine, HasNumber, Decoded, NR_LINES, SENSOR_MODEL,
       MIN_DISTANCE, RPM

LEMMA WholeTextLines ==
  /\ Text \in Seq(Lines) /\ Len(Text) = NR_LINES + 1
  /\ \A i \in 1..NR_LINES : Text[i] = LineOf(i - 1)
  /\ Text[NR_LINES + 1] = Blank
<1> DEFINE fields == [i \in 1..NR_LINES |-> LineOf(i - 1)]
           last_line == <<Blank>>
<1>1. fields \in Seq(Lines) /\ Len(fields) = NR_LINES
  BY LinesOfText DEF NR_LINES
<1>2. last_line \in Seq(Lines) /\ Len(last_line) = 1 /\ last_line[1] = Blank
  BY LinesOfText
<1>3. Text = fields \o last_line
  BY DEF Text
<1>4. \A i \in 1..NR_LINES : fields[i] = LineOf(i - 1)
  OBVIOUS
<1> HIDE DEF fields, last_line
<1>5. /\ fields \o last_line \in Seq(Lines)
      /\ Len(fields \o last_line) = Len(fields) + Len(last_line)
      /\ \A i \in 1..(Len(fields) + Len(last_line)) : (fields \o last_line)[i] =
           IF i <= Len(fields) THEN fields[i] ELSE last_line[i - Len(fields)]
  BY <1>1, <1>2, ConcatProperties
<1> DEFINE joined == fields \o last_line
<1> HIDE DEF joined
<1>6. /\ joined \in Seq(Lines) /\ Len(joined) = 11
      /\ \A i \in 1..11 : joined[i] = IF i <= 10 THEN fields[i] ELSE last_line[i - 10]
  BY <1>1, <1>2, <1>5 DEF NR_LINES, joined
<1>7. joined[11] = Blank
  BY <1>2, <1>6
<1>8. \A i \in 1..10 : joined[i] = LineOf(i - 1)
  BY <1>4, <1>6 DEF NR_LINES
<1>9. Text = joined
  BY <1>3 DEF joined
<1> QED BY <1>6, <1>7, <1>8, <1>9 DEF NR_LINES

\* Every beginning of the sensor's text joins, and so does a refusal.
LEMMA BeginningJoins ==
  ASSUME NEW n \in 0..(NR_LINES + 1)
  PROVE  /\ Joins(SubSeq(Text, 1, n)) /\ Len(SubSeq(Text, 1, n)) = n
         /\ \A i \in 1..n : SubSeq(Text, 1, n)[i] = Text[i]
<1> DEFINE text == SubSeq(Text, 1, n)
<1>1. text \in Seq(Lines) /\ Len(text) = n /\ \A i \in 1..n : text[i] = Text[i]
  <2>1. n \in Int /\ (1 <= n => n - 1 + 1 = n) /\ n - 1 + 1 = n
    BY DEF NR_LINES
  <2>2. \A i \in 1..n : Text[i] \in Lines
    BY WholeTextLines, LinesOfText DEF NR_LINES
  <2>3. /\ text \in Seq(Lines) /\ Len(text) = IF 1 <= n THEN n - 1 + 1 ELSE 0
        /\ \A i \in 1..(n - 1 + 1) : text[i] = Text[1 + i - 1]
    BY <2>1, <2>2, SubSeqProperties
  <2> HIDE DEF text
  <2> QED BY <2>1, <2>3 DEF NR_LINES
<1> HIDE DEF text
<1>2. \A i \in 1..n : HasNumber(text[i]) =>
        i <= NR_LINES /\ text[i] = LineOf(i - 1) /\ i - 1 \in Decoded /\ text[i].field = i - 1
  BY <1>1, WholeTextLines, LinesOfText DEF NR_LINES
<1>3. InFields(text)
  BY <1>1, <1>2 DEF InFields, Follows
<1>4. Joins(text)
  BY <1>1, <1>2, <1>3 DEF Joins, Decoded, MIN_DISTANCE, RPM
<1> QED BY <1>1, <1>4 DEF text

LEMMA TextJoins == Joins(Text)
<1>1. Text = SubSeq(Text, 1, NR_LINES + 1)
  BY WholeTextLines, SubSeqFull
<1>2. NR_LINES + 1 \in 0..(NR_LINES + 1)
  BY DEF NR_LINES
<1> QED BY <1>1, <1>2, BeginningJoins, Zenon

LEMMA RefusalJoins ==
  /\ Joins(Refusal) /\ Len(Refusal) = 3 /\ Refusal[3] = Blank /\ Refusal[1] = LineOf(0)
<1>1. /\ Refusal \in Seq(Lines) /\ Len(Refusal) = 3
      /\ Refusal[1] = LineOf(0) /\ Refusal[2] = LineOf(1) /\ Refusal[3] = Blank
  BY LinesOfText DEF Refusal, NR_LINES
<1>2. \A i \in 1..3 : ~HasNumber(Refusal[i])
  BY <1>1, LinesOfText DEF NR_LINES, Decoded, MIN_DISTANCE, RPM
<1> QED BY <1>1, <1>2 DEF Joins, InFields, Follows

----------------------------------------------------------------------------
(* What the buffer is after a text has come and after one was taken *)

LEMMA AppendedLines ==
  ASSUME readline_buffer \in Seq(Lines), rest \in Lines, NEW text \in Seq(Lines)
  PROVE  /\ Appended(text) \in Seq(Lines)
         /\ Len(Appended(text)) = Len(readline_buffer) + Len(text)
         /\ \A i \in 1..Len(readline_buffer) : Appended(text)[i] = readline_buffer[i]
         /\ \A i \in 1..Len(text) :
              Appended(text)[Len(readline_buffer) + i] =
                IF i = 1 /\ rest # NoLine THEN rest ELSE text[i]
<1>1. CASE rest = NoLine \/ text = <<>>
  BY <1>1, ConcatProperties DEF Appended
<1>2. CASE rest # NoLine /\ text # <<>>
  <2> DEFINE joined == <<rest>> \o Tail(text)
  <2>1. /\ Tail(text) \in Seq(Lines) /\ Len(Tail(text)) = Len(text) - 1
        /\ \A i \in 1..(Len(text) - 1) : Tail(text)[i] = text[i + 1]
    BY <1>2, HeadTailProperties
  <2>2. <<rest>> \in Seq(Lines) /\ Len(<<rest>>) = 1 /\ <<rest>>[1] = rest
    OBVIOUS
  <2>3. /\ joined \in Seq(Lines) /\ Len(joined) = Len(text)
        /\ \A i \in 1..Len(text) : joined[i] = IF i = 1 THEN rest ELSE text[i]
    BY <1>2, <2>1, <2>2, ConcatProperties
  <2>4. Appended(text) = readline_buffer \o joined
    BY <1>2 DEF Appended
  <2> HIDE DEF joined
  <2>5. /\ readline_buffer \o joined \in Seq(Lines)
        /\ Len(readline_buffer \o joined) = Len(readline_buffer) + Len(joined)
        /\ \A i \in 1..(Len(readline_buffer) + Len(joined)) :
             (readline_buffer \o joined)[i] =
               IF i <= Len(readline_buffer) THEN readline_buffer[i]
               ELSE joined[i - Len(readline_buffer)]
    BY <2>3, ConcatProperties
  <2>6. Len(readline_buffer) \in Nat /\ Len(joined) \in Nat
    BY <2>3
  <2>7. \A i \in 1..Len(text) :
          (readline_buffer \o joined)[Len(readline_buffer) + i] = joined[i]
    BY <2>3, <2>5, <2>6
  <2>8. \A i \in 1..Len(readline_buffer) : (readline_buffer \o joined)[i] = readline_buffer[i]
    BY <2>5, <2>6
  <2> QED BY <1>2, <2>3, <2>4, <2>5, <2>7, <2>8
<1> QED BY <1>1, <1>2

LEMMA AppendedInFields ==
  ASSUME TypeOKText, InFields(readline_buffer), CutInv, NEW text, Joins(text)
  PROVE  InFields(Appended(text))
<1> DEFINE lines == Appended(text)
           n == Len(readline_buffer)
<1>1. /\ lines \in Seq(Lines) /\ Len(lines) = n + Len(text)
      /\ \A i \in 1..n : lines[i] = readline_buffer[i]
      /\ \A i \in 1..Len(text) :
           lines[n + i] = IF i = 1 /\ rest # NoLine THEN rest ELSE text[i]
  BY AppendedLines DEF Joins, TypeOKText
<1>2. n \in Nat /\ Len(text) \in Nat
  BY DEF Joins, TypeOKText
<1>3. n > 0 => Follows(readline_buffer[n], rest)
  BY DEF CutInv, TypeOKText
<1> HIDE DEF lines, n
<1>4. ASSUME NEW i \in 1..Len(lines), HasNumber(lines[i])
      PROVE  lines[i].field \in Decoded
  <2>1. CASE i <= n
    BY <1>1, <1>2, <1>4, <2>1 DEF InFields, n
  <2>2. CASE i > n
    <3> DEFINE j == i - n
    <3>1. j \in 1..Len(text) /\ i = n + j
      BY <1>1, <1>2, <2>2
    <3>2. lines[i] = rest \/ lines[i] = text[j]
      BY <1>1, <3>1
    <3> HIDE DEF j
    <3> QED BY <1>4, <3>1, <3>2 DEF CutInv, Joins, InFields
  <2> QED BY <1>2, <2>1, <2>2
<1>5. ASSUME NEW i \in 1..(Len(lines) - 1)
      PROVE  Follows(lines[i], lines[i + 1])
  <2>1. CASE i < n
    BY <1>1, <1>2, <2>1 DEF InFields, n
  <2>2. CASE i = n
    <3>1. lines[i] = readline_buffer[n] /\ 1 \in 1..Len(text)
      BY <1>1, <1>2, <1>5, <2>2
    <3>2. lines[i + 1] = rest \/ lines[i + 1] = text[1]
      BY <1>1, <2>2, <3>1
    <3>3. ~HasNumber(text[1])
      BY <3>1 DEF Joins
    <3> QED BY <1>2, <1>3, <2>2, <3>1, <3>2, <3>3 DEF Follows
  <2>3. CASE i > n
    <3> DEFINE j == i - n
    <3>1. j \in 1..Len(text) /\ j + 1 \in 1..Len(text) /\ i = n + j /\ i + 1 = n + (j + 1)
      BY <1>1, <1>2, <2>3
    <3>2. lines[i + 1] = text[j + 1]
      BY <1>1, <3>1
    <3>3. CASE j = 1
      <4>1. ~HasNumber(text[j + 1])
        BY <3>1, <3>3 DEF Joins
      <4> QED BY <3>2, <4>1 DEF Follows
    <3>4. CASE j > 1
      <4>1. lines[i] = text[j]
        BY <1>1, <3>1, <3>4
      <4> QED BY <3>1, <3>2, <4>1 DEF Joins, InFields
    <3> HIDE DEF j
    <3> QED BY <3>1, <3>3, <3>4
  <2> QED BY <1>1, <1>2, <2>1, <2>2, <2>3
<1>6. InFields(lines)
  BY <1>4, <1>5 DEF InFields
<1> QED BY <1>6 DEF lines

LEMMA JoinedLines ==
  ASSUME TextInv, NEW text, Joins(text)
  PROVE  /\ Appended(text) \in Seq(Lines) /\ InFields(Appended(text))
         /\ Len(Appended(text)) = Len(readline_buffer) + Len(text)
         /\ \A i \in 1..Len(readline_buffer) : Appended(text)[i] = readline_buffer[i]
         /\ \A i \in 1..Len(text) :
              Appended(text)[Len(readline_buffer) + i] =
                IF i = 1 /\ rest # NoLine THEN rest ELSE text[i]
<1>1. readline_buffer \in Seq(Lines) /\ rest \in Lines /\ text \in Seq(Lines)
  BY DEF TextInv, TypeOKText, Joins
<1>2. InFields(Appended(text))
  BY AppendedInFields DEF TextInv
<1> QED BY <1>1, <1>2, AppendedLines

\* What remains is an end of the buffer.
LEMMA RemainingLines ==
  ASSUME NEW lines \in Seq(Lines), InFields(lines)
  PROVE  /\ Remaining(lines) \in Seq(Lines) /\ InFields(Remaining(lines))
         /\ Len(Remaining(lines)) =
              IF Len(lines) > NR_LINES + 1 THEN Len(lines) - (NR_LINES + 1) ELSE 0
         /\ Remaining(lines) # <<>> =>
              Remaining(lines)[Len(Remaining(lines))] = lines[Len(lines)]
<1> DEFINE left == Remaining(lines)
<1>1. CASE Len(lines) > NR_LINES + 1
  <2>1. /\ left \in Seq(Lines) /\ Len(left) = Len(lines) - (NR_LINES + 1)
        /\ \A i \in 1..Len(left) : left[i] = lines[i + NR_LINES + 1]
    BY <1>1, SubSeqProperties DEF Remaining, NR_LINES
  <2> HIDE DEF left
  <2>2. InFields(left)
    <3>1. \A i \in 1..Len(left) : i + NR_LINES + 1 \in 1..Len(lines)
      BY <1>1, <2>1 DEF NR_LINES
    <3>2. \A i \in 1..(Len(left) - 1) :
            /\ i + NR_LINES + 1 \in 1..(Len(lines) - 1)
            /\ left[i] = lines[i + NR_LINES + 1]
            /\ left[i + 1] = lines[(i + NR_LINES + 1) + 1]
      BY <1>1, <2>1 DEF NR_LINES
    <3>3. \A i \in 1..Len(left) : HasNumber(left[i]) => left[i].field \in Decoded
      BY <2>1, <3>1 DEF InFields
    <3>4. \A i \in 1..(Len(left) - 1) : Follows(left[i], left[i + 1])
      BY <3>2, Zenon DEF InFields
    <3> QED BY <3>3, <3>4 DEF InFields
  <2>3. left[Len(left)] = lines[Len(lines)]
    BY <1>1, <2>1 DEF NR_LINES
  <2> QED BY <1>1, <2>1, <2>2, <2>3 DEF left
<1>2. CASE ~(Len(lines) > NR_LINES + 1)
  <2>1. left = <<>>
    BY <1>2, SubSeqEmpty DEF Remaining, NR_LINES
  <2> HIDE DEF left
  <2>2. InFields(left)
    BY <2>1 DEF InFields
  <2> QED BY <1>2, <2>1, <2>2 DEF left
<1> QED BY <1>1, <1>2

----------------------------------------------------------------------------
(* What a command makes of the lines it takes *)

\* Seven numbers in the places of the decoded fields are those fields.
LEMMA DecodedFields ==
  ASSUME NEW lines \in Seq(Lines), InFields(lines), Decode(RawReply(lines)) = "read"
  PROVE  /\ \A field \in MIN_DISTANCE..(RPM - 1) : RawReply(lines)[field] = LineOf(field)
         /\ RawReply(lines)[RPM].field = RPM
<1>1. \A field \in Decoded : HasNumber(RawReply(lines)[field])
  BY DEF Decode
<1>2. \A field \in 3..9 : /\ field + 1 \in 1..Len(lines) /\ HasNumber(lines[field + 1])
                          /\ RawReply(lines)[field] = lines[field + 1]
  BY <1>1, LinesOfText DEF RawReply, Decoded, MIN_DISTANCE, RPM
<1>3. Len(lines) \in Nat /\ 9 < Len(lines)
  BY <1>2
<1>4. \A field \in 3..8 : /\ lines[field + 1] = LineOf(lines[field + 1].field)
                          /\ lines[field + 2].field = lines[field + 1].field + 1
  <2> SUFFICES ASSUME NEW field \in 3..8
      PROVE  /\ lines[field + 1] = LineOf(lines[field + 1].field)
             /\ lines[field + 2].field = lines[field + 1].field + 1
    OBVIOUS
  <2>1. field + 1 \in 1..(Len(lines) - 1) /\ (field + 1) + 1 = field + 2
    BY <1>3
  <2>2. HasNumber(lines[field + 1]) /\ HasNumber(lines[field + 2])
    BY <1>2
  <2> QED BY <2>1, <2>2 DEF InFields, Follows
<1>5. \A field \in 3..9 : lines[field + 1].field \in 3..9
  BY <1>2 DEF InFields, Decoded, MIN_DISTANCE, RPM
<1>6. /\ lines[4].field = 3 /\ lines[5].field = 4 /\ lines[6].field = 5 /\ lines[7].field = 6
      /\ lines[8].field = 7 /\ lines[9].field = 8 /\ lines[10].field = 9
  <2> DEFINE f(i) == lines[i].field
  <2>1. /\ f(5) = f(4) + 1 /\ f(6) = f(5) + 1 /\ f(7) = f(6) + 1 /\ f(8) = f(7) + 1
        /\ f(9) = f(8) + 1 /\ f(10) = f(9) + 1
    BY <1>4
  <2>2. f(4) \in 3..9 /\ f(10) \in 3..9
    BY <1>5
  <2> QED BY <2>1, <2>2
<1>7. \A field \in 3..9 : lines[field + 1].field = field
  BY <1>6
<1> QED BY <1>2, <1>4, <1>7 DEF MIN_DISTANCE, RPM

\* A text that comes whole to an empty buffer is read.
LEMMA TextIsRead == Decode(RawReply(Text)) = "read"
<1> SUFFICES \A field \in Decoded : HasNumber(RawReply(Text)[field])
  BY DEF Decode
<1> SUFFICES ASSUME NEW field \in Decoded PROVE HasNumber(RawReply(Text)[field])
  OBVIOUS
<1>1. field \in 3..9 /\ field + 1 \in 1..NR_LINES /\ field < Len(Text)
  BY WholeTextLines DEF Decoded, MIN_DISTANCE, RPM, NR_LINES
<1>2. RawReply(Text)[field] = LineOf(field)
  BY <1>1, WholeTextLines DEF RawReply
<1> QED BY <1>1, <1>2, LinesOfText DEF NR_LINES

\* Behind one empty line it is not: stoi() is given the sensor's model.
LEMMA ShiftedTextThrows ==
  ASSUME NEW lines, Len(lines) = NR_LINES + 2, lines[4] = LineOf(SENSOR_MODEL)
  PROVE  Decode(RawReply(lines)) = "thrown"
<1> DEFINE raw == RawReply(lines)
           FirstBad(field) == /\ ~HasNumber(raw[field])
                              /\ \A other \in MIN_DISTANCE..(field - 1) : HasNumber(raw[other])
<1>1. raw[3] = LineOf(SENSOR_MODEL)
  BY DEF RawReply, Decoded, MIN_DISTANCE, RPM, NR_LINES
<1>2. ~HasNumber(raw[3]) /\ raw[3].text = "bare"
  BY <1>1 DEF LineOf, Line, SENSOR_MODEL, HasNumber
<1> HIDE DEF raw
<1>3. 3 \in Decoded /\ FirstBad(3)
  BY <1>2 DEF Decoded, MIN_DISTANCE, RPM
<1>4. \A field \in Decoded : FirstBad(field) => field = 3
  BY <1>2 DEF Decoded, MIN_DISTANCE, RPM
<1>5. (CHOOSE field \in Decoded : FirstBad(field)) = 3
  BY <1>3, <1>4
<1>6. Decode(raw) = "thrown"
  BY <1>2, <1>3, <1>5 DEF Decode
<1> QED BY <1>6 DEF raw

----------------------------------------------------------------------------
(* The invariant *)

LEMMA TextInitially == TextInit => TextInv
<1> SUFFICES ASSUME TextInit PROVE TextInv
  OBVIOUS
<1>1. /\ readline_buffer = <<>> /\ rest = NoLine /\ cuts = 0
      /\ result = "none" /\ reply = NoReply /\ failures = 0
  BY DEF TextInit
<1>2. TypeOKText
  BY <1>1, LinesOfText, CutsAssumption DEF TypeOKText, NoReply
<1> QED BY <1>1, <1>2, LinesOfText DEF TextInv, InFields, CutInv, LengthInv, LeftInv,
      Delimited, HealInv, FieldsAreTheSensors, TextHeals, NR_LINES

\* Whatever lines a command takes, of which it decodes the first.
LEMMA HandlingKeepsFields ==
  ASSUME TextInv, NEW lines \in Seq(Lines), InFields(lines), HandleText(lines),
         failures' \in Nat
  PROVE  /\ TypeOKText' /\ InFields(readline_buffer)' /\ CutInv' /\ FieldsAreTheSensors'
         /\ readline_buffer' = Remaining(lines) /\ rest' = NoLine /\ cuts' = cuts
         /\ result' = Decode(RawReply(lines))
<1>1. /\ readline_buffer' = Remaining(lines) /\ rest' = NoLine /\ cuts' = cuts
      /\ result' = Decode(RawReply(lines))
      /\ reply' = IF result' = "read" THEN RawReply(lines) ELSE NoReply
  BY DEF HandleText
<1>2. readline_buffer' \in Seq(Lines) /\ InFields(readline_buffer')
  BY <1>1, RemainingLines
<1>3. RawReply(lines) \in [Decoded -> Lines] /\ NoReply \in [Decoded -> Lines]
  <2>1. \A field \in Decoded : field < Len(lines) => lines[field + 1] \in Lines
    BY DEF Decoded, MIN_DISTANCE, RPM
  <2> QED BY <2>1, LinesOfText DEF RawReply, NoReply
<1>4. result' \in {"read", "thrown", "failed"}
  BY <1>1 DEF Decode
<1>5. TypeOKText'
  BY <1>1, <1>2, <1>3, <1>4, LinesOfText DEF TextInv, TypeOKText
<1>6. FieldsAreTheSensors'
  BY <1>1, DecodedFields DEF FieldsAreTheSensors
<1>7. CutInv'
  BY <1>1, LinesOfText DEF CutInv, Follows
<1> QED BY <1>1, <1>2, <1>5, <1>6, <1>7

\* A text that was left behind is consumed, and one failure pays for it.
LEMMA StaleKeepsInv ==
  ASSUME TextInv, StaleText
  PROVE  TextInv'
<1> DEFINE n == Len(readline_buffer)
<1>1. /\ Delimited /\ HandleText(readline_buffer)
      /\ failures' = IF result' = "failed" THEN failures + 1 ELSE 0
  BY DEF StaleText, Counted
<1>2. /\ readline_buffer \in Seq(Lines) /\ failures \in Nat /\ cuts \in Nat /\ n \in Nat
      /\ InFields(readline_buffer) /\ n <= 10 * cuts
  BY DEF TextInv, TypeOKText, LengthInv, NR_LINES
<1>3. failures' \in Nat
  BY <1>1, <1>2
<1>4. /\ TypeOKText' /\ InFields(readline_buffer)' /\ CutInv' /\ FieldsAreTheSensors'
      /\ readline_buffer' = Remaining(readline_buffer) /\ rest' = NoLine /\ cuts' = cuts
  BY <1>1, <1>2, <1>3, HandlingKeepsFields
<1>5. n >= 2
  BY <1>1, <1>2 DEF Delimited
<1>6. /\ readline_buffer' \in Seq(Lines)
      /\ Len(readline_buffer') = IF n > 11 THEN n - 11 ELSE 0
      /\ readline_buffer' # <<>> => readline_buffer'[Len(readline_buffer')] = readline_buffer[n]
  BY <1>2, <1>4, RemainingLines DEF NR_LINES
<1>7. readline_buffer' # <<>> <=> n > 11
  BY <1>6, <1>2
<1>8. readline_buffer' # <<>> => readline_buffer'[Len(readline_buffer')] = Blank
  BY <1>1, <1>6 DEF TextInv, LeftInv
<1>9. LengthInv'
  BY <1>2, <1>4, <1>6 DEF LengthInv, NR_LINES
<1>10. LeftInv'
  BY <1>6, <1>8 DEF LeftInv, Delimited
<1>11. failures > 0 => 11 * (failures - 1) + n <= 10 * cuts
  BY <1>2, <1>5 DEF TextInv, HealInv, NR_LINES
<1> HIDE DEF n
<1>12. readline_buffer' # <<>> => 11 * (failures' - 1) + Len(readline_buffer') <= 10 * cuts
  <2> SUFFICES ASSUME readline_buffer' # <<>>
      PROVE  11 * (failures' - 1) + Len(readline_buffer') <= 10 * cuts
    OBVIOUS
  <2>1. Len(readline_buffer') = n - 11
    BY <1>6, <1>7
  <2>2. failures' = 0 \/ failures' = failures + 1
    BY <1>1
  <2> QED BY <1>2, <1>11, <2>1, <2>2
<1>13. HealInv'
  BY <1>4, <1>8, <1>12 DEF HealInv, NR_LINES
<1>14. TextHeals'
  BY <1>1, <1>2, <1>4, <1>5, <1>11 DEF TextHeals
<1> QED BY <1>4, <1>9, <1>10, <1>13, <1>14 DEF TextInv

\* A whole text takes away as many lines as it brings.
LEMMA WholeKeepsInv ==
  ASSUME TextInv, WholeText
  PROVE  TextInv'
<1> DEFINE n == Len(readline_buffer)
           lines == Appended(Text)
<1>1. /\ ~Delimited /\ HandleText(lines)
      /\ failures' = IF result' = "failed" THEN failures + 1 ELSE 0
  BY DEF WholeText, Counted
<1>2. /\ readline_buffer \in Seq(Lines) /\ failures \in Nat /\ cuts \in Nat /\ n \in Nat
      /\ rest \in Lines /\ InFields(readline_buffer) /\ n <= 10 * cuts
  BY DEF TextInv, TypeOKText, LengthInv, NR_LINES
<1>3. /\ lines \in Seq(Lines) /\ Len(lines) = n + 11 /\ InFields(lines)
      /\ \A i \in 1..n : lines[i] = readline_buffer[i]
      /\ \A i \in 2..11 : lines[n + i] = Text[i]
  <2>1. Len(Text) = 11
    BY WholeTextLines DEF NR_LINES
  <2>2. /\ lines \in Seq(Lines) /\ InFields(lines) /\ Len(lines) = n + Len(Text)
        /\ \A i \in 1..n : lines[i] = readline_buffer[i]
        /\ \A i \in 1..Len(Text) :
             lines[n + i] = IF i = 1 /\ rest # NoLine THEN rest ELSE Text[i]
    BY TextJoins, JoinedLines
  <2> HIDE DEF lines
  <2> QED BY <2>1, <2>2
<1> HIDE DEF lines
<1>4. failures' \in Nat
  BY <1>1, <1>2
<1>5. /\ TypeOKText' /\ InFields(readline_buffer)' /\ CutInv' /\ FieldsAreTheSensors'
      /\ readline_buffer' = Remaining(lines) /\ rest' = NoLine /\ cuts' = cuts
      /\ result' = Decode(RawReply(lines))
  BY <1>1, <1>3, <1>4, HandlingKeepsFields
<1>6. /\ readline_buffer' \in Seq(Lines) /\ Len(readline_buffer') = n
      /\ readline_buffer' # <<>> => readline_buffer'[Len(readline_buffer')] = Blank
  <2>1. lines[Len(lines)] = Blank
    BY <1>3, WholeTextLines DEF NR_LINES
  <2>2. /\ Remaining(lines) \in Seq(Lines)
        /\ Len(Remaining(lines)) = IF Len(lines) > 11 THEN Len(lines) - 11 ELSE 0
        /\ Remaining(lines) # <<>> =>
             Remaining(lines)[Len(Remaining(lines))] = lines[Len(lines)]
    <3>1. lines \in Seq(Lines) /\ InFields(lines)
      BY <1>3
    <3> HIDE DEF n
    <3> QED BY <3>1, RemainingLines DEF NR_LINES
  <2> HIDE DEF n
  <2> QED BY <1>2, <1>3, <1>5, <2>1, <2>2
<1>7. failures = 0 \/ failures' = 0
  <2> SUFFICES ASSUME failures > 0 PROVE result' # "failed"
    BY <1>1, <1>2
  <2>1. rest = NoLine /\ (n > 0 => readline_buffer[n] = Blank)
    BY <1>2 DEF TextInv, HealInv
  <2>2. CASE n = 0
    <3>1. readline_buffer = <<>>
      BY <1>2, <2>2
    <3>2. lines = Text
      BY <2>1, <3>1, WholeTextLines DEF lines, Appended
    <3> QED BY <1>5, <3>2, TextIsRead
  <2>3. CASE n = 1
    <3>1. lines[4] = Text[3] /\ Text[3] = LineOf(2)
      BY <1>3, <2>3, WholeTextLines DEF NR_LINES
    <3>2. Len(lines) = NR_LINES + 2 /\ lines[4] = LineOf(SENSOR_MODEL)
      BY <1>3, <2>3, <3>1 DEF NR_LINES, SENSOR_MODEL
    <3> QED BY <1>5, <3>2, ShiftedTextThrows
  <2>4. ~(n >= 2)
    BY <1>1, <1>2, <2>1 DEF Delimited
  <2> HIDE DEF n
  <2> QED BY <1>2, <2>2, <2>3, <2>4
<1> HIDE DEF n
<1>8. LengthInv'
  BY <1>2, <1>5, <1>6 DEF LengthInv, NR_LINES
<1>9. LeftInv'
  BY <1>6 DEF LeftInv, Delimited
<1>10. failures' = 0 \/ failures' = 1
  BY <1>1, <1>2, <1>7
<1>11. HealInv'
  <2>1. failures' > 0 => (NR_LINES + 1) * (failures' - 1) + n <= NR_LINES * cuts
    BY <1>2, <1>10 DEF NR_LINES
  <2> QED BY <1>5, <1>6, <2>1 DEF HealInv
<1>12. TextHeals'
  BY <1>2, <1>5, <1>10 DEF TextHeals
<1> QED BY <1>5, <1>8, <1>9, <1>11, <1>12 DEF TextInv

LEMMA RefusedKeepsInv ==
  ASSUME TextInv, RefusedText
  PROVE  TextInv'
<1> DEFINE n == Len(readline_buffer)
           lines == Appended(Refusal)
<1>1. HandleText(lines) /\ failures' = 0
  BY DEF RefusedText
<1>2. /\ readline_buffer \in Seq(Lines) /\ cuts \in Nat /\ n \in Nat
      /\ rest \in Lines /\ InFields(readline_buffer) /\ n <= 10 * cuts
  BY DEF TextInv, TypeOKText, LengthInv, NR_LINES
<1>3. /\ lines \in Seq(Lines) /\ Len(lines) = n + 3 /\ InFields(lines)
      /\ lines[n + 3] = Blank
  <2>1. /\ lines \in Seq(Lines) /\ InFields(lines) /\ Len(lines) = n + Len(Refusal)
        /\ \A i \in 1..Len(Refusal) :
             lines[n + i] = IF i = 1 /\ rest # NoLine THEN rest ELSE Refusal[i]
    BY RefusalJoins, JoinedLines
  <2> HIDE DEF lines
  <2> QED BY <2>1, RefusalJoins
<1> HIDE DEF lines
<1>4. /\ TypeOKText' /\ InFields(readline_buffer)' /\ CutInv' /\ FieldsAreTheSensors'
      /\ readline_buffer' = Remaining(lines) /\ cuts' = cuts
  BY <1>1, <1>3, HandlingKeepsFields
<1>5. /\ readline_buffer' \in Seq(Lines)
      /\ Len(readline_buffer') = IF n + 3 > 11 THEN n + 3 - 11 ELSE 0
      /\ readline_buffer' # <<>> => readline_buffer'[Len(readline_buffer')] = Blank
  <2>1. /\ Remaining(lines) \in Seq(Lines)
        /\ Len(Remaining(lines)) = IF Len(lines) > 11 THEN Len(lines) - 11 ELSE 0
        /\ Remaining(lines) # <<>> =>
             Remaining(lines)[Len(Remaining(lines))] = lines[Len(lines)]
    BY <1>3, RemainingLines DEF NR_LINES
  <2> HIDE DEF n
  <2> QED BY <1>2, <1>3, <1>4, <2>1
<1> HIDE DEF n
<1>6. LengthInv'
  BY <1>2, <1>4, <1>5 DEF LengthInv, NR_LINES
<1>7. LeftInv'
  BY <1>5 DEF LeftInv, Delimited
<1>8. HealInv' /\ TextHeals'
  BY <1>1, <1>2, <1>4 DEF HealInv, TextHeals
<1> QED BY <1>4, <1>6, <1>7, <1>8 DEF TextInv

\* What may have come of a line is no empty line, and the field behind the
\* line before it when it has a number.
LEMMA BeginningsOfLines ==
  ASSUME NEW n \in 0..NR_LINES, NEW line \in Lines,
         line = NoLine \/ (n < NR_LINES /\ line \in Beginnings(n))
  PROVE  /\ line # Blank
         /\ HasNumber(line) => line.field = n /\ n \in Decoded
BY DEF Beginnings, NoLine, Blank, Line, HasNumber, Decoded, NR_LINES, SENSOR_MODEL,
       MIN_DISTANCE, RPM

LEMMA CutKeepsInv ==
  ASSUME TextInv, CutText
  PROVE  TextInv'
<1> DEFINE m == Len(readline_buffer)
<1>1. /\ ~Delimited /\ cuts < MaxCuts
      /\ cuts' = cuts + 1 /\ result' = "failed" /\ reply' = NoReply /\ failures' = 0
  BY DEF CutText
<1>2. PICK n \in 0..NR_LINES :
        /\ readline_buffer' = Appended(SubSeq(Text, 1, n))
        /\ IF n = 0 /\ rest # NoLine THEN UNCHANGED rest
           ELSE rest' \in {NoLine} \cup (IF n < NR_LINES THEN Beginnings(n) ELSE {})
  BY DEF CutText
<1> DEFINE text == SubSeq(Text, 1, n)
<1>3. /\ readline_buffer \in Seq(Lines) /\ cuts \in 0..MaxCuts /\ m \in Nat /\ m <= 10 * cuts
      /\ rest \in Lines /\ InFields(readline_buffer) /\ CutInv
  BY DEF TextInv, TypeOKText, LengthInv, NR_LINES
<1>4. n \in 0..10 /\ n \in 0..(NR_LINES + 1)
  BY DEF NR_LINES
<1>5. /\ Joins(text) /\ Len(text) = n
      /\ \A i \in 1..n : text[i] = LineOf(i - 1) /\ text[i] # Blank
  <2>1. Joins(text) /\ Len(text) = n /\ \A i \in 1..n : text[i] = Text[i]
    BY <1>4, BeginningJoins
  <2> HIDE DEF text
  <2> QED BY <1>4, <2>1, WholeTextLines, LinesOfText DEF NR_LINES
<1> HIDE DEF text
<1>6. /\ readline_buffer' \in Seq(Lines) /\ Len(readline_buffer') = m + n
      /\ \A i \in 1..m : readline_buffer'[i] = readline_buffer[i]
      /\ \A i \in 1..n : readline_buffer'[m + i] =
                           IF i = 1 /\ rest # NoLine THEN rest ELSE text[i]
  BY <1>2, <1>3, <1>5, JoinedLines DEF text
<1>7. InFields(readline_buffer)'
  BY <1>2, <1>5, AppendedInFields DEF TextInv, text
<1> HIDE DEF m
<1>8. ASSUME n = 0, rest # NoLine
      PROVE  rest' \in Lines /\ CutInv' /\ ~Delimited'
  <2>1. readline_buffer' = readline_buffer /\ rest' = rest
    <3>1. Len(readline_buffer') = Len(readline_buffer)
      BY <1>3, <1>6, <1>8 DEF m
    <3>2. \A i \in 1..Len(readline_buffer) : readline_buffer'[i] = readline_buffer[i]
      BY <1>6 DEF m
    <3> QED BY <1>2, <1>3, <1>6, <1>8, <3>1, <3>2, SeqEqual
  <2>2. ~Delimited'
    BY <1>1, <2>1 DEF Delimited
  <2>3. CutInv'
    BY <1>3, <2>1 DEF CutInv
  <2> QED BY <1>3, <2>1, <2>2, <2>3
<1>9. ASSUME ~(n = 0 /\ rest # NoLine)
      PROVE  rest' \in Lines /\ CutInv' /\ ~Delimited'
  <2>1. rest' = NoLine \/ (n < NR_LINES /\ rest' \in Beginnings(n))
    BY <1>2, <1>9
  <2>2. rest' \in Lines
    BY <2>1, <1>4, LinesOfText DEF Beginnings, Line, Lines, NR_LINES
  <2>3. rest' # Blank /\ (HasNumber(rest') => rest'.field = n /\ n \in Decoded)
    BY <2>1, <2>2, BeginningsOfLines
  <2>4. CutInv'
    <3>1. ASSUME HasNumber(rest'), readline_buffer' # <<>>
          PROVE  Follows(readline_buffer'[Len(readline_buffer')], rest')
      <4>1. n \in 3..9 /\ rest'.field = n
        BY <2>3, <3>1 DEF Decoded, MIN_DISTANCE, RPM
      <4>2. readline_buffer'[m + n] = LineOf(n - 1)
        BY <1>5, <1>6, <4>1
      <4>3. LineOf(n - 1).field = n - 1
        BY <4>1, LinesOfText DEF NR_LINES
      <4> QED BY <1>6, <4>1, <4>2, <4>3 DEF Follows
    <3> QED BY <2>3, <3>1 DEF CutInv, Follows
  <2>5. ~Delimited'
    <3> SUFFICES ASSUME NEW i \in 2..(m + n) PROVE readline_buffer'[i] # Blank
      BY <1>6 DEF Delimited
    <3>1. CASE i <= m
      BY <1>1, <1>3, <1>6, <3>1 DEF Delimited, m
    <3>2. CASE i > m
      <4>1. i - m \in 1..n /\ m + (i - m) = i
        BY <1>3, <1>4, <3>2
      <4>2. readline_buffer'[i] = rest \/ readline_buffer'[i] = text[i - m]
        BY <1>6, <4>1
      <4> QED BY <1>3, <1>5, <4>1, <4>2 DEF CutInv
    <3> QED BY <1>3, <1>4, <3>1, <3>2
  <2> QED BY <2>2, <2>4, <2>5
<1>10. rest' \in Lines /\ CutInv' /\ ~Delimited'
  BY <1>8, <1>9
<1>11. TypeOKText'
  <2>1. cuts' \in 0..MaxCuts
    BY <1>1, <1>3, CutsAssumption
  <2>2. reply' \in [Decoded -> Lines]
    BY <1>1, LinesOfText DEF NoReply
  <2> QED BY <1>1, <1>6, <1>10, <2>1, <2>2 DEF TypeOKText
<1>12. LengthInv'
  BY <1>1, <1>3, <1>4, <1>6 DEF LengthInv, NR_LINES
<1>13. LeftInv' /\ HealInv' /\ FieldsAreTheSensors'
  BY <1>1, <1>10 DEF LeftInv, HealInv, FieldsAreTheSensors
<1>14. TextHeals'
  BY <1>1, <1>3 DEF TextHeals
<1> QED BY <1>7, <1>10, <1>11, <1>12, <1>13, <1>14 DEF TextInv

LEMMA TextStep == TextInv /\ [TextNext]_textVars => TextInv'
<1> SUFFICES ASSUME TextInv, [TextNext]_textVars PROVE TextInv'
  OBVIOUS
<1>1. CASE UNCHANGED textVars
  <2>1. /\ readline_buffer' = readline_buffer /\ rest' = rest /\ cuts' = cuts
        /\ result' = result /\ reply' = reply /\ failures' = failures
    BY <1>1 DEF textVars
  <2> QED BY <2>1 DEF TextInv, TypeOKText, InFields, CutInv, LengthInv, LeftInv, Delimited,
        HealInv, FieldsAreTheSensors, TextHeals
<1> QED BY <1>1, StaleKeepsInv, WholeKeepsInv, RefusedKeepsInv, CutKeepsInv DEF TextNext

LEMMA TextInvariant == TextSpec => []TextInv
<1> QED BY TextInitially, TextStep, PTL DEF TextSpec

\* The buffer and the reply of the text command keep their types.
THEOREM TextTyped == TextSpec => []TypeOKText
<1>1. TextInv => TypeOKText BY DEF TextInv
<1> QED BY <1>1, TextInvariant, PTL

\* PPWorker::decode, over a readline_buffer_ that nothing clears: a reply that
\* is returned has the sensor's numbers, each in its own field, however many
\* texts were cut before it and wherever.
THEOREM FieldsAlwaysTheSensors == TextSpec => []FieldsAreTheSensors
<1>1. TextInv => FieldsAreTheSensors BY DEF TextInv
<1> QED BY <1>1, TextInvariant, PTL

\* getPPReply() over the same buffer: once texts come whole, no more commands
\* fail in a row than texts were cut, and one.
THEOREM TextAlwaysHeals == TextSpec => []TextHeals
<1>1. TextInv => TextHeals BY DEF TextInv
<1> QED BY <1>1, TextInvariant, PTL

----------------------------------------------------------------------------
(* The five of them beside each other *)

\* What MCAlgorithms explores is each component by its own specification: what
\* is proved of one of them holds of its part of every behaviour.
THEOREM PartsByThemselves ==
  AlgorithmsSpec => Spec /\ StreamSpec /\ ClockSpec /\ AreasSpec /\ TextSpec
<1>1. AlgorithmsInit => Init /\ StreamInit /\ ClockInit /\ AreasInit /\ TextInit
  BY DEF AlgorithmsInit
<1>2. [AlgorithmsNext]_<<part, vars, streamVars, clockVars, areaVars, textVars>>
        => /\ [Next]_vars /\ [StreamNext]_streamVars /\ [ClockNext]_clockVars
           /\ [AreasNext]_areaVars /\ [TextNext]_textVars
  BY DEF AlgorithmsNext
<1> QED BY <1>1, <1>2, PTL
    DEF AlgorithmsSpec, Spec, StreamSpec, ClockSpec, AreasSpec, TextSpec

\* Every component of the five keeps its types whatever the others are.
THEOREM PartsTyped == AlgorithmsSpec => []TypeOKParts
<1>1. TypeOK /\ TypeOKStream /\ TypeOKClock /\ TypeOKAreas /\ TypeOKText => TypeOKParts
  BY DEF TypeOKParts
<1> QED BY <1>1, PartsByThemselves, ParamsTyped, StreamTyped, ClockTyped, AreasTyped,
      TextTyped, PTL

=============================================================================
