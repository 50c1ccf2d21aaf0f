---------------------------- MODULE SynchronizedTime ----------------------------
(***************************************************************************)
(* URGCWrapper::getSynchronizedTime(): a clock for the stamps of scans     *)
(* that advances with the sensor's own counter and follows the system      *)
(* clock by an exponential moving average of the difference of the two.    *)
(* The counter wraps; a difference that is far off is taken for a warp of  *)
(* a clock and starts everything anew.                                     *)
(*                                                                         *)
(* Time is counted in milliseconds.  The average is kept as what matters   *)
(* of it, a value on the way from the old one to the new difference.       *)
(***************************************************************************)
EXTENDS Integers

CONSTANTS
  Wrap,       \* the counter's period, 2^24 ms
  WarpLimit,  \* 100 ms
  Settling,   \* 100 scans before the clock is used
  Periods,    \* times between two scans
  Offsets,    \* what the system clock may be ahead of the sensor's when a scan
              \* is stamped, its latency and jitter included
  MaxTime     \* bound: the age of the sensor

ASSUME ClockAssumption ==
  /\ Wrap \in Nat /\ WarpLimit \in Nat /\ Settling \in Nat /\ MaxTime \in Nat
  /\ Periods \subseteq 0..(Wrap - 1) /\ Offsets \subseteq Int

VARIABLES
  age,      \* the time since the sensor was started
  counter,  \* its counter, which is the age until it wraps
  hardware_clock, last_hardware_time_stamp, hardware_clock_adj, adj_count,
  offsets,  \* the least and the greatest offset since the average was begun
  warped    \* the last scan was taken for a clock warp

filter    == <<hardware_clock, last_hardware_time_stamp, hardware_clock_adj, adj_count>>
clockVars == <<age, counter, filter, offsets, warped>>

----------------------------------------------------------------------------
\* The sensor's counter.
Advance(period) ==
  IF counter + period < Wrap THEN counter + period ELSE counter + period - Wrap

\* Mutant: the difference is not masked.
DifferenceUnmasked(t1, t0) == t1 - t0

\* mask & (t1 - t0)
Difference(t1, t0) == IF t0 <= t1 THEN t1 - t0 ELSE t1 - t0 + Wrap

Between(a, b)  == IF a < b THEN a..b ELSE b..a
Distance(a, b) == IF a < b THEN b - a ELSE a - b

Widened(offset) ==
  IF adj_count = 0 THEN [least |-> offset, greatest |-> offset]
  ELSE [least |-> IF offset < offsets.least THEN offset ELSE offsets.least,
        greatest |-> IF offset > offsets.greatest THEN offset ELSE offsets.greatest]

----------------------------------------------------------------------------
TypeOKClock ==
  /\ age \in Nat /\ counter \in 0..(Wrap - 1)
  /\ hardware_clock \in Nat /\ last_hardware_time_stamp \in 0..(Wrap - 1)
  /\ hardware_clock_adj \in Int /\ adj_count \in Nat
  /\ offsets \in [least : Int, greatest : Int] /\ warped \in BOOLEAN

\* initialize(): the sensor may have been on for any time.
Fresh ==
  /\ hardware_clock = 0 /\ last_hardware_time_stamp = 0
  /\ hardware_clock_adj = 0 /\ adj_count = 0

ClockInit ==
  /\ age \in 0..(Wrap - 1) /\ counter = age /\ Fresh
  /\ offsets = [least |-> 0, greatest |-> 0] /\ warped = FALSE

\* Mutant: the average starts from its last value.
AverageNeverBegun(difference) == Between(hardware_clock_adj, difference)

\* adj_alpha_ is 0.01; the first difference is the first average.
Average(difference) ==
  IF adj_count > 0 THEN Between(hardware_clock_adj, difference) ELSE {difference}

\* getSynchronizedTime() for the next scan, stamped by both clocks.
SynchronizedScan(period, offset) ==
  LET t1     == Advance(period)
      clock  == hardware_clock + Difference(t1, last_hardware_time_stamp)
      system == age + period + offset
  IN /\ age' = age + period /\ counter' = t1 /\ offsets' = Widened(offset)
     /\ hardware_clock_adj' \in Average(system - clock)
     /\ warped' = (adj_count + 1 > Settling
                     /\ Distance(clock + hardware_clock_adj', system) > WarpLimit)
     /\ hardware_clock' = IF warped' THEN 0 ELSE clock
     /\ last_hardware_time_stamp' = IF warped' THEN 0 ELSE t1
     /\ adj_count' = IF warped' THEN 0 ELSE adj_count + 1

StampedScan ==
  \E period \in Periods, offset \in Offsets :
    age + period <= MaxTime /\ SynchronizedScan(period, offset)

\* The node gives the wrapper up and connects again, perhaps to a sensor that
\* was off in between.
Reconnected ==
  /\ adj_count > 0 /\ age' \in {0, age}
  /\ counter' = IF age' = age THEN counter ELSE 0
  /\ hardware_clock' = 0 /\ last_hardware_time_stamp' = 0
  /\ hardware_clock_adj' = 0 /\ adj_count' = 0
  /\ warped' = FALSE /\ UNCHANGED offsets

ClockNext == StampedScan \/ Reconnected

ClockSpec == ClockInit /\ [][ClockNext]_clockVars

----------------------------------------------------------------------------
(* Properties *)

\* "hokuyo uses a 24-bit counter, so mask out irrelevant bits": between two
\* scans of one clock the hardware clock advances by the time that has passed,
\* also when the counter wraps in between.
ClockFollowsSensor ==
  [][adj_count > 0 /\ adj_count' > 0 => hardware_clock' - hardware_clock = age' - age]_clockVars

\* "If the time error is large a clock warp has occurred": a warp is seen only
\* when the two clocks have moved against each other by more than the limit
\* since the average was begun; no wrap and no restart of it looks like one.
WarpIsReal == warped => offsets.greatest - offsets.least > WarpLimit

=============================================================================
