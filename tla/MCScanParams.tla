----------------------------- MODULE MCScanParams -----------------------------
(* ScanParams on a sensor of seven steps, with angles at, between and beyond *)
(* the steps on both sides.                                                  *)
EXTENDS ScanParams

MCAngles == -11..11
=============================================================================
