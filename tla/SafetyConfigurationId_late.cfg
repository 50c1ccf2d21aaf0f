SPECIFICATION Spec
CONSTANTS
  Areas = 2
  MaxAsked = 2
  MaxWire = 2
  MaxQueue = 1
  Settle = TRUE
INVARIANTS
  CrcsOfSafetyAreas
CHECK_DEADLOCK FALSE
