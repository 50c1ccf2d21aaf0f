SPECIFICATION Spec
CONSTANTS
  ErrorLimit = 1
  MaxFaults = 2
INVARIANT
  Reloops
CHECK_DEADLOCK FALSE
