SPECIFICATION FairSpec
CONSTANTS
  ErrorLimit = 1
  MaxFaults = 2
INVARIANTS
  TypeOK
  OvertakenOnce
PROPERTIES
  FlagIsHeeded
  StreamsAgain
  NodeEnds
CHECK_DEADLOCK FALSE
