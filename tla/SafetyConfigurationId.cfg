SPECIFICATION FairSpec
CONSTANTS
  Areas = 2
  MaxAsked = 2
  MaxWire = 2
  MaxQueue = 1
  Settle = TRUE
PROPERTIES
  ToolEnds
CHECK_DEADLOCK FALSE
