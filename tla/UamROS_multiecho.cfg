SPECIFICATION FairSpec
CONSTANTS
  Streaming = "AR07"
  Areas = 2
  ConfigureAttempts = 1
  MaxFaults = 1
  MaxAsked = 1
  MaxWire = 1
  MaxQueue = 1
  Settle = TRUE
PROPERTIES
  Recovers
