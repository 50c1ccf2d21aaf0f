SPECIFICATION FairSpec
CONSTANTS
  Streaming = "AR02"
  Areas = 2
  ConfigureAttempts = 1
  MaxFaults = 2
  MaxAsked = 1
  MaxWire = 1
  MaxQueue = 1
  Settle = TRUE
INVARIANTS
  TypeOK
  ReceiverNotRunning
  SharedDataExclusive
  ConfiguredStreams
  NeverStuck
  NoStartupScan
PROPERTIES
  StreamsForGood
