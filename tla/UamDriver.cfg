SPECIFICATION Spec
CONSTANTS
  Queries = {"PP", "VR00", "XR00", "ID00", "YR"}
  Streaming = "AR02"
  MaxAsked = 1
  MaxWire = 2
  MaxQueue = 1
  Settle = TRUE
INVARIANTS
  TypeOK
  ReplyAnswersCommand
  StreamIsKnown
  WaitHasReader
