SPECIFICATION FairSpec
CONSTANTS
  Packets = {"packet"}
  Texts = {"text"}
  Noise = {"noise"}
  NoFrame = "no frame"
  MaxWire = 2
  MaxQueue = 2
  Settle = TRUE
INVARIANTS
  TypeOK
  OneChain
  LineReadsAlone
  StoppedIsTruthful
PROPERTIES
  ReadsLikeOneReader
