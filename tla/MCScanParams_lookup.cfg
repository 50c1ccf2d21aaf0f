SPECIFICATION Spec
CONSTANTS
  FirstLimit = 0
  LastLimit = 6
  FrontStep = 3
  Parts = 3
  Angles <- MCAngles
  Ranges = 7
INVARIANTS
  LookupCoversScan
