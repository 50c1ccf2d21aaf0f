SPECIFICATION AlgorithmsSpec
CONSTANTS
  FirstLimit = 0
  LastLimit = 6
  FrontStep = 3
  Parts = 3
  Angles <- MCAngles
  Ranges = 7
  ForeignSizes <- MCForeign
  Wrap = 8
  WarpLimit = 1
  Settling = 2
  Periods = {1, 3, 7}
  Offsets = {0, 1, 2, 5}
  MaxTime = 24
  LastNumber = 3
  LastType = 1
  Reference = 0
  MaxCuts = 3
INVARIANTS
  TypeOKParts
  FieldWithinLimits
  RequestIsCovered
  ResynchronisesInTen
  PacketFitsBuffer
  DecodedIsOwnReply
  WarpIsReal
  AreasAreTheSensors
  TopicsShowReported
  PointsAreOfAppliedArea
  FieldsAreTheSensors
  TextHeals
PROPERTIES
  ClockFollowsSensor
\* The counter of the sensor stops at MaxTime.
CHECK_DEADLOCK FALSE
