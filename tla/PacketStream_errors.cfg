SPECIFICATION StreamSpec
CONSTANTS
  ForeignSizes = {12}
INVARIANTS
  ErrorIsReported
