SPECIFICATION Spec
CONSTANTS
  Calls <- TwoCalls
  MayFail = FALSE
  Depth = 2
INVARIANTS
  OwnResult
CHECK_DEADLOCK FALSE
