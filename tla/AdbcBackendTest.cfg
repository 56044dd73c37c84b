SPECIFICATION Spec
CONSTANTS
  MaxCalls = 2
  CanFail = FALSE
INVARIANT NothingLeaks
CHECK_DEADLOCK FALSE
