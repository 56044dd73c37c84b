SPECIFICATION Spec
CONSTANTS
  MaxCalls = 4
  CanFail = TRUE
INVARIANT FreesWhatIsHeld
INVARIANT NeedsAreHeld
INVARIANT RestHoldsOnlyHandles
\* The calls are bounded.
CHECK_DEADLOCK FALSE
