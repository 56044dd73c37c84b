SPECIFICATION Spec
CONSTANTS
  Thread = {t1, t2}
  CallKind <- CAbi
  MaxCalls = 4
INVARIANT TypeOK
INVARIANT NoStaleDriverMessage
INVARIANT UndisturbedReportsAreOwn
\* The calls are bounded.
CHECK_DEADLOCK FALSE
