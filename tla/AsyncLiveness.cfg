SPECIFICATION AsyncFairSpec
CONSTANTS
  Driver <- MCDriver
  MaxConnections = 1
  MaxResultSets = 0
  MaxCursors = 1
  MaxRows = 0
  Client = {c1}
  Request <- OpenAndCursor
  MaxOperations = 2
PROPERTY AwaitReturns
PROPERTY DeinitReturns
\* A program stops once it has destroyed its manager.
CHECK_DEADLOCK FALSE
