SPECIFICATION AsyncSpec
CONSTANTS
  Driver <- MCDriver
  MaxConnections = 1
  MaxResultSets = 2
  MaxCursors = 0
  MaxRows = 0
  Client = {c1, c2}
  Request <- OpenAndExecute
  MaxOperations = 2
SYMMETRY Clients
INVARIANT AsyncTypeOK
INVARIANT OperationsOwned
INVARIANT ThreadsTouchLiveObjects
INVARIANT NothingLeftBehind
INVARIANT SucceedsWithOwnHandle
PROPERTY OperationsAreFutures
PROPERTY TablesAsIfSynchronous
\* A program stops once it has destroyed its manager.
CHECK_DEADLOCK FALSE
