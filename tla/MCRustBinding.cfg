SPECIFICATION RustFairSpec
CONSTANTS
  Driver <- MCDriver
  MaxConnections = 2
  MaxResultSets = 2
  MaxCursors = 1
  MaxRows = 1
  MaxManagers = 2
INVARIANT RustTypeOK
INVARIANT EntriesHaveOwners
INVARIANT LibraryOutlivesHandles
INVARIANT NotFoundMeansConnectionClosed
PROPERTY ManagerSpec
PROPERTY LastDropUnloads
\* A program stops once it has dropped everything.
CHECK_DEADLOCK FALSE
