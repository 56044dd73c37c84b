SPECIFICATION FairSpec
CONSTANTS
  Driver <- MCDriver
  MaxConnections = 2
  MaxResultSets = 2
  MaxCursors = 1
  MaxRows = 1
INVARIANT TypeOK
INVARIANT NothingLost
INVARIANT ChildrenHaveConnection
INVARIANT ConnectionOutlivesChildren
INVARIANT KindsResolve
INVARIANT DeinitClosesAll
PROPERTY StaleIdsStayGone
PROPERTY DrainEnds
\* A program stops once it has destroyed its manager.
CHECK_DEADLOCK FALSE
