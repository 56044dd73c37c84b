SPECIFICATION Spec
CONSTANTS
  Thread = {t1}
  CallKind <- MetadataOnly
  MaxCalls = 1
INVARIANT ManagerErrorHasMessage
CHECK_DEADLOCK FALSE
