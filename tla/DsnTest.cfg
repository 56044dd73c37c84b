SPECIFICATION Spec
CONSTANTS
  Token <- MCToken
  Sections <- MCSections
  Settings <- DsnSettings
  Overrides <- NoOverrides
INVARIANT UriReachesDriver
CHECK_DEADLOCK FALSE
