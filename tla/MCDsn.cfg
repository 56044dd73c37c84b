SPECIFICATION Spec
CONSTANTS
  Token <- MCToken
  Sections <- MCSections
  Settings <- MCSettings
  Overrides <- MCOverrides
INVARIANT BindingsAgree
INVARIANT OptionStringIsReadBack
INVARIANT SchemeChoosesDriver
\* A DSN is built and parsed once.
CHECK_DEADLOCK FALSE
