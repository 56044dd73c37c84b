SPECIFICATION Spec
CONSTANTS
  MaxCalls = 3
  Thread = {t1, t2}
  Main = main
  None = none
INVARIANT OnlyOverlapsHurt
PROPERTY PromisesSettle
\* A program makes a bounded number of calls.
CHECK_DEADLOCK FALSE
