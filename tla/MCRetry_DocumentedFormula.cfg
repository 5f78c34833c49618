SPECIFICATION FairSpec
CONSTANTS
  Configs <- Shrinking
  Errors <- SomeErrors
  Span = 1024
  Second = 10
  Grain = 3
CHECK_DEADLOCK FALSE
INVARIANT DocumentedFormula
