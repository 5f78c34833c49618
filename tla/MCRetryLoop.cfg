SPECIFICATION FairSpec
CONSTANTS
  Configs <- SomeConfigs
  Errors <- SomeErrors
  Span = 1024
  Second = 10
  Grain = 3
CHECK_DEADLOCK FALSE
INVARIANTS
  TypeOK
  WaitsAreCapped
  WaitsFollowTheFormula
  ServerIsObeyed
  OutcomeIsAccountedFor
PROPERTY LoopReturns
