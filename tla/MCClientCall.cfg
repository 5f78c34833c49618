SPECIFICATION FairSpec
CONSTANTS
  Calls = {c1}
  Configs <- SomeClients
  Requests <- AllRequests
  Outcomes <- AllOutcomes
  Panicking = {}
  MaxRetries = 2
  Burst = 2
  MaxRequests = 1
  Timeout = 1
  Interval = 0
  ReadyToTrip <- TripAtOnce
  Span = 2
  MaxClock = 3
INVARIANTS
  TypeOK
  SendBound
  ResultIsTruthful
  AtMostOneLateRequest
PROPERTIES
  OpensOnFailureOnly
  CallsReturn
