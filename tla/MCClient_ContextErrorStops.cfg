SPECIFICATION Spec
CONSTANTS
  Calls = {c1}
  Configs <- GatedClient
  Requests <- AllRequests
  Outcomes <- FewOutcomes
  Panicking = {}
  MaxRetries = 2
  Burst = 2
  MaxRequests = 1
  Timeout = 1
  Interval = 0
  ReadyToTrip <- TripAtOnce
  Span = 2
  MaxClock = 4
INVARIANT ContextErrorStops
