SPECIFICATION FairSpec
CONSTANTS
  Calls = {c1}
  Configs <- GatedClient
  Requests <- TwoRequests
  Outcomes <- PairOutcomes
  Panicking = {c1}
  MaxRetries = 1
  Burst = 1
  MaxRequests = 1
  Timeout = 1
  Interval = 0
  ReadyToTrip <- TripAtOnce
  Span = 2
  MaxClock = 2
CHECK_DEADLOCK FALSE
PROPERTY SlotsComeBack
