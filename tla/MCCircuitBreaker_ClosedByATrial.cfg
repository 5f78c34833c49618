SPECIFICATION Spec
CONSTANTS
  Callers = {g1, g2}
  MaxRequests = 1
  Timeout = 1
  Interval = 0
  ReadyToTrip <- ConsecutiveAtLeast
  Threshold = 1
  Span = 4
  MaxClock = 4
PROPERTY ClosedByATrial
