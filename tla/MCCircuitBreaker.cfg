SPECIFICATION FairSpec
CONSTANTS
  Callers = {g1, g2, g3}
  MaxRequests = 2
  Timeout = 1
  Interval = 2
  ReadyToTrip <- ConsecutiveAtLeast
  Threshold = 2
  Span = 4
  MaxClock = 6
INVARIANTS
  IInv
  NeverWedged
  TrialBudget
  OpenPeriodEnds
  TripEvidenceIsRecent
PROPERTIES
  OpenHoldsForTimeout
  HalfOpenResolves
