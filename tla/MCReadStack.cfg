SPECIFICATION FairSpec
CONSTANTS
  Callers = {g1, g2}
  Keys = {get}
  Flights = {f1, f2}
  TTL = 2
  None = None
  MaxFlight = 1
  MaxClock = 3
INVARIANTS
  TypeOK
  EntriesExpireInTime
PROPERTIES
  ReadsAreBounded
  CacheGoesForward
  ReadsReturn
