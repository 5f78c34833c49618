\* After a panic everybody may be waiting for a flight that never ends.
SPECIFICATION FairSpec
CHECK_DEADLOCK FALSE
CONSTANTS
  Callers = {g1, g2}
  Keys = {get}
  Cacheable = {get}
  Cancelable = {g2}
  Panicking = {g1}
  Flights = {f1, f2}
  None = None
PROPERTY CanceledReturns
