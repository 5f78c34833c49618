SPECIFICATION Spec
CONSTANTS
  Callers = {g1, g2, g3}
  Keys = {get, post}
  Cacheable = {get}
  TTL = 2
  MaxClock = 4
  None = None
SYMMETRY Symmetry
INVARIANT IInv
PROPERTIES
  ReadsAreBounded
  FreshEntriesStay
