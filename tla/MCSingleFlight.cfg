SPECIFICATION FairSpec
CONSTANTS
  Callers = {g1, g2, g3}
  Keys = {get, head, post}
  Cacheable = {get, head}
  Cancelable = {g1}
  Panicking = {g1}
  Flights = {f1, f2, f3}
  None = None
INVARIANTS
  IInv
  OneOwnerPerKey
  ListedFlightIsOwned
  SharersHaveAnOwner
  AnswersTheRequest
PROPERTY RequestsReturn
