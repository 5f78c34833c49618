SPECIFICATION Spec
CONSTANTS
  Clients = {c1}
  UserHTTP = {h}
  Transports = {t}
  Middlewares = {sf, rc}
  Groups = {sf}
  Caches = {rc}
  Timeouts = {1, 2}
  Default = 3
  UserTimeout = 4
  DefaultTransport = default
  None = None
  Options <- SomeOptions
  MaxOptions = 3
  Probes <- SomeProbes
  Statuses = {200, 404, 500}
  NoHost = NoHost
CHECK_DEADLOCK FALSE
INVARIANT LaterTimeoutWins
