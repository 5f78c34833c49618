SPECIFICATION FairSpec
CONSTANTS
  Clients = {c1}
  UserHTTP = {h}
  Transports = {t}
  Middlewares = {sf}
  Groups = {sf}
  Caches = {}
  Timeouts = {1, 2}
  Default = 3
  UserTimeout = 4
  DefaultTransport = default
  None = None
  Options <- OneGroup
  MaxOptions = 1
  Probes <- SomeProbes
  Statuses = {200, 404, 500}
  NoHost = NoHost
CHECK_DEADLOCK FALSE
PROPERTY ProbeIsBounded
