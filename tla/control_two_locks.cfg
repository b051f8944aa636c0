SPECIFICATION ControlSpec
CONSTANTS
  Jobs = {1, 2}
  gpu = gpu
  p1 = p1
  w1 = w1
  o1 = o1
  c1 = c1
  fatal = fatal
  backpressure = backpressure
  Providers = {p1}
  Profiles = {gpu}
  Profile <- MCProfile
  AutoProvider = AutoProvider
  Requested <- MCRequested
  NoProvider = NoProvider
  ErrorClasses = {fatal, backpressure}
  RetryableClasses = {backpressure}
  NoError = NoError
  MaxAttempts <- NoRetries
  Limit <- LimitOne
  Workers = {w1}
  Operators = {o1}
  Clients = {c1}
  Routes <- MCRoutes
  Operations = {"enqueue"}
  Group <- MCGroup
  Key <- MCKey
  Mortal = {}
  NoWorker = NoWorker
  MaxLate = 0
  NoClient = NoClient
  MortalClients = {}
INVARIANTS CapacityRespected
