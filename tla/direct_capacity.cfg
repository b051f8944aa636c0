\* Three clients with three requests for two providers with one slot each.
SPECIFICATION DirectSpec
CONSTANTS
  Jobs = {1, 2, 3}
  gpu = gpu
  p1 = p1
  p2 = p2
  c1 = c1
  c2 = c2
  c3 = c3
  fatal = fatal
  backpressure = backpressure
  Providers = {p1, p2}
  Profiles = {gpu}
  Profile <- MCProfile
  AutoProvider = AutoProvider
  Requested <- MCRequested
  NoProvider = NoProvider
  ErrorClasses = {fatal, backpressure}
  RetryableClasses = {backpressure}
  NoError = NoError
  MaxAttempts <- MCAttempts
  Limit <- LimitOne
  Workers = {}
  Operators = {}
  Clients = {c1, c2, c3}
  NoClient = NoClient
  MortalClients = {c1, c2, c3}
SYMMETRY ClientSymmetry
INVARIANTS DirectTypeOK DirectCapacityRespected SubmittedHoldsSlot
PROPERTIES PoolSpec
CHECK_DEADLOCK FALSE
