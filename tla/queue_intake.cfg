SPECIFICATION Spec
CONSTANTS
  Jobs = {1, 2, 3}
  gpu = gpu
  p1 = p1
  p2 = p2
  w1 = w1
  w2 = w2
  o1 = o1
  fatal = fatal
  transient = transient
  Providers <- TwoProviders
  Profiles = {gpu}
  Profile <- MCProfile
  AutoProvider = AutoProvider
  Requested <- OneEach
  NoProvider = NoProvider
  ErrorClasses = {fatal}
  RetryableClasses = {}
  NoError = NoError
  MaxAttempts <- NoRetries
  Limit <- LimitOne
  Workers = {w1, w2}
  Operators = {o1}
  Clients = {}
  Routes <- AnyRoute
  Operations = {"intake", "drain"}
  Group <- MCGroup
  Key <- FirstTwo
  Mortal = {w1, w2, o1}
  NoWorker = NoWorker
  MaxLate = 2
SYMMETRY WorkerSymmetry
INVARIANTS DrainBound
PROPERTIES WorkerSparesCommitted UnfinishedBlocksDispatch 
