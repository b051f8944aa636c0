SPECIFICATION Spec
CONSTANTS
  Jobs = {1, 2}
  gpu = gpu
  p1 = p1
  p2 = p2
  w1 = w1
  w2 = w2
  o1 = o1
  fatal = fatal
  transient = transient
  Providers <- OneProvider
  Profiles = {gpu}
  Profile <- MCProfile
  AutoProvider = AutoProvider
  Requested <- FirstAuto
  NoProvider = NoProvider
  ErrorClasses = {fatal}
  RetryableClasses = {}
  NoError = NoError
  MaxAttempts <- NoRetries
  Limit <- LimitOne
  Workers = {w1}
  Operators = {o1}
  Clients = {}
  Routes <- RouteMayFail
  Operations = {"enqueue", "enqueue_again", "cancel", "cancel_group", "force_cancel", "retry", "replan", "intake", "plan_intake"}
  Group <- MCGroup
  Key <- MCKey
  Mortal = {w1, o1}
  NoWorker = NoWorker
  MaxLate = 2
INVARIANTS TypeOK CapacityRespected RunningIsLogged
PROPERTIES PoolSpec
