SPECIFICATION FairSpec
CONSTANTS
  Jobs = {1, 2}
  gpu = gpu
  p1 = p1
  p2 = p2
  w1 = w1
  w2 = w2
  o1 = o1
  fatal = fatal
  transient = transient
  Providers <- OneProvider
  Profiles = {gpu}
  Profile <- MCProfile
  AutoProvider = AutoProvider
  Requested <- FirstAuto
  NoProvider = NoProvider
  ErrorClasses = {transient}
  RetryableClasses = {transient}
  NoError = NoError
  MaxAttempts <- OneRetry
  Limit <- LimitOne
  Workers = {w1}
  Operators = {o1}
  Clients = {}
  Routes <- AnyRoute
  Operations = {"intake", "cancel"}
  Group <- MCGroup
  Key <- MCKey
  Mortal = {w1}
  NoWorker = NoWorker
  MaxLate = 2
INVARIANTS RetryBudget
PROPERTIES WaitingSettles
