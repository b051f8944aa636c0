SPECIFICATION VastSpec
CONSTANTS
  NoJobFile = NoJobFile
  Jobs = {j1, j2}
  NoJob = NoJob
  Staged = {j2}
  DirectJobs = {j2}
  Workers = {w}
  Clients = {d}
  Ids = {1, 2}
  MaxStartups = 2
  MaxRetries <- OneRetry
  MaxFaults = 3
  Probes = {a, b}
  PyworkerJobs = {t}
  Known = Known
  MaxServerless = 2
INVARIANTS
  VastTypeOK
  SweepLeavesNothing
  TidyProbeLeavesNothing
  ProbeOkLeavesNothing
  DeploymentFailsItsJobs
PROPERTIES
  AuditedSuccessLeavesNothing
  ReaperSparesFirstAttempt
  DeploymentSpared
CHECK_DEADLOCK FALSE
