SPECIFICATION VastSpec
CONSTANTS
  NoJobFile = NoJobFile
  Jobs = {j1, j2}
  NoJob = NoJob
  Staged = {j2}
  DirectJobs = {j2}
  Workers = {w}
  Clients = {d}
  Ids = {1, 2}
  MaxStartups = 2
  MaxRetries <- OneRetry
  MaxFaults = 2
  Probes = {}
  PyworkerJobs = {}
  Known = Known
  MaxServerless = 0
PROPERTY ReaperTakesOrphansOnly
CHECK_DEADLOCK FALSE
