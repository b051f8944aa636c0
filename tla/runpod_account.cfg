SPECIFICATION RunpodSpec
CONSTANTS
  PodJobs = {p1}
  EndpointJobs = {e1}
  SyncJobs = {e1}
  MaxCommands = 1
  MaxBusy = 2
  MaxFaults = 2
  Unset = Unset
  Silent = Silent
  Tiny = {"tiny"}
  Artifacts <- MCArtifacts
  Specs <- MCSpecs
INVARIANTS
  RunpodTypeOK
  SucceededPodStopped
  AuditedPodRemoved
  TidyJobLeavesNoRequest
  FailedCommandLeavesNoEndpoint
  AcceptedIsCold
  ProbeOkLeavesNoEndpoint
PROPERTIES
  ConfiguredEndpointSpared
CHECK_DEADLOCK FALSE
