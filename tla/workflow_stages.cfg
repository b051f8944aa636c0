SPECIFICATION FairWorkflowSpec
CONSTANTS
  media = media
  c1 = c1
  c2 = c2
  Unset = Unset
  Classes <- MCClasses
  DefaultClass = "standard"
  Price <- Prices
  Strategies <- MCStrategies
  Rules <- MCRules
  Backends <- MCBackends
  Runtimes <- MCRuntimes
  Authorized <- MCAuthorized
  Passed = {"modal"}
  Observed <- NoObservations
  Catalog <- MCCatalog
  Asked <- MCAsked
  Flows = {media}
  Kind <- MCKind
  Merged <- MCMerged
  Decisions <- MCDecisions
  PlannedMaps <- MCPlannedMaps
  P95 <- MCP95
  JobCost <- MCJobCost
  HardCap <- MCHardCap
  Chunks = 2
  Copies = 2
  Rounds = 1
  Callers = {c1, c2}
  Service = Service
  Operations <- Roles
  Retryable = {"reduce"}
  Mortal = {Service}
INVARIANTS WorkflowTypeOK JobsPerChunk
PROPERTIES FlowsFinish
