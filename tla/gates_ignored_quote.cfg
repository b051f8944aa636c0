SPECIFICATION GatesSpec
CONSTANTS
  AnyProvider = AnyProvider
  Nobody = Nobody
  Asks = {1, 2, 3}
  Providers <- MCProviders
  Request <- MCRequest
  Region <- MCRegion
  Served <- MCServed
  Models <- MCModels
  Tiers <- MCTiers
  MaxStartup <- MCMaxStartup
  Startup <- MCStartup
  MaxBurst = 5
  AllowedRefs <- MCRefs
  MultiGpu = {"runpod"}
  Resident = {"ollama"}
  Images <- MCImages
  Budget <- MCBudget
  Limit <- LimitOne
  MinSamples = 2
  OpenPercent = 80
  Probed = {"modal"}
  ProbeLog = 1
  Flighty = {"runpod"}
  Handled = {}
  MaxProbes = 1
INVARIANTS QuotedRunsWhereQuoted
CHECK_DEADLOCK FALSE
