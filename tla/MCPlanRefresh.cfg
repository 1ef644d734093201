SPECIFICATION RefreshSpec
CONSTANTS
  Extras = {{}, {"storage"}, {"dns"}}
  FaultAreas = {"dns", "vpn", "local_host", "upstream_network", "local_network", "internet_edge", "healthy"}
  MaxSelections = 2
INVARIANTS
  EveryAnswerSetDecides
  EnforcedRunIsInBounds
  AdditionsAreRun
  PlanFollowsSelection
PROPERTY CarriedChecksAreRun
