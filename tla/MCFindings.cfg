SPECIFICATION GSpec
CONSTANTS
  Interfaces = {"en0", "tun0", "tailscale0", "utun3"}
  Tunnels = {"tun0", "tailscale0", "utun3"}
  Hinted = {"tun0", "utun3"}
  Utuns = {"utun3"}
  Numeric = {"quad1"}
  Private = {"intranet"}
  Selections <- Profiles
  Categories <- KindsOf
  Links <- LinksOf
  RouteTables <- RoutesOf
  Lookups <- LookupsOf
  TcpOutcomes <- TcpOf
  ServiceOutcomes <- ServicesOf
  Clocks <- ClocksOf
  Loads <- LoadsOf
  Memories <- MemoriesOf
  Disks <- DisksOf
  Intents <- IntentsOf
INVARIANTS
  NoContradiction
  HealthyOnlyWhenClean
  TroubleIsNotHealthy
  FaultDomainIsExplained
  ScopedProblemIsExplained
