\* Two agents in two failure domains, with and without the control-plane host.
CONSTANTS
  loc = loc
  a1 = a1
  a2 = a2
  d0 = d0
  d1 = d1
  d2 = d2
  Local = loc
  Agents <- MCAgents
  DomainOf <- MCDomainOf
  Domains <- MCDomains
  DataShards = 2
  ParityShards = 2
  ShardReplication = 1
  MinFailureDomains = 2
  Starts <- MCStarts
  NoJob = NoJob
  MaxFaults = 1
SPECIFICATION ShardsSpec
INVARIANTS
  HealthTrue
PROPERTIES
  OnlyCollectorLoses
  LostShardReturns
  PlacementConverges
  RepairConverges
CHECK_DEADLOCK FALSE
