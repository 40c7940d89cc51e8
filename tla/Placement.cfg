\* The control-plane host and two agents of one failure domain.
CONSTANTS
  loc = loc
  a1 = a1
  a2 = a2
  dl = dl
  d1 = d1
  None = None
  Relay = Relay
  Local = loc
  Agents = {a1, a2}
  DomainOf <- MCDomainOf
  Rank <- MCRank
  Fickle = {loc, a1}
  Ills = {"tight", "degraded", "offline"}
  Factor = 2
  MinHealthy = 2
  MinDomains = 2
  EvacuateDegraded = TRUE
  Keep = 1
  Large = {1}
  MaxGens = 2
  MaxFaults = 1
SPECIFICATION PlacementSpec

  
  
PROPERTIES
  ImplementsCopies
  BackupsRecur
  PlacementConverges
CHECK_DEADLOCK FALSE
