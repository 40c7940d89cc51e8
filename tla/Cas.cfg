\* One node: compaction, collection, scrub, erasure and tiering over two payloads.
CONSTANTS
  p1 = p1
  p2 = p2
  o1 = o1
  o2 = o2
  c1 = c1
  None = None
  Paths = {p1, p2}
  Objects = {o1}
  Ingesters = {c1}
  Inodes = {1, 2, 3}
  DataShards = 2
  ParityShards = 1
  SampleObjects = 2
  Beside = FALSE
  MaxWrites = 2
  MaxFaults = 1
SPECIFICATION CasSpec
INVARIANTS
  DeliversUntilRot
PROPERTIES
  RepairsHoldTheObject
  RotHealed
CHECK_DEADLOCK FALSE
