\* A request, a cancel and a command on one ledger, with a failed write or a restart.
CONSTANTS
  r1 = r1
  r2 = r2
  c1 = c1
  p1 = p1
  b1 = b1
  NoOne = NoOne
  Actors = {r1, c1, p1}
  Requests = {r1}
  Cancels = {c1}
  Commands = {p1}
  Browsers = {}
  IssuedBy <- NoPage
  Disabled = {}
  Required = TRUE
  SignManifests = TRUE
  HistoryScan = 3
  MaxRev = 0
  MaxFaults = 1
SPECIFICATION FairSpec
INVARIANTS
  LedgerChained
  SettledCheckpointIsHead
  RunsOnRecord
PROPERTIES
  CheckpointAdvances
  AuditSpec
  NoHandlerHangs
CHECK_DEADLOCK FALSE
