\* The local worker and an agent, crashes, late and lost reports.
CONSTANTS
  a = a
  b = b
  e1 = e1
  e2 = e2
  e3 = e3
  free = free
  bound = bound
  NoKey = NoKey
  NoOwner = NoOwner
  Keys = {free, bound}
  Owners = {a, b}
  Executors = {e1, e2}
  RemoteExecutors = {e2}
  OwnerOf <- AgentsOwnerOf
  AffinityOf <- KeyAffinity
  PriorityOf <- KeyPriority
  MaxJobs = 2
  MaxAttempts = 2
  MaxRetries = 1
  LeaseLen = 2
  RetryCap = 2
SPECIFICATION FairSpec
INVARIANTS
  TypeOK
  OneActivePerKey
  AffinityRespected
  LeaseExclusive
  QueuedHasAttempts
PROPERTIES
  TerminalIsFinal
  EveryJobSettles
