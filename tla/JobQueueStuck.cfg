\* Fail's read-then-write against a sibling's lease: two goroutines of the local pool (one identity) and one agent.
CONSTANTS
  a = a
  b = b
  e1 = e1
  e2 = e2
  e3 = e3
  free = free
  bound = bound
  NoKey = NoKey
  NoOwner = NoOwner
  Keys = {free, bound}
  Owners = {a, b}
  Executors = {e1, e2, e3}
  RemoteExecutors = {e3}
  OwnerOf <- PoolOwnerOf
  AffinityOf <- KeyAffinity
  PriorityOf <- KeyPriority
  MaxJobs = 1
  MaxAttempts = 2
  MaxRetries = 0
  LeaseLen = 2
  RetryCap = 2
SPECIFICATION Spec
INVARIANTS
  QueuedHasAttempts
