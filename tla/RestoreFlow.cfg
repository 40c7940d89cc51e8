\* Scheduling commands that race, die and get lost answers; restores that are retried.
CONSTANTS
  nodeA = nodeA
  nodeB = nodeB
  e1 = e1
  e2 = e2
  onA = onA
  onB = onB
  req = req
  ann = ann
  bob = bob
  s1 = s1
  s2 = s2
  NoKey = NoKey
  NoOwner = NoOwner
  Nobody = Nobody
  Keys = {onA, onB}
  Owners = {nodeA, nodeB}
  Executors = {e1, e2}
  RemoteExecutors = {e1, e2}
  OwnerOf <- NodeOf
  AffinityOf <- KeyAffinity
  PriorityOf <- KeyPriority
  ApprovalOf <- KeyApproval
  Approvals = {req}
  Requesters = {ann, bob}
  Approvers = {ann, bob}
  Sessions = {s1, s2}
  ApprovalTTL = 2
  MaxJobs = 2
  MaxAttempts = 2
  MaxRetries = 1
  LeaseLen = 1
  RetryCap = 1
SPECIFICATION RestoreSpec
INVARIANTS
  TwoPeopleBehindEveryRestore
  ConsumedBySuccess
PROPERTIES
  ConsumedIsFinal
