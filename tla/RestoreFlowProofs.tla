-------------------------- MODULE RestoreFlowProofs --------------------------
(***************************************************************************)
(* Proofs about JobQueue, for every number of keys, rows, executors and    *)
(* identities, and on top of them about RestoreFlow, for any number of     *)
(* requests, routes, commands and retries.  QueueInv needs nothing of      *)
(* OwnerOf; DistinctInv needs that no identity has two executors.          *)
(***************************************************************************)
EXTENDS RestoreFlow, TLAPS

-----------------------------------------------------------------------------
(* The rows of the queue                                                   *)

\* What a back-off is: never negative and never above the ceiling.
LEMMA RetryDelayType == \A n : RetryDelay(n) \in 0 .. RetryCap
  BY QueueAssumption DEF RetryDelay

\* What one unit of time does to a timer.
LEMMA DecType == \A m \in Nat : \A n \in 0 .. m : Dec(n) \in 0 .. m /\ Dec(n) <= n
  BY DEF Dec

\* The reaper either leaves a row alone or ends an expired final attempt.
LEMMA ReapCases ==
  ASSUME NEW r
  PROVE  \/ Reap(r) = r
         \/ /\ r.status = "running" /\ r.left = 0
            /\ Reap(r) = Released(r, "failed", r.delay)
  BY DEF Reap, Expired

\* Rewriting a row keeps it a row.
LEMMA RowTypes ==
  ASSUME NEW r \in JobRow
  PROVE  /\ Older(r) \in JobRow
         /\ Reap(r) \in JobRow
         /\ \A o \in Owners : r.attempts < MaxAttempts => Leased(r, o) \in JobRow
         /\ \A s \in Status, d \in 0 .. RetryCap : Released(r, s, d) \in JobRow
  <1> USE QueueAssumption
  <1>1. Older(r) \in JobRow
    BY DecType DEF Older, JobRow
  <1>2. \A o \in Owners : r.attempts < MaxAttempts => Leased(r, o) \in JobRow
    BY DEF Leased, Status, JobRow
  <1>3. \A s \in Status, d \in 0 .. RetryCap : Released(r, s, d) \in JobRow
    BY DEF Released, JobRow
  <1>4. Reap(r) \in JobRow
    <2>1. "failed" \in Status /\ r.delay \in 0 .. RetryCap
      BY DEF Status, JobRow
    <2> QED
      BY <2>1, <1>3, ReapCases
  <1> QED
    BY <1>1, <1>2, <1>3, <1>4

\* The initial state satisfies the inductive invariant.
LEMMA InitQueueInv == Init => QueueInv
  BY QueueAssumption
  DEF Init, QueueInv, TypeOK, RowsWellFormed, ExecsWellFormed, OneActivePerKey,
      AffinityRespected, AbsentRow, Idle, JobRow, ExecState, Status, JobIds,
      Active, Busy

\* Every step of the queue preserves the types of its columns.
LEMMA NextTypeOK == TypeOK /\ ExecsWellFormed /\ [Next]_vars => TypeOK'
  <1> SUFFICES ASSUME TypeOK, ExecsWellFormed, [Next]_vars PROVE TypeOK'
    OBVIOUS
  <1> USE QueueAssumption
  <1>t. jobs \in [JobIds -> JobRow] /\ exec \in [Executors -> ExecState]
    BY DEF TypeOK
  <1>o. AbsentRow \in JobRow /\ Idle \in ExecState
    BY DEF AbsentRow, Idle, JobRow, ExecState, Status
  <1>1. ASSUME NEW k \in Keys, Enqueue(k) PROVE TypeOK'
    <2>1. QueuedRow(k) \in JobRow
      BY DEF QueuedRow, JobRow, Status
    <2> QED
      BY <1>1, <2>1 DEF Enqueue, TypeOK, JobIds
  <1>2. ASSUME NEW i \in JobIds, RetryJob(i) PROVE TypeOK'
    <2>1. QueuedRow(jobs[i].key) \in JobRow
      BY <1>t DEF QueuedRow, JobRow, Status
    <2> QED
      BY <1>2, <2>1 DEF RetryJob, TypeOK, JobIds
  <1>r. \A j \in JobIds : Reap(jobs[j]) \in JobRow
    BY <1>t, RowTypes
  <1>3. ASSUME NEW e \in Executors, Lease(e) PROVE TypeOK'
    <2> DEFINE o == OwnerOf[e]
    <2>1. PICK i \in Candidates(o) :
            /\ jobs' = [j \in JobIds |->
                          IF j = i THEN Leased(jobs[i], o) ELSE Reap(jobs[j])]
            /\ exec' = [exec EXCEPT ![e] = [phase |-> "running", job |-> i,
                                       attempt |-> jobs[i].attempts + 1,
                                       left |-> LeaseLen, read |-> 0]]
      BY <1>3 DEF Lease
    <2>2. i \in JobIds /\ jobs[i].attempts < MaxAttempts
      BY <2>1 DEF Candidates, Leasable
    <2>3. Leased(jobs[i], o) \in JobRow
      BY <2>2, <1>t, RowTypes
    <2>4. jobs' \in [JobIds -> JobRow]
      BY <2>1, <2>3, <1>r
    <2>5. exec' \in [Executors -> ExecState]
      <3>1. jobs[i].attempts + 1 \in 0 .. MaxAttempts
        BY <2>2, <1>t DEF JobRow
      <3> QED
        BY <2>1, <2>2, <3>1, <1>t DEF ExecState
    <2> QED
      BY <1>3, <2>4, <2>5 DEF Lease, TypeOK
  <1>4. ASSUME NEW e \in Executors, LeaseNothing(e) PROVE TypeOK'
    BY <1>4, <1>r DEF LeaseNothing, TypeOK
  <1>5. ASSUME NEW e \in Executors, Complete(e) PROVE TypeOK'
    <2>1. \A i \in JobIds : Released(jobs[i], "succeeded", jobs[i].delay) \in JobRow
      BY <1>t, RowTypes DEF JobRow, Status
    <2> QED
      BY <1>5, <2>1, <1>o DEF Complete, TypeOK
  <1>6. ASSUME NEW e \in Executors, FailRead(e) PROVE TypeOK'
    <2>1. exec[e].job \in JobIds
      BY <1>6 DEF FailRead, ExecsWellFormed, Busy
    <2>2. jobs[exec[e].job].attempts \in 0 .. MaxAttempts
      BY <2>1, <1>t DEF JobRow
    <2>3. [phase |-> "failing", job |-> exec[e].job, attempt |-> exec[e].attempt,
           left |-> exec[e].left, read |-> jobs[exec[e].job].attempts] \in ExecState
      BY <2>1, <2>2, <1>t DEF ExecState
    <2> QED
      BY <1>6, <2>3, <1>o DEF FailRead, TypeOK
  <1>7. ASSUME NEW e \in Executors, FailWrite(e) PROVE TypeOK'
    <2>1. Backoff(e) \in 0 .. RetryCap /\ 0 \in 0 .. RetryCap
      BY RetryDelayType DEF Backoff
    <2>2. \A i \in JobIds : /\ Released(jobs[i], "failed", 0) \in JobRow
                           /\ Released(jobs[i], "queued", Backoff(e)) \in JobRow
      BY <2>1, <1>t, RowTypes DEF Status
    <2> QED
      BY <1>7, <2>2, <1>o DEF FailWrite, TypeOK
  <1>8. ASSUME NEW e \in Executors, Crash(e) PROVE TypeOK'
    BY <1>8, <1>o DEF Crash, TypeOK
  <1>9. CASE Tick
    <2>1. \A i \in JobIds : Older(jobs[i]) \in JobRow
      BY <1>t, RowTypes
    <2>2. \A e \in Executors : [exec[e] EXCEPT !.left = Dec(@)] \in ExecState
      BY <1>t, DecType, QueueAssumption DEF ExecState
    <2> QED
      BY <1>9, <2>1, <2>2 DEF Tick, TypeOK
  <1>10. CASE UNCHANGED vars
    BY <1>10 DEF vars, TypeOK
  <1> QED
    BY <1>1, <1>2, <1>3, <1>4, <1>5, <1>6, <1>7, <1>8, <1>9, <1>10 DEF Next

-----------------------------------------------------------------------------
(* Rows and executors                                                      *)

\* A step keeps the key of every existing row, and a row once created exists.
LEMMA KeysStay ==
  ASSUME TypeOK, RowsWellFormed, [Next]_vars, NEW i \in JobIds,
         jobs[i].status # "absent"
  PROVE  jobs'[i].key = jobs[i].key /\ jobs'[i].status # "absent"
  <1> USE DEF TypeOK
  <1>r. \A r : Reap(r).key = r.key /\ (r.status # "absent" => Reap(r).status # "absent")
    BY ReapCases DEF Released
  <1>1. ASSUME NEW k \in Keys, Enqueue(k) PROVE jobs'[i] = jobs[i]
    BY <1>1 DEF Enqueue, RowsWellFormed, JobIds
  <1>2. ASSUME NEW j \in JobIds, RetryJob(j)
        PROVE  jobs'[i].key = jobs[i].key /\ jobs'[i].status # "absent"
    BY <1>2 DEF RetryJob, QueuedRow
  <1>3. ASSUME NEW e \in Executors, Lease(e) \/ LeaseNothing(e)
        PROVE  jobs'[i].key = jobs[i].key /\ jobs'[i].status # "absent"
    BY <1>3, <1>r DEF Lease, LeaseNothing, Leased
  <1>4. ASSUME NEW e \in Executors, Complete(e) \/ FailWrite(e)
        PROVE  jobs'[i].key = jobs[i].key /\ jobs'[i].status # "absent"
    BY <1>4 DEF Complete, FailWrite, Released
  <1>5. ASSUME NEW e \in Executors, FailRead(e) \/ Crash(e) PROVE jobs'[i] = jobs[i]
    BY <1>5 DEF FailRead, Crash
  <1>6. CASE Tick
    BY <1>6 DEF Tick, Older
  <1>7. CASE UNCHANGED vars
    BY <1>7 DEF vars
  <1> QED
    BY <1>1, <1>2, <1>3, <1>4, <1>5, <1>6, <1>7 DEF Next

\* Only running rows carry a lease, and only queued ones wait.
LEMMA NextRows ==
  TypeOK /\ RowsWellFormed /\ ExecsWellFormed /\ [Next]_vars => RowsWellFormed'
  <1> SUFFICES ASSUME TypeOK, RowsWellFormed, ExecsWellFormed, [Next]_vars
               PROVE  RowsWellFormed'
    OBVIOUS
  <1> DEFINE Good(i, r) == /\ r.status # "absent" => r.key \in Keys
                           /\ r.status # "running" => r.owner = NoOwner /\ r.left = 0
                           /\ r.status # "queued" => r.delay = 0
                           /\ r.status = "absent" <=> i > created'
  <1> SUFFICES ASSUME NEW i \in JobIds PROVE Good(i, jobs'[i])
    BY DEF RowsWellFormed
  <1> USE QueueAssumption
  <1>t. /\ jobs \in [JobIds -> JobRow]
        /\ jobs[i].status = "absent" <=> i > created
        /\ jobs[i].status # "absent" => jobs[i].key \in Keys
        /\ jobs[i].status # "running" => jobs[i].owner = NoOwner /\ jobs[i].left = 0
        /\ jobs[i].status # "queued" => jobs[i].delay = 0
    BY DEF TypeOK, RowsWellFormed
  <1>r. ASSUME created' = created PROVE Good(i, Reap(jobs[i]))
    BY <1>r, <1>t, ReapCases DEF Released
  <1>1. ASSUME NEW k \in Keys, Enqueue(k) PROVE Good(i, jobs'[i])
    BY <1>1, <1>t DEF Enqueue, QueuedRow, JobIds, TypeOK
  <1>2. ASSUME NEW j \in JobIds, RetryJob(j) PROVE Good(i, jobs'[i])
    BY <1>2, <1>t DEF RetryJob, QueuedRow, RowsWellFormed
  <1>3. ASSUME NEW e \in Executors, Lease(e) PROVE Good(i, jobs'[i])
    <2>1. PICK c \in Candidates(OwnerOf[e]) :
            jobs' = [j \in JobIds |->
                       IF j = c THEN Leased(jobs[c], OwnerOf[e]) ELSE Reap(jobs[j])]
      BY <1>3 DEF Lease
    <2>2. created' = created
      BY <1>3 DEF Lease
    <2>3. CASE i = c
      <3>1. jobs[i].delay = 0 /\ jobs[i].status # "absent"
        BY <2>1, <2>3 DEF Candidates, Leasable, Expired
      <3> QED
        BY <2>1, <2>2, <2>3, <3>1, <1>t DEF Leased
    <2> QED
      BY <2>1, <2>2, <2>3, <1>r
  <1>4. ASSUME NEW e \in Executors, LeaseNothing(e) PROVE Good(i, jobs'[i])
    BY <1>4, <1>r DEF LeaseNothing
  <1>5. ASSUME NEW e \in Executors, Complete(e) PROVE Good(i, jobs'[i])
    BY <1>5, <1>t DEF Complete, Released, LeasedBy
  <1>6. ASSUME NEW e \in Executors, FailRead(e) \/ Crash(e) PROVE Good(i, jobs'[i])
    BY <1>6, <1>t DEF FailRead, Crash
  <1>7. ASSUME NEW e \in Executors, FailWrite(e) PROVE Good(i, jobs'[i])
    BY <1>7, <1>t DEF FailWrite, Released, LeasedBy
  <1>8. CASE Tick
    BY <1>8, <1>t DEF Tick, Older, Dec
  <1>9. CASE UNCHANGED vars
    BY <1>9, <1>t DEF vars
  <1> QED
    BY <1>1, <1>2, <1>3, <1>4, <1>5, <1>6, <1>7, <1>8, <1>9 DEF Next

\* A busy executor's job, and the row it stands for, after a step.
LEMMA BusyStays ==
  ASSUME TypeOK, ExecsWellFormed, [Next]_vars, NEW e \in Executors, Busy(e)'
  PROVE  \/ Busy(e) /\ exec'[e].job = exec[e].job
         \/ /\ Lease(e)
            /\ exec'[e].job \in Candidates(OwnerOf[e])
  <1>t. exec \in [Executors -> ExecState]
    BY DEF TypeOK
  <1> USE <1>t DEF Busy
  <1>1. ASSUME NEW f \in Executors, Lease(f)
        PROVE  \/ Busy(e) /\ exec'[e].job = exec[e].job
               \/ Lease(e) /\ exec'[e].job \in Candidates(OwnerOf[e])
    <2>1. PICK i \in Candidates(OwnerOf[f]) :
            exec' = [exec EXCEPT ![f] = [phase |-> "running", job |-> i,
                                         attempt |-> jobs[i].attempts + 1,
                                         left |-> LeaseLen, read |-> 0]]
      BY <1>1 DEF Lease
    <2>2. CASE f = e
      <3>1. exec'[e].job = i
        BY <2>1, <2>2
      <3> QED
        BY <1>1, <2>1, <2>2, <3>1
    <2>3. CASE f # e
      BY <2>1, <2>3
    <2> QED
      BY <2>2, <2>3
  <1>2. ASSUME NEW f \in Executors,
               Complete(f) \/ FailWrite(f) \/ Crash(f) \/ FailRead(f) \/ LeaseNothing(f)
        PROVE  Busy(e) /\ exec'[e].job = exec[e].job
    <2>1. exec' = exec \/ exec' = [exec EXCEPT ![f] = Idle] \/ FailRead(f)
      BY <1>2 DEF Complete, FailWrite, Crash, LeaseNothing
    <2>2. CASE exec' = exec \/ exec' = [exec EXCEPT ![f] = Idle]
      BY <2>2 DEF Idle
    <2>3. CASE FailRead(f)
      BY <2>3 DEF FailRead, Idle
    <2> QED
      BY <2>1, <2>2, <2>3
  <1>3. ASSUME (\E k \in Keys : Enqueue(k)) \/ (\E i \in JobIds : RetryJob(i))
               \/ UNCHANGED vars
        PROVE  Busy(e) /\ exec'[e].job = exec[e].job
    BY <1>3 DEF Enqueue, RetryJob, vars
  <1>4. CASE Tick
    BY <1>4 DEF Tick, ExecState
  <1> QED
    BY <1>1, <1>2, <1>3, <1>4 DEF Next

\* Executors hold existing rows.
LEMMA NextExecs ==
  TypeOK /\ RowsWellFormed /\ ExecsWellFormed /\ [Next]_vars => ExecsWellFormed'
  <1> SUFFICES ASSUME TypeOK, RowsWellFormed, ExecsWellFormed, [Next]_vars,
                      NEW e \in Executors, Busy(e)'
               PROVE  exec'[e].job \in JobIds /\ jobs'[exec'[e].job].status # "absent"
    BY DEF ExecsWellFormed
  <1>1. exec'[e].job \in JobIds /\ jobs[exec'[e].job].status # "absent"
    BY BusyStays DEF ExecsWellFormed, Candidates, Leasable, Expired
  <1> QED
    BY <1>1, KeysStay

\* Path-bound work stays on its node.
LEMMA NextAffinity ==
  QueueInv /\ [Next]_vars => AffinityRespected'
  <1> SUFFICES ASSUME QueueInv, [Next]_vars, NEW e \in Executors, Busy(e)'
               PROVE  AffinityOf[jobs'[exec'[e].job].key] \in {NoOwner, OwnerOf[e]}
    BY DEF AffinityRespected
  <1> USE DEF QueueInv
  <1>1. exec'[e].job \in JobIds /\ jobs[exec'[e].job].status # "absent"
    BY BusyStays DEF ExecsWellFormed, Candidates, Leasable, Expired
  <1>2. AffinityOf[jobs[exec'[e].job].key] \in {NoOwner, OwnerOf[e]}
    BY BusyStays DEF AffinityRespected, Candidates, Leasable
  <1> QED
    BY <1>1, <1>2, KeysStay

\* No key becomes active twice.
LEMMA NextOneActive ==
  QueueInv /\ [Next]_vars => OneActivePerKey'
  <1> SUFFICES ASSUME QueueInv, [Next]_vars PROVE OneActivePerKey'
    OBVIOUS
  <1> USE DEF QueueInv, TypeOK
  <1>w. ASSUME \A i \in JobIds : Active(i)' => Active(i) /\ jobs'[i].key = jobs[i].key
        PROVE  OneActivePerKey'
    BY <1>w DEF OneActivePerKey
  <1>1. ASSUME NEW k \in Keys, Enqueue(k) PROVE OneActivePerKey'
    BY <1>1 DEF Enqueue, HasActive, QueuedRow, OneActivePerKey, Active
  <1>2. ASSUME NEW j \in JobIds, RetryJob(j) PROVE OneActivePerKey'
    BY <1>2 DEF RetryJob, HasActive, QueuedRow, OneActivePerKey, Active
  <1>r. \A r : Reap(r).key = r.key /\
               (Reap(r).status \in {"queued", "running"} => r.status \in {"queued", "running"})
    BY ReapCases DEF Released
  <1>3. ASSUME NEW e \in Executors, Lease(e) PROVE OneActivePerKey'
    BY <1>3, <1>r, <1>w DEF Lease, Leased, Active, Candidates, Leasable, Expired
  <1>4. ASSUME NEW e \in Executors, LeaseNothing(e) PROVE OneActivePerKey'
    BY <1>4, <1>r, <1>w DEF LeaseNothing, Active
  <1>5. ASSUME NEW e \in Executors, Complete(e) PROVE OneActivePerKey'
    BY <1>5, <1>w DEF Complete, Released, LeasedBy, Active
  <1>6. ASSUME NEW e \in Executors, FailRead(e) \/ Crash(e) PROVE OneActivePerKey'
    BY <1>6, <1>w DEF FailRead, Crash, Active
  <1>7. ASSUME NEW e \in Executors, FailWrite(e) PROVE OneActivePerKey'
    BY <1>7, <1>w DEF FailWrite, Released, LeasedBy, Active
  <1>8. CASE Tick
    BY <1>8, <1>w DEF Tick, Older, Active
  <1>9. CASE UNCHANGED vars
    BY <1>9, <1>w DEF vars, Active
  <1> QED
    BY <1>1, <1>2, <1>3, <1>4, <1>5, <1>6, <1>7, <1>8, <1>9 DEF Next

\* The queue's inductive invariant holds in every reachable state, whoever
\* shares an identity with whom.
THEOREM QueueInvariant == Spec => []QueueInv
  <1>1. QueueInv /\ [Next]_vars => QueueInv'
    BY NextTypeOK, NextRows, NextExecs, NextOneActive, NextAffinity DEF QueueInv
  <1> QED
    BY InitQueueInv, <1>1, PTL DEF Spec

\* Columns keep their types: in particular no lease is ever granted beyond
\* max_attempts and no timer exceeds its configured length.
THEOREM TypeCorrect == Spec => []TypeOK
  <1>1. QueueInv => TypeOK
    BY DEF QueueInv
  <1> QED
    BY QueueInvariant, <1>1, PTL

\* No two active jobs share (kind, target, affinity).
THEOREM NoDuplicateWork == Spec => []OneActivePerKey
  <1>1. QueueInv => OneActivePerKey
    BY DEF QueueInv
  <1> QED
    BY QueueInvariant, <1>1, PTL

\* Path-bound work is only held by executors of its node.
THEOREM WorkStaysOnItsNode == Spec => []AffinityRespected
  <1>1. QueueInv => AffinityRespected
    BY DEF QueueInv
  <1> QED
    BY QueueInvariant, <1>1, PTL

-----------------------------------------------------------------------------
(* Terminal rows                                                           *)

\* A step that changes a terminal row is a retry of a failed one.
LEMMA NextTerminal ==
  ASSUME QueueInv, [Next]_vars, NEW i \in JobIds
  PROVE  /\ jobs[i].status = "succeeded" => jobs'[i] = jobs[i]
         /\ jobs[i].status = "failed" /\ jobs'[i].status # "failed" =>
              /\ jobs'[i].status = "queued"
              /\ jobs'[i].attempts = 0
              /\ retries' = retries + 1
  <1> SUFFICES ASSUME jobs[i].status \in {"succeeded", "failed"}
               PROVE  \/ jobs'[i] = jobs[i]
                      \/ /\ jobs[i].status = "failed"
                         /\ jobs'[i].status = "queued"
                         /\ jobs'[i].attempts = 0
                         /\ retries' = retries + 1
    OBVIOUS
  <1>t. /\ jobs \in [JobIds -> JobRow]
        /\ jobs[i].delay = 0 /\ jobs[i].left = 0 /\ i <= created
    BY DEF QueueInv, TypeOK, RowsWellFormed, JobIds
  <1>r. Reap(jobs[i]) = jobs[i]
    BY DEF Reap, Expired
  <1>1. ASSUME NEW k \in Keys, Enqueue(k) PROVE jobs'[i] = jobs[i]
    BY <1>1, <1>t DEF Enqueue, JobIds, QueueInv, TypeOK
  <1>2. ASSUME NEW j \in JobIds, RetryJob(j)
        PROVE  \/ jobs'[i] = jobs[i]
               \/ /\ jobs[i].status = "failed"
                  /\ jobs'[i].status = "queued"
                  /\ jobs'[i].attempts = 0
                  /\ retries' = retries + 1
    BY <1>2, <1>t DEF RetryJob, QueuedRow
  <1>3. ASSUME NEW e \in Executors, Lease(e) PROVE jobs'[i] = jobs[i]
    BY <1>3, <1>t, <1>r DEF Lease, Candidates, Leasable, Expired
  <1>4. ASSUME NEW e \in Executors, LeaseNothing(e) PROVE jobs'[i] = jobs[i]
    BY <1>4, <1>r DEF LeaseNothing
  <1>5. ASSUME NEW e \in Executors, Complete(e) PROVE jobs'[i] = jobs[i]
    BY <1>5, <1>t DEF Complete, LeasedBy
  <1>6. ASSUME NEW e \in Executors, FailRead(e) \/ Crash(e) PROVE jobs'[i] = jobs[i]
    BY <1>6 DEF FailRead, Crash
  <1>7. ASSUME NEW e \in Executors, FailWrite(e) PROVE jobs'[i] = jobs[i]
    BY <1>7, <1>t DEF FailWrite, LeasedBy
  <1>8. CASE Tick
    <2>1. jobs'[i] = Older(jobs[i])
      BY <1>8 DEF Tick
    <2> QED
      BY <2>1, <1>t DEF Older, Dec, JobRow
  <1>9. CASE UNCHANGED vars
    BY <1>9 DEF vars
  <1> QED
    BY <1>1, <1>2, <1>3, <1>4, <1>5, <1>6, <1>7, <1>8, <1>9 DEF Next

\* No late report, poll or expiry touches a terminal job; only an operator's
\* retry re-opens a failed one.
THEOREM TerminalJobsAreFinal == Spec => TerminalIsFinal
  <1>1. QueueInv /\ [Next]_vars =>
          [\A i \in JobIds :
             /\ jobs[i].status = "succeeded" => jobs'[i] = jobs[i]
             /\ jobs[i].status = "failed" /\ jobs'[i].status # "failed" =>
                  /\ jobs'[i].status = "queued"
                  /\ jobs'[i].attempts = 0
                  /\ retries' = retries + 1]_vars
    BY NextTerminal
  <1> QED
    BY QueueInvariant, <1>1, PTL DEF Spec, TerminalIsFinal

-----------------------------------------------------------------------------
(* Leases when no identity has two executors                               *)

\* What LeaseIsOwn and LeaseIsHeld say of one executor.
Own(e) ==
  Busy(e) /\ LeasedBy(exec[e].job, OwnerOf[e]) =>
    /\ jobs[exec[e].job].attempts = exec[e].attempt
    /\ exec[e].phase = "failing" => exec[e].read = exec[e].attempt

Held(e) ==
  InLease(e) => /\ LeasedBy(exec[e].job, OwnerOf[e])
                /\ jobs[exec[e].job].left = exec[e].left

\* A step that neither touches an executor nor the row it holds keeps both.
LEMMA Untouched ==
  ASSUME NEW e \in Executors, Own(e), Held(e), exec'[e] = exec[e],
         Busy(e) => jobs'[exec[e].job] = jobs[exec[e].job]
  PROVE  Own(e)' /\ Held(e)'
  BY DEF Own, Held, Busy, InLease, LeasedBy

\* Releasing the row under an executor keeps both, when it is not in its lease.
LEMMA Withdrawn ==
  ASSUME NEW e \in Executors, exec'[e] = exec[e], ~InLease(e),
         Busy(e) => jobs'[exec[e].job].status # "running"
                      \/ jobs'[exec[e].job].owner # OwnerOf[e]
  PROVE  Own(e)' /\ Held(e)'
  BY DEF Own, Held, Busy, InLease, LeasedBy

\* An executor that went idle holds nothing.
LEMMA WentIdle ==
  ASSUME NEW e \in Executors, exec'[e] = Idle
  PROVE  Own(e)' /\ Held(e)'
  BY DEF Own, Held, Busy, InLease, Idle

\* Every step keeps the lease of every executor its own and held.
LEMMA NextLeases ==
  ASSUME QueueInv, DistinctOwners, [Next]_vars,
         \A d \in Executors : Own(d) /\ Held(d),
         NEW e \in Executors
  PROVE  Own(e)' /\ Held(e)'
  <1>t. /\ jobs \in [JobIds -> JobRow]
        /\ exec \in [Executors -> ExecState]
        /\ created \in 0 .. MaxJobs
    BY DEF QueueInv, TypeOK
  <1>j. Busy(e) => exec[e].job \in JobIds /\ jobs[exec[e].job].status # "absent"
    BY DEF QueueInv, ExecsWellFormed
  <1>1. ASSUME NEW k \in Keys, Enqueue(k) PROVE Own(e)' /\ Held(e)'
    <2>1. Busy(e) => exec[e].job # created + 1
      BY <1>j, <1>t DEF QueueInv, RowsWellFormed
    <2> QED
      BY <1>1, <2>1, <1>j, <1>t, Untouched DEF Enqueue
  <1>2. ASSUME NEW i \in JobIds, RetryJob(i) PROVE Own(e)' /\ Held(e)'
    <2>1. CASE Busy(e) /\ exec[e].job = i
      <3>1. ~InLease(e)
        BY <1>2, <2>1 DEF RetryJob, Held, LeasedBy
      <3>2. jobs'[i].status = "queued" /\ exec' = exec
        BY <1>2, <1>t DEF RetryJob, QueuedRow
      <3> QED
        BY <2>1, <3>1, <3>2, Withdrawn
    <2>2. CASE ~(Busy(e) /\ exec[e].job = i)
      BY <1>2, <2>2, <1>j, <1>t, Untouched DEF RetryJob
    <2> QED
      BY <2>1, <2>2
  \* A row that the reaper visits is untouched, or expired.
  <1>r. ASSUME exec'[e] = exec[e], Busy(e) => jobs'[exec[e].job] = Reap(jobs[exec[e].job])
        PROVE  Own(e)' /\ Held(e)'
    <2>1. CASE Busy(e) => jobs'[exec[e].job] = jobs[exec[e].job]
      BY <1>r, <2>1, Untouched
    <2>2. CASE Busy(e) /\ jobs'[exec[e].job] # jobs[exec[e].job]
      <3>1. /\ jobs[exec[e].job].left = 0
            /\ jobs'[exec[e].job].status # "running"
        BY <1>r, <2>2, ReapCases DEF Released
      <3>2. ~InLease(e)
        BY <3>1 DEF Held, InLease
      <3> QED
        BY <1>r, <3>1, <3>2, Withdrawn
    <2> QED
      BY <2>1, <2>2
  <1>3. ASSUME NEW f \in Executors, Lease(f) PROVE Own(e)' /\ Held(e)'
    <2>1. PICK c \in Candidates(OwnerOf[f]) :
            /\ jobs' = [j \in JobIds |->
                          IF j = c THEN Leased(jobs[c], OwnerOf[f]) ELSE Reap(jobs[j])]
            /\ exec' = [exec EXCEPT ![f] = [phase |-> "running", job |-> c,
                                       attempt |-> jobs[c].attempts + 1,
                                       left |-> LeaseLen, read |-> 0]]
      BY <1>3 DEF Lease
    <2>2. c \in JobIds /\ (jobs[c].status = "queued" \/ jobs[c].left = 0)
      BY <2>1 DEF Candidates, Leasable, Expired
    <2>3. /\ jobs'[c].status = "running" /\ jobs'[c].owner = OwnerOf[f]
          /\ jobs'[c].attempts = jobs[c].attempts + 1 /\ jobs'[c].left = LeaseLen
      BY <2>1, <2>2 DEF Leased
    <2>4. CASE e = f
      <3>1. /\ exec'[e].phase = "running" /\ exec'[e].job = c
            /\ exec'[e].attempt = jobs[c].attempts + 1 /\ exec'[e].left = LeaseLen
        BY <2>1, <2>4, <1>t
      <3> QED
        BY <2>3, <2>4, <3>1 DEF Own, Held, Busy, InLease, LeasedBy
    <2>5. CASE e # f /\ Busy(e) /\ exec[e].job = c
      <3>1. ~InLease(e)
        BY <2>2, <2>5 DEF Held, InLease, LeasedBy
      <3>2. OwnerOf[f] # OwnerOf[e]
        BY <2>5 DEF DistinctOwners
      <3>3. exec'[e] = exec[e]
        BY <2>1, <2>5, <1>t
      <3> QED
        BY <2>3, <2>5, <3>1, <3>2, <3>3, Withdrawn
    <2>6. CASE e # f /\ ~(Busy(e) /\ exec[e].job = c)
      <3>1. exec'[e] = exec[e]
        BY <2>1, <2>6, <1>t
      <3>2. Busy(e) => jobs'[exec[e].job] = Reap(jobs[exec[e].job])
        BY <2>1, <2>6, <1>j
      <3> QED
        BY <3>1, <3>2, <1>r
    <2> QED
      BY <2>4, <2>5, <2>6
  <1>4. ASSUME NEW f \in Executors, LeaseNothing(f) PROVE Own(e)' /\ Held(e)'
    BY <1>4, <1>j, <1>r DEF LeaseNothing
  \* A result of another executor: by DistinctOwners it cannot be for a row
  \* that is leased to e.
  <1>c. ASSUME NEW f \in Executors, f # e, exec[f].job \in JobIds, exec'[e] = exec[e],
               \/ jobs' = jobs
               \/ /\ LeasedBy(exec[f].job, OwnerOf[f])
                  /\ \E s \in Status \ {"running"}, d \in 0 .. RetryCap :
                       jobs' = [jobs EXCEPT ![exec[f].job] =
                                              Released(jobs[exec[f].job], s, d)]
        PROVE  Own(e)' /\ Held(e)'
    <2>1. CASE Busy(e) => jobs'[exec[e].job] = jobs[exec[e].job]
      BY <1>c, <2>1, Untouched
    <2>2. CASE Busy(e) /\ jobs'[exec[e].job] # jobs[exec[e].job]
      <3>1. exec[e].job = exec[f].job /\ LeasedBy(exec[f].job, OwnerOf[f])
        BY <1>c, <2>2, <1>j, <1>t
      <3>2. jobs'[exec[e].job].status # "running"
        <4>1. PICK s \in Status \ {"running"}, d \in 0 .. RetryCap :
                jobs' = [jobs EXCEPT ![exec[f].job] = Released(jobs[exec[f].job], s, d)]
          BY <1>c, <2>2
        <4>2. jobs'[exec[e].job] = Released(jobs[exec[f].job], s, d)
          BY <4>1, <3>1, <1>c, <1>t
        <4> QED
          BY <4>1, <4>2 DEF Released
      <3>3. ~InLease(e)
        <4>1. OwnerOf[f] # OwnerOf[e]
          BY <1>c DEF DistinctOwners
        <4> QED
          BY <3>1, <4>1 DEF Held, LeasedBy
      <3> QED
        BY <1>c, <3>2, <3>3, Withdrawn
    <2> QED
      BY <2>1, <2>2
  <1>5. ASSUME NEW f \in Executors, Complete(f) PROVE Own(e)' /\ Held(e)'
    <2>1. exec[f].job \in JobIds
      BY <1>5 DEF Complete, QueueInv, ExecsWellFormed, Busy
    <2>2. "succeeded" \in Status \ {"running"} /\ jobs[exec[f].job].delay \in 0 .. RetryCap
      BY <2>1, <1>t DEF Status, JobRow
    <2>3. CASE f = e
      BY <1>5, <2>3, <1>t, WentIdle DEF Complete
    <2>4. CASE f # e
      BY <1>5, <2>1, <2>2, <2>4, <1>t, <1>c DEF Complete
    <2> QED
      BY <2>3, <2>4
  <1>6. ASSUME NEW f \in Executors, FailRead(f) PROVE Own(e)' /\ Held(e)'
    <2>1. jobs' = jobs
      BY <1>6 DEF FailRead
    <2>2. CASE f # e
      BY <1>6, <2>1, <2>2, <1>t, Untouched DEF FailRead
    <2>3. CASE f = e /\ ~LeasedBy(exec[e].job, OwnerOf[e])
      BY <1>6, <2>3, <1>t, WentIdle DEF FailRead
    <2>4. CASE f = e /\ LeasedBy(exec[e].job, OwnerOf[e])
      <3>1. /\ exec'[e].job = exec[e].job /\ exec'[e].attempt = exec[e].attempt
            /\ exec'[e].left = exec[e].left /\ exec'[e].phase = "failing"
            /\ exec'[e].read = jobs[exec[e].job].attempts
            /\ exec[e].phase = "running"
        BY <1>6, <2>4, <1>t DEF FailRead
      <3> QED
        BY <2>1, <2>4, <3>1 DEF Own, Held, Busy, InLease, LeasedBy
    <2> QED
      BY <2>2, <2>3, <2>4
  <1>7. ASSUME NEW f \in Executors, FailWrite(f) PROVE Own(e)' /\ Held(e)'
    <2>1. exec[f].job \in JobIds
      BY <1>7 DEF FailWrite, QueueInv, ExecsWellFormed, Busy
    <2>2. /\ {"failed", "queued"} \subseteq Status \ {"running"}
          /\ 0 \in 0 .. RetryCap /\ Backoff(f) \in 0 .. RetryCap
      BY RetryDelayType, QueueAssumption DEF Status, Backoff
    <2>3. CASE f = e
      BY <1>7, <2>3, <1>t, WentIdle DEF FailWrite
    <2>4. CASE f # e
      BY <1>7, <2>1, <2>2, <2>4, <1>t, <1>c DEF FailWrite
    <2> QED
      BY <2>3, <2>4
  <1>8. ASSUME NEW f \in Executors, Crash(f) PROVE Own(e)' /\ Held(e)'
    <2>1. CASE f = e
      BY <1>8, <2>1, <1>t, WentIdle DEF Crash
    <2>2. CASE f # e
      BY <1>8, <2>2, <1>t, Untouched DEF Crash
    <2> QED
      BY <2>1, <2>2
  <1>9. CASE Tick
    <2>1. /\ exec'[e].job = exec[e].job /\ exec'[e].attempt = exec[e].attempt
          /\ exec'[e].left = Dec(exec[e].left) /\ exec'[e].phase = exec[e].phase
          /\ exec'[e].read = exec[e].read
      BY <1>9, <1>t DEF Tick, ExecState
    <2>2. Busy(e) => /\ jobs'[exec[e].job].status = jobs[exec[e].job].status
                     /\ jobs'[exec[e].job].owner = jobs[exec[e].job].owner
                     /\ jobs'[exec[e].job].attempts = jobs[exec[e].job].attempts
                     /\ jobs'[exec[e].job].left = Dec(jobs[exec[e].job].left)
      BY <1>9, <1>j DEF Tick, Older
    <2>3. Dec(exec[e].left) > 0 => exec[e].left > 0
      BY <1>t DEF Dec, ExecState
    <2> QED
      BY <2>1, <2>2, <2>3 DEF Own, Held, Busy, InLease, LeasedBy
  <1>10. CASE UNCHANGED vars
    BY <1>10, Untouched DEF vars
  <1> QED
    BY <1>1, <1>2, <1>3, <1>4, <1>5, <1>6, <1>7, <1>8, <1>9, <1>10 DEF Next

\* A requeued row has attempts left.
LEMMA NextQueued ==
  ASSUME QueueInv, LeaseIsOwn, QueuedHasAttempts, [Next]_vars
  PROVE  QueuedHasAttempts'
  <1> SUFFICES ASSUME NEW i \in JobIds, jobs'[i].status = "queued"
               PROVE  jobs'[i].attempts < MaxAttempts
    BY DEF QueuedHasAttempts
  <1>t. jobs \in [JobIds -> JobRow]
    BY DEF QueueInv, TypeOK
  <1>q. jobs[i].status = "queued" => jobs[i].attempts < MaxAttempts
    BY DEF QueuedHasAttempts
  <1>r. Reap(jobs[i]).status = "queued" => Reap(jobs[i]) = jobs[i]
    BY ReapCases DEF Released
  <1>1. ASSUME NEW k \in Keys, Enqueue(k) PROVE jobs'[i].attempts < MaxAttempts
    BY <1>1, <1>t, <1>q, QueueAssumption DEF Enqueue, QueuedRow
  <1>2. ASSUME NEW j \in JobIds, RetryJob(j) PROVE jobs'[i].attempts < MaxAttempts
    BY <1>2, <1>t, <1>q, QueueAssumption DEF RetryJob, QueuedRow
  <1>3. ASSUME NEW e \in Executors, Lease(e) PROVE jobs'[i].attempts < MaxAttempts
    BY <1>3, <1>q, <1>r DEF Lease, Leased
  <1>4. ASSUME NEW e \in Executors, LeaseNothing(e) PROVE jobs'[i].attempts < MaxAttempts
    BY <1>4, <1>q, <1>r DEF LeaseNothing
  <1>5. ASSUME NEW e \in Executors, Complete(e) PROVE jobs'[i].attempts < MaxAttempts
    BY <1>5, <1>t, <1>q DEF Complete, Released
  <1>6. ASSUME NEW e \in Executors, FailRead(e) \/ Crash(e)
        PROVE  jobs'[i].attempts < MaxAttempts
    BY <1>6, <1>q DEF FailRead, Crash
  <1>7. ASSUME NEW e \in Executors, FailWrite(e) PROVE jobs'[i].attempts < MaxAttempts
    <2>1. CASE jobs'[i] = jobs[i]
      BY <2>1, <1>q
    <2>2. CASE jobs'[i] # jobs[i]
      <3>1. /\ exec[e].job = i /\ LeasedBy(i, OwnerOf[e])
            /\ jobs'[i] = IF exec[e].read >= MaxAttempts
                            THEN Released(jobs[i], "failed", 0)
                            ELSE Released(jobs[i], "queued", Backoff(e))
        BY <1>7, <2>2, <1>t DEF FailWrite
      <3>2. exec[e].read = jobs[i].attempts
        BY <1>7, <3>1 DEF LeaseIsOwn, FailWrite, Busy
      <3>3. ~(exec[e].read >= MaxAttempts) /\ jobs'[i].attempts = jobs[i].attempts
        BY <3>1 DEF Released
      <3> QED
        BY <3>2, <3>3, <1>t, QueueAssumption DEF JobRow
    <2> QED
      BY <2>1, <2>2
  <1>8. CASE Tick
    BY <1>8, <1>q DEF Tick, Older
  <1>9. CASE UNCHANGED vars
    BY <1>9, <1>q DEF vars
  <1> QED
    BY <1>1, <1>2, <1>3, <1>4, <1>5, <1>6, <1>7, <1>8, <1>9 DEF Next

\* With one executor per identity, a row leased to an identity is the lease
\* of the executor that presents it, and is held until it expires.
THEOREM DistinctInvariant ==
  ASSUME DistinctOwners
  PROVE  Spec => []DistinctInv
  <1>e. /\ LeaseIsOwn <=> \A e \in Executors : Own(e)
        /\ LeaseIsHeld <=> \A e \in Executors : Held(e)
        /\ LeaseIsOwn' <=> \A e \in Executors : Own(e)'
        /\ LeaseIsHeld' <=> \A e \in Executors : Held(e)'
    BY DEF LeaseIsOwn, LeaseIsHeld, Own, Held
  <1>1. Init => DistinctInv
    BY DEF Init, DistinctInv, LeaseIsOwn, LeaseIsHeld, QueuedHasAttempts, Busy,
           InLease, Idle, AbsentRow
  <1>2. QueueInv /\ DistinctInv /\ [Next]_vars => DistinctInv'
    <2> SUFFICES ASSUME QueueInv, DistinctInv, [Next]_vars PROVE DistinctInv'
      OBVIOUS
    <2>1. LeaseIsOwn' /\ LeaseIsHeld'
      BY <1>e, NextLeases DEF DistinctInv
    <2>2. QueuedHasAttempts'
      BY NextQueued DEF DistinctInv
    <2> QED
      BY <2>1, <2>2 DEF DistinctInv
  <1> QED
    BY <1>1, <1>2, QueueInvariant, PTL DEF Spec

\* With one executor per identity nobody else works on a job before the
\* lease of the one that does has expired.
THEOREM LeasesAreExclusive ==
  ASSUME DistinctOwners
  PROVE  Spec => []LeaseExclusive
  <1>1. DistinctInv => LeaseExclusive
    BY DEF DistinctInv, LeaseIsHeld, LeaseExclusive, LeasedBy, DistinctOwners
  <1> QED
    BY DistinctInvariant, <1>1, PTL

\* With one executor per identity a failed attempt is requeued only while
\* attempts are left, so that no queued job is beyond the reach of Lease.
THEOREM QueuedJobsAreLeasable ==
  ASSUME DistinctOwners
  PROVE  Spec => []QueuedHasAttempts
  <1>1. DistinctInv => QueuedHasAttempts
    BY DEF DistinctInv
  <1> QED
    BY DistinctInvariant, <1>1, PTL

-----------------------------------------------------------------------------
(* A step of the workflow is a step of the queue                           *)

\* Every step of the queue but Complete.
Quiet ==
  \/ \E k \in Keys : Enqueue(k)
  \/ \E i \in JobIds : RetryJob(i)
  \/ \E e \in Executors :
       Lease(e) \/ LeaseNothing(e) \/ FailRead(e) \/ FailWrite(e) \/ Crash(e)
  \/ Tick
  \/ UNCHANGED vars

\* The branch of CompleteRestore that commits: approval and job in one step.
Consumes(e) ==
  LET i == exec[e].job
      a == ApprovalOf[jobs[i].key]
  IN  /\ ran[e] = "ok"
      /\ LeasedBy(i, OwnerOf[e])
      /\ approval[a].status = "scheduled"
      /\ Complete(e)
      /\ approval' = WithStatus(a, "executed")
      /\ UNCHANGED <<session, target>>

\* The workflow moves the queue by the queue's own steps, and completes a job
\* only together with the consumption of its approval.
LEMMA QueueSteps ==
  ASSUME [RestoreNext]_allVars
  PROVE  Quiet \/ \E e \in Executors : Consumes(e)
  <1>1. CASE UNCHANGED allVars
    BY <1>1 DEF allVars, vars, Quiet
  <1>2. ASSUME NEW a \in Approvals, NEW p, CreateRestoreApproval(a, p) \/ ApproveRestore(a, p)
        PROVE  Quiet
    BY <1>2 DEF CreateRestoreApproval, ApproveRestore, Quiet
  <1>3. ASSUME NEW s \in Sessions, NEW a, CheckApproved(s, a) PROVE Quiet
    BY <1>3 DEF CheckApproved, Quiet
  <1>4. ASSUME NEW s \in Sessions, ScheduleRestore(s) \/ ReleaseRestoreSchedule(s) \/ SessionEnds(s)
        PROVE  Quiet
    BY <1>4 DEF ScheduleRestore, ReleaseRestoreSchedule, SessionEnds, Quiet
  <1>5. ASSUME NEW s \in Sessions, NEW k \in Keys, EnqueueRestore(s, k) \/ EnqueueFails(s, k)
        PROVE  Quiet
    BY <1>5 DEF EnqueueRestore, EnqueueFails, Quiet
  <1>6. ASSUME NEW e \in Executors, Poll(e) \/ RunRestore(e) \/ FailRestore(e)
        PROVE  Quiet
    BY <1>6 DEF Poll, RunRestore, FailRestore, Quiet
  <1>7. ASSUME NEW e \in Executors, CompleteRestore(e)
        PROVE  Quiet \/ Consumes(e)
    BY <1>7 DEF CompleteRestore, Consumes, Quiet
  <1>8. ASSUME NEW i \in JobIds, Retry(i) PROVE Quiet
    BY <1>8 DEF Retry, Quiet
  <1>9. CASE RestoreTick
    BY <1>9 DEF RestoreTick, Quiet
  <1> QED
    BY <1>1, <1>2, <1>3, <1>4, <1>5, <1>6, <1>7, <1>8, <1>9 DEF RestoreNext

\* So whatever is proved of the queue's steps holds of the workflow's.
LEMMA QueueNext == [RestoreNext]_allVars => [Next]_vars
  BY QueueSteps DEF Quiet, Consumes, Next

\* The queue's invariant, for the queue inside the workflow.
LEMMA QueueInside == QueueInv /\ [RestoreNext]_allVars => QueueInv'
  BY QueueNext, NextTypeOK, NextRows, NextExecs, NextOneActive, NextAffinity DEF QueueInv

\* Only Complete makes a job succeed.
LEMMA QuietSuccess ==
  ASSUME QueueInv, Quiet, NEW i \in JobIds
  PROVE  Succeeded(i)' <=> Succeeded(i)
  <1>t. jobs \in [JobIds -> JobRow]
    BY DEF QueueInv, TypeOK
  <1> USE DEF Succeeded
  <1>r. Reap(jobs[i]).status = "succeeded" <=> jobs[i].status = "succeeded"
    BY ReapCases DEF Released
  <1>1. ASSUME NEW k \in Keys, Enqueue(k) PROVE Succeeded(i)' <=> Succeeded(i)
    BY <1>1, <1>t DEF Enqueue, QueuedRow, QueueInv, RowsWellFormed, TypeOK
  <1>2. ASSUME NEW j \in JobIds, RetryJob(j) PROVE Succeeded(i)' <=> Succeeded(i)
    BY <1>2, <1>t DEF RetryJob, QueuedRow
  <1>3. ASSUME NEW e \in Executors, Lease(e) PROVE Succeeded(i)' <=> Succeeded(i)
    BY <1>3, <1>r DEF Lease, Leased, Candidates, Leasable, Expired
  <1>4. ASSUME NEW e \in Executors, LeaseNothing(e) PROVE Succeeded(i)' <=> Succeeded(i)
    BY <1>4, <1>r DEF LeaseNothing
  <1>5. ASSUME NEW e \in Executors, FailRead(e) \/ Crash(e)
        PROVE  Succeeded(i)' <=> Succeeded(i)
    BY <1>5 DEF FailRead, Crash
  <1>6. ASSUME NEW e \in Executors, FailWrite(e) PROVE Succeeded(i)' <=> Succeeded(i)
    BY <1>6, <1>t DEF FailWrite, Released, LeasedBy
  <1>7. CASE Tick
    BY <1>7 DEF Tick, Older
  <1>8. CASE UNCHANGED vars
    BY <1>8 DEF vars
  <1> QED
    BY <1>1, <1>2, <1>3, <1>4, <1>5, <1>6, <1>7, <1>8 DEF Quiet

-----------------------------------------------------------------------------
(* The rows of restore_approvals                                           *)

\* What one step may do to the row of a request.
Moves(a) ==
  LET r == approval[a]
      n == approval'[a]
  IN  \/ n.status = r.status /\ n.requestedBy = r.requestedBy /\ n.approvedBy = r.approvedBy
      \/ r.status = "none" /\ n.status = "pending"
      \/ r.status = "pending" /\ n.status = "expired"
      \/ /\ r.status = "pending" /\ n.status = "approved"
         /\ n.approvedBy \in Approvers /\ n.approvedBy # n.requestedBy
      \/ /\ <<r.status, n.status>> \in {<<"approved", "scheduled">>, <<"scheduled", "approved">>,
                                       <<"scheduled", "executed">>}
         /\ n.requestedBy = r.requestedBy /\ n.approvedBy = r.approvedBy

\* A request goes from none to pending, expires or is approved by a second
\* person, and is then reserved, released and consumed; nothing else happens.
LEMMA ApprovalMoves ==
  ASSUME RestoreTypeOK, [RestoreNext]_allVars, NEW a \in Approvals
  PROVE  Moves(a)
  <1>t. approval \in [Approvals -> ApprovalRow]
    BY DEF RestoreTypeOK
  <1> USE <1>t DEF Moves
  <1>1. CASE UNCHANGED approval
    BY <1>1
  <1>2. ASSUME NEW b \in Approvals, NEW p \in Requesters, CreateRestoreApproval(b, p)
        PROVE  Moves(a)
    BY <1>2 DEF CreateRestoreApproval
  <1>3. ASSUME NEW b \in Approvals, NEW p \in Approvers, ApproveRestore(b, p) PROVE Moves(a)
    <2>1. CASE a # b
      BY <1>3, <2>1 DEF ApproveRestore, WithStatus
    <2>2. CASE a = b
      BY <1>3, <2>2 DEF ApproveRestore, WithStatus
    <2> QED
      BY <2>1, <2>2
  <1>4. ASSUME NEW s \in Sessions, ScheduleRestore(s) \/ ReleaseRestoreSchedule(s)
        PROVE  Moves(a)
    BY <1>4 DEF ScheduleRestore, ReleaseRestoreSchedule, WithStatus
  <1>5. ASSUME NEW e \in Executors, CompleteRestore(e) PROVE Moves(a)
    <2>1. CASE UNCHANGED approval
      BY <1>1, <2>1
    <2>2. ASSUME ~ UNCHANGED approval
          PROVE  \E b : approval[b].status = "scheduled" /\ approval' = WithStatus(b, "executed")
      BY <1>5, <2>2 DEF CompleteRestore
    <2>3. ASSUME NEW b, approval[b].status = "scheduled", approval' = WithStatus(b, "executed")
          PROVE  Moves(a)
      <3>1. CASE a = b
        BY <2>3, <3>1 DEF WithStatus
      <3>2. CASE a # b
        BY <2>3, <3>2 DEF WithStatus
      <3> QED
        BY <3>1, <3>2
    <2> QED
      BY <2>1, <2>2, <2>3
  <1>6. CASE RestoreTick
    BY <1>6 DEF RestoreTick
  <1>7. ASSUME NEW s \in Sessions, NEW b, CheckApproved(s, b) PROVE UNCHANGED approval
    BY <1>7 DEF CheckApproved
  <1>8. ASSUME NEW s \in Sessions, SessionEnds(s) PROVE UNCHANGED approval
    BY <1>8 DEF SessionEnds
  <1>9. ASSUME NEW s \in Sessions, NEW k \in Keys, EnqueueRestore(s, k) \/ EnqueueFails(s, k)
        PROVE  UNCHANGED approval
    BY <1>9 DEF EnqueueRestore, EnqueueFails
  <1>10. ASSUME NEW e \in Executors, Poll(e) \/ RunRestore(e) \/ FailRestore(e)
         PROVE  UNCHANGED approval
    BY <1>10 DEF Poll, RunRestore, FailRestore, restoreVars
  <1>11. ASSUME NEW i \in JobIds, Retry(i) PROVE UNCHANGED approval
    BY <1>11 DEF Retry, restoreVars
  <1>12. CASE UNCHANGED allVars
    BY <1>12, <1>1 DEF allVars
  <1> QED
    BY <1>1, <1>2, <1>3, <1>4, <1>5, <1>6, <1>7, <1>8, <1>9, <1>10, <1>11, <1>12
    DEF RestoreNext

\* What is granted stays granted.
LEMMA GrantedStays ==
  ASSUME RestoreTypeOK, [RestoreNext]_allVars, NEW a \in Approvals, Granted(a)
  PROVE  Granted(a)'
  BY ApprovalMoves DEF Moves, Granted

-----------------------------------------------------------------------------
(* Types                                                                   *)

\* The initial state satisfies the inductive invariant.
LEMMA InitRestoreInv == RestoreInit => RestoreInv
  <1> SUFFICES ASSUME RestoreInit PROVE RestoreInv
    OBVIOUS
  <1> USE RestoreAssumption DEF RestoreInit
  <1>1. QueueInv
    BY InitQueueInv
  <1>2. RestoreTypeOK
    BY <1>1 DEF QueueInv, RestoreTypeOK, ApprovalRow, NoApproval, SessionState, Session
  <1>3. GrantInv
    BY DEF GrantInv, Granted, NoApproval, Session, Init, AbsentRow
  <1>4. RanInv
    BY DEF RanInv
  <1>5. ConsumedInv
    BY DEF ConsumedInv, Succeeded, NoApproval, Init, AbsentRow
  <1> QED
    BY <1>1, <1>2, <1>3, <1>4, <1>5 DEF RestoreInv

\* Every step preserves the types of the workflow's columns.
LEMMA NextRestoreType ==
  ASSUME RestoreInv, [RestoreNext]_allVars
  PROVE  RestoreTypeOK'
  <1>t. /\ approval \in [Approvals -> ApprovalRow]
        /\ session \in [Sessions -> SessionState]
        /\ target \in [Keys -> {"missing", "partial", "whole"}]
        /\ ran \in [Executors -> {"no", "ok", "error"}]
    BY DEF RestoreInv, RestoreTypeOK
  <1>q. TypeOK'
    BY QueueInside DEF RestoreInv, QueueInv
  <1> DEFINE Typed == /\ approval' \in [Approvals -> ApprovalRow]
                      /\ session' \in [Sessions -> SessionState]
                      /\ target' \in [Keys -> {"missing", "partial", "whole"}]
                      /\ ran' \in [Executors -> {"no", "ok", "error"}]
  <1> SUFFICES Typed
    BY <1>q DEF RestoreTypeOK
  <1>s. \A a \in Approvals, p \in {"idle", "checked", "reserved", "releasing"} :
          Session(p, a) \in SessionState
    BY DEF Session, SessionState
  <1>w. \A a \in Approvals, v \in {"approved", "scheduled", "executed", "expired"} :
          WithStatus(a, v) \in [Approvals -> ApprovalRow]
    BY <1>t DEF WithStatus, ApprovalRow
  <1>1. ASSUME NEW a \in Approvals, NEW p \in Requesters, CreateRestoreApproval(a, p)
        PROVE  Typed
    BY <1>1, <1>t, RestoreAssumption DEF CreateRestoreApproval, ApprovalRow, People
  <1>2. ASSUME NEW a \in Approvals, NEW p \in Approvers, ApproveRestore(a, p) PROVE Typed
    <2>1. [status |-> "approved", requestedBy |-> approval[a].requestedBy,
           approvedBy |-> p, left |-> approval[a].left] \in ApprovalRow
      BY <1>t DEF ApprovalRow, People
    <2> QED
      BY <1>2, <2>1, <1>t, <1>w DEF ApproveRestore
  <1>3. ASSUME NEW s \in Sessions, NEW a \in Approvals, CheckApproved(s, a) PROVE Typed
    BY <1>3, <1>t, <1>s DEF CheckApproved
  <1>a. \A s \in Sessions : session[s].approval \in Approvals
    BY <1>t DEF SessionState
  <1>4. ASSUME NEW s \in Sessions, ScheduleRestore(s) PROVE Typed
    BY <1>4, <1>t, <1>a, <1>s, <1>w DEF ScheduleRestore
  <1>5. ASSUME NEW s \in Sessions, ReleaseRestoreSchedule(s) \/ SessionEnds(s) PROVE Typed
    BY <1>5, <1>t, <1>a, <1>s, <1>w DEF ReleaseRestoreSchedule, SessionEnds
  <1>6. ASSUME NEW s \in Sessions, NEW k \in Keys, EnqueueRestore(s, k) \/ EnqueueFails(s, k)
        PROVE  Typed
    BY <1>6, <1>t, <1>s, RestoreAssumption DEF EnqueueRestore, EnqueueFails
  <1>7. ASSUME NEW e \in Executors, Poll(e) PROVE Typed
    BY <1>7, <1>t DEF Poll, restoreVars
  <1>8. ASSUME NEW e \in Executors, RunRestore(e) PROVE Typed
    BY <1>8, <1>t DEF RunRestore
  <1>9. ASSUME NEW e \in Executors, CompleteRestore(e) PROVE Typed
    <2>1. exec[e].job \in JobIds /\ ApprovalOf[jobs[exec[e].job].key] \in Approvals
      <3>1. Busy(e)
        BY <1>9 DEF CompleteRestore, Complete, Crash, Busy
      <3> QED
        BY <3>1, RestoreAssumption DEF RestoreInv, QueueInv, ExecsWellFormed, RowsWellFormed
    <2> QED
      BY <1>9, <1>t, <1>w, <2>1 DEF CompleteRestore
  <1>10. ASSUME NEW e \in Executors, FailRestore(e) PROVE Typed
    BY <1>10, <1>t DEF FailRestore
  <1>11. ASSUME NEW i \in JobIds, Retry(i) PROVE Typed
    BY <1>11, <1>t DEF Retry, restoreVars
  <1>12. CASE RestoreTick
    BY <1>12, <1>t, DecType, RestoreAssumption DEF RestoreTick, ApprovalRow
  <1>13. CASE UNCHANGED allVars
    BY <1>13, <1>t DEF allVars
  <1> QED
    BY <1>1, <1>2, <1>3, <1>4, <1>5, <1>6, <1>7, <1>8, <1>9, <1>10, <1>11, <1>12, <1>13
    DEF RestoreNext

-----------------------------------------------------------------------------
(* Who stands behind a restore                                             *)

\* Commands, jobs and targets only ever exist for granted requests.
LEMMA NextGrant ==
  ASSUME RestoreInv, [RestoreNext]_allVars
  PROVE  GrantInv'
  <1> USE RestoreAssumption
  <1>i. RestoreTypeOK /\ GrantInv /\ QueueInv /\ [Next]_vars
    BY QueueNext DEF RestoreInv
  <1>t. /\ session \in [Sessions -> SessionState]
        /\ target \in [Keys -> {"missing", "partial", "whole"}]
        /\ jobs \in [JobIds -> JobRow] /\ created \in 0 .. MaxJobs
    BY <1>i DEF RestoreTypeOK, TypeOK
  <1>1. ASSUME NEW a \in Approvals, Granted(a)'
        PROVE  /\ approval'[a].approvedBy \in Approvers
               /\ approval'[a].approvedBy # approval'[a].requestedBy
    BY <1>1, <1>i, ApprovalMoves DEF Moves, Granted, GrantInv
  <1>2. ASSUME NEW s \in Sessions, session'[s].phase # "idle"
        PROVE  Granted(session[s].approval)'
    <2>1. session'[s].approval \in Approvals /\ Granted(session'[s].approval)
      <3>1. ASSUME session'[s] = session[s]
            PROVE  session'[s].approval \in Approvals /\ Granted(session'[s].approval)
        BY <3>1, <1>2, <1>i, <1>t DEF GrantInv, SessionState
      <3>2. ASSUME NEW z \in Sessions, NEW a \in Approvals, CheckApproved(z, a)
            PROVE  session'[s] = session[s] \/ (session'[s].approval = a /\ Granted(a))
        BY <3>2, <1>t DEF CheckApproved, Session, Granted
      <3>3. ASSUME NEW z \in Sessions, ScheduleRestore(z)
            PROVE  \/ session'[s] = session[s]
                   \/ session'[s].approval = session[s].approval /\ session[s].phase # "idle"
        BY <3>3, <1>t DEF ScheduleRestore, Session
      <3>4. ASSUME NEW z \in Sessions, ReleaseRestoreSchedule(z) \/ SessionEnds(z)
            PROVE  session'[s] = session[s]
        BY <3>4, <1>2, <1>t DEF ReleaseRestoreSchedule, SessionEnds, Session
      <3>5. ASSUME NEW z \in Sessions, NEW k \in Keys, EnqueueRestore(z, k) \/ EnqueueFails(z, k)
            PROVE  \/ session'[s] = session[s]
                   \/ session'[s].approval = session[s].approval /\ session[s].phase # "idle"
        BY <3>5, <1>2, <1>t DEF EnqueueRestore, EnqueueFails, Session
      <3>6. ASSUME NEW a \in Approvals, NEW p, CreateRestoreApproval(a, p) \/ ApproveRestore(a, p)
            PROVE  session'[s] = session[s]
        BY <3>6 DEF CreateRestoreApproval, ApproveRestore
      <3>7. ASSUME NEW e \in Executors,
                   Poll(e) \/ RunRestore(e) \/ CompleteRestore(e) \/ FailRestore(e)
            PROVE  session'[s] = session[s]
        BY <3>7 DEF Poll, RunRestore, CompleteRestore, FailRestore, restoreVars
      <3>8. ASSUME (\E i \in JobIds : Retry(i)) \/ RestoreTick \/ UNCHANGED allVars
            PROVE  session'[s] = session[s]
        BY <3>8 DEF Retry, RestoreTick, restoreVars, allVars
      <3>9. ASSUME session'[s].approval = session[s].approval /\ session[s].phase # "idle"
            PROVE  session'[s].approval \in Approvals /\ Granted(session'[s].approval)
        BY <3>9, <1>i, <1>t DEF GrantInv, SessionState
      <3> QED
        BY <3>1, <3>2, <3>3, <3>4, <3>5, <3>6, <3>7, <3>8, <3>9 DEF RestoreNext
    <2> QED
      BY <2>1, <1>i, GrantedStays DEF Granted
  <1>3. ASSUME NEW i \in JobIds, jobs'[i].status # "absent"
        PROVE  Granted(ApprovalOf[jobs[i].key])'
    <2>1. CASE jobs[i].status # "absent"
      <3>1. jobs'[i].key = jobs[i].key /\ jobs[i].key \in Keys
        BY <2>1, <1>i, KeysStay DEF QueueInv, RowsWellFormed
      <3>2. Granted(ApprovalOf[jobs[i].key])
        BY <2>1, <1>i DEF GrantInv
      <3> QED
        BY <3>1, <3>2, <1>i, GrantedStays DEF Granted
    <2>2. CASE jobs[i].status = "absent"
      <3>1. i > created /\ ~(i > created')
        <4>1. RowsWellFormed'
          BY QueueInside, <1>i DEF QueueInv
        <4> QED
          BY <2>2, <1>3, <1>i, <4>1 DEF QueueInv, RowsWellFormed
      <3>2. created' # created
        BY <3>1
      <3>4. \E s \in Sessions, q \in Keys :
              /\ session[s].phase = "reserved" /\ session[s].approval = ApprovalOf[q]
              /\ Enqueue(q)
        <4>1. ASSUME created' = created PROVE FALSE
          BY <4>1, <3>2
        <4>2. ASSUME NEW s \in Sessions, NEW q \in Keys, EnqueueRestore(s, q) \/ EnqueueFails(s, q)
              PROVE  /\ session[s].phase = "reserved" /\ session[s].approval = ApprovalOf[q]
                     /\ Enqueue(q)
          BY <4>2, <4>1 DEF EnqueueRestore, EnqueueFails, vars
        <4>3. ASSUME NEW a \in Approvals, NEW p, CreateRestoreApproval(a, p) \/ ApproveRestore(a, p)
              PROVE  FALSE
          BY <4>3, <4>1 DEF CreateRestoreApproval, ApproveRestore, vars
        <4>4. ASSUME NEW s \in Sessions, \/ ScheduleRestore(s) \/ ReleaseRestoreSchedule(s)
                                         \/ SessionEnds(s) \/ \E a \in Approvals : CheckApproved(s, a)
              PROVE  FALSE
          BY <4>4, <4>1 DEF ScheduleRestore, ReleaseRestoreSchedule, SessionEnds, CheckApproved, vars
        <4>5. ASSUME NEW e \in Executors,
                     Poll(e) \/ RunRestore(e) \/ CompleteRestore(e) \/ FailRestore(e)
              PROVE  FALSE
          BY <4>5, <4>1 DEF Poll, RunRestore, CompleteRestore, FailRestore, Lease, LeaseNothing,
                            Complete, Crash, FailRead, FailWrite, vars
        <4>6. ASSUME (\E j \in JobIds : Retry(j)) \/ RestoreTick \/ UNCHANGED allVars
              PROVE  FALSE
          BY <4>6, <4>1 DEF Retry, RetryJob, RestoreTick, Tick, allVars
        <4> QED
          BY <4>2, <4>3, <4>4, <4>5, <4>6 DEF RestoreNext
      <3>5. PICK s \in Sessions, q \in Keys :
              /\ session[s].phase = "reserved" /\ session[s].approval = ApprovalOf[q]
              /\ Enqueue(q)
        BY <3>4
      <3>6. i = created + 1 /\ jobs'[i] = QueuedRow(q)
        BY <3>5, <3>1, <1>t DEF Enqueue, JobIds
      <3>7. ApprovalOf[q] \in Approvals /\ Granted(ApprovalOf[q])
        BY <3>5, <1>i DEF GrantInv
      <3>8. Granted(ApprovalOf[q])'
        BY <3>7, <1>i, GrantedStays
      <3> QED
        BY <3>6, <3>8 DEF QueuedRow, Granted
    <2> QED
      BY <2>1, <2>2
  <1>4. ASSUME NEW k \in Keys, target'[k] # "missing" PROVE Granted(ApprovalOf[k])'
    <2>1. Granted(ApprovalOf[k])
      <3>1. CASE target'[k] = target[k]
        BY <3>1, <1>4, <1>i DEF GrantInv
      <3>2. CASE target'[k] # target[k]
        <4>1. PICK e \in Executors : RunRestore(e)
          BY <3>2 DEF RestoreNext, CreateRestoreApproval, ApproveRestore, CheckApproved,
             ScheduleRestore, EnqueueRestore, EnqueueFails, ReleaseRestoreSchedule, SessionEnds,
             Poll, CompleteRestore, FailRestore, Retry, RestoreTick, restoreVars, allVars
        <4>2. jobs[exec[e].job].key = k
          BY <4>1, <3>2, <1>t DEF RunRestore
        <4>3. exec[e].job \in JobIds /\ jobs[exec[e].job].status # "absent"
          BY <4>1, <1>i DEF RunRestore, QueueInv, ExecsWellFormed, Busy
        <4> QED
          BY <4>2, <4>3, <1>i DEF GrantInv
      <3> QED
        BY <3>1, <3>2
    <2> QED
      BY <2>1, <1>i, GrantedStays DEF Granted
  <1> QED
    BY <1>1, <1>2, <1>3, <1>4 DEF GrantInv

-----------------------------------------------------------------------------
(* What a run leaves behind                                                *)

\* A whole target stays whole.
LEMMA WholeStays ==
  ASSUME RestoreInv, [RestoreNext]_allVars, NEW k \in Keys, target[k] = "whole"
  PROVE  target'[k] = "whole"
  <1>t. target \in [Keys -> {"missing", "partial", "whole"}]
    BY DEF RestoreInv, RestoreTypeOK
  <1>1. ASSUME NEW e \in Executors, RunRestore(e) PROVE target'[k] = "whole"
    BY <1>1, <1>t DEF RunRestore
  <1>2. CASE UNCHANGED target
    BY <1>2
  <1>3. UNCHANGED target \/ \E e \in Executors : RunRestore(e)
    BY DEF RestoreNext, CreateRestoreApproval, ApproveRestore, CheckApproved,
       ScheduleRestore, EnqueueRestore, EnqueueFails, ReleaseRestoreSchedule, SessionEnds,
       Poll, CompleteRestore, FailRestore, Retry, RestoreTick, restoreVars, allVars
  <1> QED
    BY <1>1, <1>2, <1>3

\* The result an executor has belongs to the run it is in, and a good result
\* is about a whole target.
LEMMA NextRan ==
  ASSUME RestoreInv, [RestoreNext]_allVars
  PROVE  RanInv'
  <1>i. RanInv /\ QueueInv /\ RestoreTypeOK /\ [Next]_vars
    BY QueueNext DEF RestoreInv
  <1>t. /\ exec \in [Executors -> ExecState] /\ ran \in [Executors -> {"no", "ok", "error"}]
        /\ target \in [Keys -> {"missing", "partial", "whole"}]
    BY <1>i DEF RestoreTypeOK, TypeOK
  <1> SUFFICES ASSUME NEW e \in Executors
               PROVE  /\ ran'[e] # "no" => exec'[e].phase = "running"
                      /\ ran'[e] = "ok" => target'[jobs'[exec'[e].job].key] = "whole"
    BY DEF RanInv
  \* The run goes on, and its row keeps its key.
  <1>k. ASSUME ran'[e] = ran[e], exec'[e].phase = exec[e].phase, exec'[e].job = exec[e].job
        PROVE  /\ ran'[e] # "no" => exec'[e].phase = "running"
               /\ ran'[e] = "ok" => target'[jobs'[exec'[e].job].key] = "whole"
    <2>1. ran'[e] # "no" => exec'[e].phase = "running"
      BY <1>k, <1>i DEF RanInv
    <2>2. ASSUME ran'[e] = "ok" PROVE target'[jobs'[exec'[e].job].key] = "whole"
      <3>1. exec[e].phase = "running" /\ target[jobs[exec[e].job].key] = "whole"
        BY <1>k, <2>2, <1>i DEF RanInv
      <3>2. exec[e].job \in JobIds /\ jobs[exec[e].job].status # "absent"
        BY <3>1, <1>i DEF QueueInv, ExecsWellFormed, Busy
      <3>3. jobs'[exec[e].job].key = jobs[exec[e].job].key /\ jobs[exec[e].job].key \in Keys
        BY <3>2, <1>i, KeysStay DEF QueueInv, RowsWellFormed
      <3> QED
        BY <3>1, <3>3, <1>k, WholeStays
    <2> QED
      BY <2>1, <2>2
  <1>n. ASSUME ran'[e] = "no"
        PROVE  /\ ran'[e] # "no" => exec'[e].phase = "running"
               /\ ran'[e] = "ok" => target'[jobs'[exec'[e].job].key] = "whole"
    BY <1>n
  <1>1. ASSUME UNCHANGED <<exec, ran>>
        PROVE  ran'[e] = ran[e] /\ exec'[e].phase = exec[e].phase /\ exec'[e].job = exec[e].job
    BY <1>1
  <1>2. ASSUME NEW f \in Executors, Poll(f)
        PROVE  \/ ran'[e] = "no"
               \/ ran'[e] = ran[e] /\ exec'[e].phase = exec[e].phase /\ exec'[e].job = exec[e].job
    <2>1. CASE f = e
      BY <1>2, <2>1, <1>i, <1>t DEF Poll, Lease, LeaseNothing, Busy, RanInv, restoreVars
    <2>2. CASE f # e
      BY <1>2, <2>2, <1>t DEF Poll, Lease, LeaseNothing, restoreVars
    <2> QED
      BY <2>1, <2>2
  <1>3. ASSUME NEW f \in Executors, CompleteRestore(f) \/ FailRestore(f)
        PROVE  \/ ran'[e] = "no"
               \/ ran'[e] = ran[e] /\ exec'[e].phase = exec[e].phase /\ exec'[e].job = exec[e].job
    <2>1. CASE f = e
      BY <1>3, <2>1, <1>t DEF CompleteRestore, FailRestore
    <2>2. CASE f # e
      BY <1>3, <2>2, <1>t DEF CompleteRestore, FailRestore, Complete, Crash, FailRead, FailWrite
    <2> QED
      BY <2>1, <2>2
  <1>4. ASSUME NEW f \in Executors, RunRestore(f), f # e
        PROVE  ran'[e] = ran[e] /\ exec'[e].phase = exec[e].phase /\ exec'[e].job = exec[e].job
    BY <1>4, <1>t DEF RunRestore, vars
  <1>5. ASSUME RunRestore(e)
        PROVE  /\ ran'[e] # "no" => exec'[e].phase = "running"
               /\ ran'[e] = "ok" => target'[jobs'[exec'[e].job].key] = "whole"
    <2>1. jobs[exec[e].job].key \in Keys
      BY <1>5, <1>i DEF RunRestore, QueueInv, ExecsWellFormed, RowsWellFormed, Busy
    <2> QED
      BY <1>5, <2>1, <1>t DEF RunRestore, vars
  <1>6. ASSUME NEW a \in Approvals, NEW p, CreateRestoreApproval(a, p) \/ ApproveRestore(a, p)
        PROVE  UNCHANGED <<exec, ran>>
    BY <1>6 DEF CreateRestoreApproval, ApproveRestore, vars
  <1>7. ASSUME NEW s \in Sessions, \/ ScheduleRestore(s) \/ ReleaseRestoreSchedule(s)
                                   \/ SessionEnds(s) \/ \E a \in Approvals : CheckApproved(s, a)
                                   \/ \E k \in Keys : EnqueueRestore(s, k) \/ EnqueueFails(s, k)
        PROVE  UNCHANGED <<exec, ran>>
    BY <1>7 DEF ScheduleRestore, ReleaseRestoreSchedule, SessionEnds, CheckApproved,
                EnqueueRestore, EnqueueFails, Enqueue, vars
  <1>8. ASSUME (\E i \in JobIds : Retry(i)) \/ UNCHANGED allVars PROVE UNCHANGED <<exec, ran>>
    BY <1>8 DEF Retry, RetryJob, restoreVars, allVars
  <1>9. ASSUME RestoreTick
        PROVE  ran'[e] = ran[e] /\ exec'[e].phase = exec[e].phase /\ exec'[e].job = exec[e].job
    BY <1>9, <1>t DEF RestoreTick, Tick, ExecState
  <1> QED
    BY <1>k, <1>n, <1>1, <1>2, <1>3, <1>4, <1>5, <1>6, <1>7, <1>8, <1>9 DEF RestoreNext

-----------------------------------------------------------------------------
(* An approval is consumed by the one success of its jobs                  *)

\* A step that completes nothing leaves the consumption of approvals as it is.
LEMMA QuietConsumed ==
  ASSUME RestoreInv, [RestoreNext]_allVars, Quiet,
         \A a \in Approvals : approval'[a].status = "executed" => approval[a].status = "executed"
  PROVE  ConsumedInv'
  <1>i. ConsumedInv /\ QueueInv /\ RestoreTypeOK /\ [Next]_vars
    BY QueueNext DEF RestoreInv
  <1>1. ASSUME NEW i \in JobIds, Succeeded(i) \/ Succeeded(i)'
        PROVE  /\ Succeeded(i) /\ Succeeded(i)'
               /\ jobs'[i].key = jobs[i].key /\ jobs[i].key \in Keys
    <2>1. Succeeded(i) /\ Succeeded(i)'
      BY <1>1, <1>i, QuietSuccess
    <2> QED
      BY <2>1, <1>i, KeysStay DEF Succeeded, QueueInv, RowsWellFormed
  <1>2. ASSUME NEW i \in JobIds, Succeeded(i)'
        PROVE  /\ approval'[ApprovalOf[jobs'[i].key]].status = "executed"
               /\ target'[jobs'[i].key] = "whole"
    <2>1. /\ approval[ApprovalOf[jobs[i].key]].status = "executed"
          /\ target[jobs[i].key] = "whole"
      BY <1>1, <1>2, <1>i DEF ConsumedInv
    <2>2. ApprovalOf[jobs[i].key] \in Approvals
      BY <1>1, <1>2, RestoreAssumption
    <2>3. approval'[ApprovalOf[jobs[i].key]].status = "executed"
      BY <2>1, <2>2, <1>i, ApprovalMoves DEF Moves
    <2> QED
      BY <2>1, <2>3, <1>1, <1>2, WholeStays
  <1>3. \A i, j \in JobIds :
          Succeeded(i)' /\ Succeeded(j)' /\ ApprovalOf[jobs'[i].key] = ApprovalOf[jobs'[j].key]
          => i = j
    BY <1>1, <1>i DEF ConsumedInv
  <1>4. \A a \in Approvals : approval'[a].status = "executed" =>
          \E i \in JobIds : Succeeded(i)' /\ ApprovalOf[jobs'[i].key] = a
    BY <1>1, <1>i DEF ConsumedInv
  <1> QED
    BY <1>2, <1>3, <1>4 DEF ConsumedInv

\* The step that consumes an approval makes the first and only success of it.
LEMMA CompleteConsumed ==
  ASSUME RestoreInv, [RestoreNext]_allVars, NEW e \in Executors, Consumes(e)
  PROVE  ConsumedInv'
  <1>i. ConsumedInv /\ QueueInv /\ RestoreTypeOK /\ [Next]_vars /\ RanInv
    BY QueueNext DEF RestoreInv
  <1>t. jobs \in [JobIds -> JobRow] /\ approval \in [Approvals -> ApprovalRow]
    BY <1>i DEF RestoreTypeOK, TypeOK
  <1>1. PICK c \in JobIds, b \in Approvals :
          c = exec[e].job /\ jobs[c].key \in Keys /\ b = ApprovalOf[jobs[c].key]
    BY <1>i, RestoreAssumption
    DEF Consumes, Complete, QueueInv, ExecsWellFormed, RowsWellFormed, Busy
  <1>2. jobs' = [jobs EXCEPT ![c] = Released(jobs[c], "succeeded", jobs[c].delay)]
    BY <1>1 DEF Consumes, Complete
  <1>3. Succeeded(c)' /\ jobs'[c].key = jobs[c].key
    BY <1>1, <1>2, <1>t DEF Released, Succeeded
  <1>4. \A i \in JobIds \ {c} : jobs'[i] = jobs[i]
    BY <1>2, <1>t
  <1>5. approval'[b].status = "executed" /\ approval[b].status = "scheduled"
    BY <1>1, <1>t DEF Consumes, WithStatus
  <1>6. \A a \in Approvals \ {b} : approval'[a] = approval[a]
    BY <1>1, <1>t DEF Consumes, WithStatus
  <1>7. target' = target /\ target[jobs[c].key] = "whole"
    BY <1>1, <1>i DEF Consumes, RanInv
  <1>8. ASSUME NEW i \in JobIds \ {c}, Succeeded(i)'
        PROVE  /\ Succeeded(i) /\ jobs'[i].key = jobs[i].key
               /\ ApprovalOf[jobs[i].key] \in Approvals \ {b}
    <2>1. Succeeded(i)
      BY <1>4, <1>8 DEF Succeeded
    <2>2. jobs[i].key \in Keys
      BY <2>1, <1>i DEF Succeeded, QueueInv, RowsWellFormed
    <2>3. ApprovalOf[jobs[i].key] # b
      BY <2>1, <1>5, <1>i DEF ConsumedInv
    <2> QED
      BY <2>1, <2>2, <2>3, <1>4, RestoreAssumption
  <1>9. ASSUME NEW i \in JobIds, Succeeded(i)'
        PROVE  /\ approval'[ApprovalOf[jobs'[i].key]].status = "executed"
               /\ target'[jobs'[i].key] = "whole"
    <2>1. CASE i = c
      BY <2>1, <1>1, <1>3, <1>5, <1>7
    <2>2. CASE i # c
      BY <2>2, <1>6, <1>7, <1>8, <1>9, <1>i DEF ConsumedInv
    <2> QED
      BY <2>1, <2>2
  <1>10. ASSUME NEW i \in JobIds, NEW j \in JobIds, Succeeded(i)', Succeeded(j)',
                ApprovalOf[jobs'[i].key] = ApprovalOf[jobs'[j].key]
         PROVE  i = j
    <2>1. CASE i # c /\ j # c
      BY <2>1, <1>8, <1>10, <1>i DEF ConsumedInv
    <2>2. CASE (i = c /\ j # c) \/ (i # c /\ j = c)
      BY <2>2, <1>1, <1>3, <1>8, <1>10
    <2> QED
      BY <2>1, <2>2
  <1>11. ASSUME NEW a \in Approvals, approval'[a].status = "executed"
         PROVE  \E i \in JobIds : Succeeded(i)' /\ ApprovalOf[jobs'[i].key] = a
    <2>1. CASE a = b
      BY <2>1, <1>1, <1>3
    <2>2. CASE a # b
      <3>1. PICK i \in JobIds : Succeeded(i) /\ ApprovalOf[jobs[i].key] = a
        BY <2>2, <1>6, <1>11, <1>i DEF ConsumedInv
      <3>2. i # c
        BY <3>1, <2>2, <1>1
      <3> QED
        BY <3>1, <3>2, <1>4 DEF Succeeded
    <2> QED
      BY <2>1, <2>2
  <1> QED
    BY <1>9, <1>10, <1>11 DEF ConsumedInv

\* Approvals and successes stay in step.
LEMMA NextConsumed ==
  ASSUME RestoreInv, [RestoreNext]_allVars
  PROVE  ConsumedInv'
  <1>t. RestoreTypeOK /\ approval \in [Approvals -> ApprovalRow]
    BY DEF RestoreInv, RestoreTypeOK
  <1>e. ASSUME ~\E e \in Executors : Consumes(e)
        PROVE  /\ Quiet
               /\ \A a \in Approvals : approval'[a].status = "executed" =>
                                        approval[a].status = "executed"
    <2>1. Quiet
      BY <1>e, QueueSteps
    <2>2. ASSUME NEW a \in Approvals, approval'[a].status = "executed"
          PROVE  approval[a].status = "executed"
      <3>1. ASSUME NEW b \in Approvals, NEW p, CreateRestoreApproval(b, p) \/ ApproveRestore(b, p)
            PROVE  approval[a].status = "executed"
        BY <3>1, <2>2, <1>t DEF CreateRestoreApproval, ApproveRestore, WithStatus
      <3>2. ASSUME NEW s \in Sessions, ScheduleRestore(s) \/ ReleaseRestoreSchedule(s)
            PROVE  approval[a].status = "executed"
        BY <3>2, <2>2, <1>t DEF ScheduleRestore, ReleaseRestoreSchedule, WithStatus
      <3>3. ASSUME NEW e \in Executors, CompleteRestore(e)
            PROVE  UNCHANGED approval
        BY <3>3, <1>e DEF CompleteRestore, Consumes
      <3>4. ASSUME RestoreTick PROVE approval[a].status = "executed"
        BY <3>4, <2>2, <1>t DEF RestoreTick
      <3>5. ASSUME NEW s \in Sessions, \/ SessionEnds(s) \/ \E b \in Approvals : CheckApproved(s, b)
                                       \/ \E k \in Keys : EnqueueRestore(s, k) \/ EnqueueFails(s, k)
            PROVE  UNCHANGED approval
        BY <3>5 DEF SessionEnds, CheckApproved, EnqueueRestore, EnqueueFails
      <3>6. ASSUME NEW e \in Executors, Poll(e) \/ RunRestore(e) \/ FailRestore(e)
            PROVE  UNCHANGED approval
        BY <3>6 DEF Poll, RunRestore, FailRestore, restoreVars
      <3>7. ASSUME (\E i \in JobIds : Retry(i)) \/ UNCHANGED allVars PROVE UNCHANGED approval
        BY <3>7 DEF Retry, restoreVars, allVars
      <3> QED
        BY <2>2, <3>1, <3>2, <3>3, <3>4, <3>5, <3>6, <3>7 DEF RestoreNext
    <2> QED
      BY <2>1, <2>2
  <1>1. CASE \E e \in Executors : Consumes(e)
    BY <1>1, CompleteConsumed
  <1>2. CASE ~\E e \in Executors : Consumes(e)
    BY <1>2, <1>e, QuietConsumed
  <1> QED
    BY <1>1, <1>2

-----------------------------------------------------------------------------
(* The theorems                                                            *)

\* The inductive invariant of the workflow holds in every reachable state.
THEOREM RestoreInvariant == RestoreSpec => []RestoreInv
  <1>1. RestoreInv /\ [RestoreNext]_allVars => RestoreInv'
    <2> SUFFICES ASSUME RestoreInv, [RestoreNext]_allVars PROVE RestoreInv'
      OBVIOUS
    <2>1. QueueInv'
      BY QueueInside DEF RestoreInv
    <2> QED
      BY <2>1, NextRestoreType, NextGrant, NextRan, NextConsumed DEF RestoreInv
  <1> QED
    BY InitRestoreInv, <1>1, PTL DEF RestoreSpec

\* No restore target is written, by any path of leases, retries, releases and
\* repeated scheduling, before a second person has approved its request.
THEOREM RestoresAreApproved == RestoreSpec => []TwoPeopleBehindEveryRestore
  <1>1. RestoreInv => TwoPeopleBehindEveryRestore
    BY RestoreAssumption DEF RestoreInv, GrantInv, TwoPeopleBehindEveryRestore
  <1> QED
    BY RestoreInvariant, <1>1, PTL

\* An approval is executed exactly when one job of it has succeeded, only one
\* ever does, and that one left a whole target.
THEOREM ApprovalsAreConsumedOnce == RestoreSpec => []ConsumedBySuccess
  <1>1. RestoreInv => ConsumedBySuccess
    <2> SUFFICES ASSUME RestoreInv PROVE ConsumedBySuccess
      OBVIOUS
    <2>1. ConsumedInv /\ created \in 0 .. MaxJobs
      BY DEF RestoreInv, RestoreTypeOK, TypeOK
    <2>2. \A i : i \in 1 .. created => i \in JobIds
      BY <2>1, QueueAssumption DEF JobIds
    <2>3. \A i \in JobIds : Succeeded(i) => i \in 1 .. created
      BY <2>1, QueueAssumption DEF RestoreInv, QueueInv, RowsWellFormed, Succeeded, JobIds
    <2>4. \A a \in Approvals : \A i \in JobsOf(a, {"succeeded"}) :
            i \in JobIds /\ Succeeded(i) /\ ApprovalOf[jobs[i].key] = a
      BY <2>2 DEF JobsOf, Succeeded
    <2>5. \A a \in Approvals, i \in JobIds :
            Succeeded(i) /\ ApprovalOf[jobs[i].key] = a => i \in JobsOf(a, {"succeeded"})
      BY <2>3 DEF JobsOf, Succeeded
    <2> QED
      BY <2>1, <2>4, <2>5 DEF ConsumedInv, ConsumedBySuccess
  <1> QED
    BY RestoreInvariant, <1>1, PTL

\* A consumed or expired approval is never usable again, whatever release,
\* scheduling command or approval is still on its way.
THEOREM ConsumedApprovalsAreFinal == RestoreSpec => ConsumedIsFinal
  <1>1. RestoreInv /\ [RestoreNext]_allVars =>
          [\A a \in Approvals :
             approval[a].status \in {"executed", "expired"} =>
               approval'[a].status = approval[a].status]_allVars
    BY ApprovalMoves DEF RestoreInv, Moves
  <1> QED
    BY RestoreInvariant, <1>1, PTL DEF RestoreSpec, ConsumedIsFinal
=============================================================================
