------------------------------ MODULE JobQueue ------------------------------
(***************************************************************************)
(* The durable job queue of the control plane (internal/controlplane:      *)
(* SQLStore.Enqueue, Lease, Complete, Fail, RetryJob) and the executors    *)
(* that drain it: the goroutines of WorkerPool.Run and the mTLS agents of  *)
(* AgentClient.Run behind AgentServer.lease / complete / fail.             *)
(*                                                                         *)
(* An executor is one thread of execution of leased work.  Several         *)
(* executors may present the same lease identity (OwnerOf): every          *)
(* goroutine of the local pool leases as "__repoark_local__", and an agent *)
(* whose earlier report is still being served leases again under the same  *)
(* certificate name.                                                       *)
(*                                                                         *)
(* Wall-clock fields are kept as the time that is left: "left" is          *)
(* lease_until - now and "delay" is not_before - now, both cut off at 0,   *)
(* and Tick lets one unit pass.  The code only ever compares these columns *)
(* with now, so nothing else of the clock is observable.  Rows are never   *)
(* deleted; row i is the i-th job created, which stands for created_at.    *)
(***************************************************************************)
EXTENDS Naturals

CONSTANTS
  Keys,          \* (kind, target, affinity) triples that callers enqueue
  NoKey,         \* the key of a row that does not exist yet
  Owners,        \* lease identities
  NoOwner,       \* the empty lease_owner / affinity column
  Executors,     \* threads that run leased jobs
  RemoteExecutors, \* those that report through the agent HTTP server
  OwnerOf,       \* the lease identity an executor presents
  AffinityOf,    \* the affinity part of a key
  PriorityOf,    \* the priority callers give jobs of a key
  MaxJobs,       \* bound: rows ever created
  MaxAttempts,   \* workers.max_attempts
  MaxRetries,    \* bound: operator retries of failed jobs
  LeaseLen,      \* workers.lease, in ticks
  RetryCap       \* the 900 s ceiling of retryDelay, in ticks

ASSUME QueueAssumption ==
  /\ NoKey \notin Keys
  /\ NoOwner \notin Owners
  /\ RemoteExecutors \subseteq Executors
  /\ OwnerOf \in [Executors -> Owners]
  /\ AffinityOf \in [Keys -> Owners \cup {NoOwner}]
  /\ PriorityOf \in [Keys -> Nat]
  /\ MaxJobs \in Nat
  /\ MaxAttempts \in Nat \ {0}
  /\ MaxRetries \in Nat
  /\ LeaseLen \in Nat \ {0}
  /\ RetryCap \in Nat \ {0}

VARIABLES
  jobs,     \* the jobs table
  created,  \* number of rows inserted so far
  exec,     \* what each executor holds
  retries   \* operator retries used up (bounded by MaxRetries)

vars == <<jobs, created, exec, retries>>

-----------------------------------------------------------------------------
(* Rows and executors                                                      *)

JobIds == 1 .. MaxJobs

Status == {"absent", "queued", "running", "succeeded", "failed"}

JobRow == [key      : Keys \cup {NoKey},
           status   : Status,
           attempts : 0 .. MaxAttempts,
           delay    : 0 .. RetryCap,
           owner    : Owners \cup {NoOwner},
           left     : 0 .. LeaseLen]

AbsentRow == [key |-> NoKey, status |-> "absent", attempts |-> 0,
              delay |-> 0, owner |-> NoOwner, left |-> 0]

\* The three ways a row is rewritten: leased to o, released with status s and
\* d to wait, and one unit of time older.
Leased(r, o) == [key |-> r.key, status |-> "running", attempts |-> r.attempts + 1,
                 delay |-> r.delay, owner |-> o, left |-> LeaseLen]

Released(r, s, d) == [key |-> r.key, status |-> s, attempts |-> r.attempts,
                      delay |-> d, owner |-> NoOwner, left |-> 0]

Dec(n) == IF n > 0 THEN n - 1 ELSE 0

Older(r) == [key |-> r.key, status |-> r.status, attempts |-> r.attempts,
             delay |-> Dec(r.delay), owner |-> r.owner, left |-> Dec(r.left)]

\* "attempt" and "left" are the executor's own copy of the row it leased;
\* "read" is what SQLStore.Fail has read before its UPDATE.
ExecState == [phase   : {"idle", "running", "failing"},
              job     : JobIds \cup {0},
              attempt : 0 .. MaxAttempts,
              left    : 0 .. LeaseLen,
              read    : 0 .. MaxAttempts]

Idle == [phase |-> "idle", job |-> 0, attempt |-> 0, left |-> 0, read |-> 0]

TypeOK ==
  /\ jobs \in [JobIds -> JobRow]
  /\ created \in 0 .. MaxJobs
  /\ exec \in [Executors -> ExecState]
  /\ retries \in 0 .. MaxRetries

Init ==
  /\ jobs = [i \in JobIds |-> AbsentRow]
  /\ created = 0
  /\ exec = [e \in Executors |-> Idle]
  /\ retries = 0

Active(i) == jobs[i].status \in {"queued", "running"}

Busy(e) == exec[e].phase # "idle"

\* The row predicate of Complete and Fail: running and leased by the caller.
LeasedBy(i, o) == jobs[i].status = "running" /\ jobs[i].owner = o

-----------------------------------------------------------------------------
(* Enqueue and RetryJob                                                    *)

\* Mutant: only waiting jobs are looked for, not running ones.
HasActiveQueuedOnly(k) == \E i \in JobIds : jobs[i].key = k /\ jobs[i].status = "queued"

\* The SELECT of Enqueue and the partial unique index behind its INSERT: a
\* key with an active job gets that job back and no row is written.
HasActive(k) == \E i \in JobIds : jobs[i].key = k /\ Active(i)

QueuedRow(k) == [key |-> k, status |-> "queued", attempts |-> 0,
                 delay |-> 0, owner |-> NoOwner, left |-> 0]

Enqueue(k) ==
  /\ ~HasActive(k)
  /\ created < MaxJobs
  /\ created' = created + 1
  /\ jobs' = [jobs EXCEPT ![created + 1] = QueuedRow(k)]
  /\ UNCHANGED <<exec, retries>>

\* The UPDATE of RetryJob is refused by the same unique index when another
\* job of the key has become active in the meantime.
RetryJob(i) ==
  /\ retries < MaxRetries
  /\ jobs[i].status = "failed"
  /\ ~HasActive(jobs[i].key)
  /\ jobs' = [jobs EXCEPT ![i] = QueuedRow(jobs[i].key)]
  /\ retries' = retries + 1
  /\ UNCHANGED <<created, exec>>

-----------------------------------------------------------------------------
(* Lease                                                                   *)

\* Mutant: lease_until is not compared with the clock.
ExpiredAtOnce(r) == r.status = "running"

Expired(r) == r.status = "running" /\ r.left = 0

\* Mutant: off by one, the final permitted attempt is left alone.
ReapTooLate(r) ==
  IF Expired(r) /\ r.attempts > MaxAttempts
    THEN Released(r, "failed", r.delay)
    ELSE r

\* The reaper at the head of Lease: an expired lease on the final permitted
\* attempt becomes terminal.
Reap(r) ==
  IF Expired(r) /\ r.attempts >= MaxAttempts
    THEN Released(r, "failed", r.delay)
    ELSE r

\* Mutant: the attempt bound is missing from the SELECT and the UPDATE.
LeasableWithoutBound(r, o) ==
  /\ r.delay = 0
  /\ r.status = "queued" \/ Expired(r)
  /\ AffinityOf[r.key] \in {NoOwner, o}

\* Mutant: an expired lease may be taken over by any node.
LeasableAnywhere(r, o) ==
  /\ r.delay = 0
  /\ r.attempts < MaxAttempts
  /\ \/ r.status = "queued" /\ AffinityOf[r.key] \in {NoOwner, o}
     \/ Expired(r)

Leasable(r, o) ==
  /\ r.delay = 0
  /\ r.attempts < MaxAttempts
  /\ r.status = "queued" \/ Expired(r)
  /\ AffinityOf[r.key] \in {NoOwner, o}

\* ORDER BY priority DESC, created_at ASC
Before(i, j) ==
  \/ PriorityOf[jobs[i].key] > PriorityOf[jobs[j].key]
  \/ PriorityOf[jobs[i].key] = PriorityOf[jobs[j].key] /\ i < j

Candidates(o) == {i \in JobIds : Leasable(jobs[i], o)}

Lease(e) ==
  LET o == OwnerOf[e] IN
  /\ ~Busy(e)
  /\ \E i \in Candidates(o) :
       /\ \A j \in Candidates(o) \ {i} : Before(i, j)
       /\ jobs' = [j \in JobIds |->
                     IF j = i THEN Leased(jobs[i], o) ELSE Reap(jobs[j])]
       /\ exec' = [exec EXCEPT ![e] = [phase |-> "running", job |-> i,
                                       attempt |-> jobs[i].attempts + 1,
                                       left |-> LeaseLen, read |-> 0]]
  /\ UNCHANGED <<created, retries>>

\* A poll that finds nothing to lease still runs the reaper.
LeaseNothing(e) ==
  /\ ~Busy(e)
  /\ Candidates(OwnerOf[e]) = {}
  /\ jobs' = [j \in JobIds |-> Reap(jobs[j])]
  /\ UNCHANGED <<created, exec, retries>>

-----------------------------------------------------------------------------
(* Results: Complete and Fail                                              *)

\* Runner.Run returned nil.  Complete is one transaction; its error, when the
\* lease now belongs to somebody else, is dropped by the caller.
Complete(e) ==
  LET i == exec[e].job IN
  /\ exec[e].phase = "running"
  /\ jobs' = IF LeasedBy(i, OwnerOf[e])
               THEN [jobs EXCEPT ![i] = Released(jobs[i], "succeeded", jobs[i].delay)]
               ELSE jobs
  /\ exec' = [exec EXCEPT ![e] = Idle]
  /\ UNCHANGED <<created, retries>>

\* Runner.Run returned an error.  Fail reads attempts in one statement and
\* writes the row in another, with no transaction around the two.
FailRead(e) ==
  LET i == exec[e].job IN
  /\ exec[e].phase = "running"
  /\ exec' = IF LeasedBy(i, OwnerOf[e])
               THEN [exec EXCEPT ![e] =
                       [phase |-> "failing", job |-> i, attempt |-> exec[e].attempt,
                        left |-> exec[e].left, read |-> jobs[i].attempts]]
               ELSE [exec EXCEPT ![e] = Idle]
  /\ UNCHANGED <<jobs, created, retries>>

\* retryDelay: 2^attempt seconds, at most the ceiling.
RetryDelay(attempt) ==
  LET d == 2 ^ (IF attempt < 1 THEN 1 ELSE attempt)
  IN  IF d \in 0 .. RetryCap THEN d ELSE RetryCap

\* The pool passes the delay of the attempt it leased, the agent server that
\* of the row it has just read.
Backoff(e) ==
  RetryDelay(IF e \in RemoteExecutors THEN exec[e].read ELSE exec[e].attempt)

\* Mutant: the UPDATE of Fail names the row by id alone.
FailWriteById(e) ==
  LET i == exec[e].job IN
  /\ exec[e].phase = "failing"
  /\ jobs' = [jobs EXCEPT ![i] =
               IF exec[e].read >= MaxAttempts
                 THEN Released(jobs[i], "failed", 0)
                 ELSE Released(jobs[i], "queued", Backoff(e))]
  /\ exec' = [exec EXCEPT ![e] = Idle]
  /\ UNCHANGED <<created, retries>>

\* Mutant: off by one, the final attempt is requeued too.
FailWriteOnceMore(e) ==
  LET i == exec[e].job IN
  /\ exec[e].phase = "failing"
  /\ jobs' = IF LeasedBy(i, OwnerOf[e])
               THEN [jobs EXCEPT ![i] =
                       IF exec[e].read > MaxAttempts
                         THEN Released(jobs[i], "failed", 0)
                         ELSE Released(jobs[i], "queued", Backoff(e))]
               ELSE jobs
  /\ exec' = [exec EXCEPT ![e] = Idle]
  /\ UNCHANGED <<created, retries>>

FailWrite(e) ==
  LET i == exec[e].job IN
  /\ exec[e].phase = "failing"
  /\ jobs' = IF LeasedBy(i, OwnerOf[e])
               THEN [jobs EXCEPT ![i] =
                       IF exec[e].read >= MaxAttempts
                         THEN Released(jobs[i], "failed", 0)
                         ELSE Released(jobs[i], "queued", Backoff(e))]
               ELSE jobs
  /\ exec' = [exec EXCEPT ![e] = Idle]
  /\ UNCHANGED <<created, retries>>

\* The executor dies, or the answer to its lease or its report is lost on the
\* way: the row stays as it is.
Crash(e) ==
  /\ Busy(e)
  /\ exec' = [exec EXCEPT ![e] = Idle]
  /\ UNCHANGED <<jobs, created, retries>>

-----------------------------------------------------------------------------
(* Time                                                                    *)

Tick ==
  /\ jobs' = [i \in JobIds |-> Older(jobs[i])]
  /\ exec' = [e \in Executors |-> [exec[e] EXCEPT !.left = Dec(@)]]
  /\ UNCHANGED <<created, retries>>

Next ==
  \/ \E k \in Keys : Enqueue(k)
  \/ \E i \in JobIds : RetryJob(i)
  \/ \E e \in Executors :
       \/ Lease(e)
       \/ LeaseNothing(e)
       \/ Complete(e)
       \/ FailRead(e)
       \/ FailWrite(e)
       \/ Crash(e)
  \/ Tick

Spec == Init /\ [][Next]_vars

\* Time passes, pollers poll on their tickers, and a run ends: with a result,
\* with an error, or with the death of its executor.  Nobody is obliged to
\* enqueue or to retry.
Fairness ==
  /\ WF_vars(Tick)
  /\ \A e \in Executors :
       /\ WF_vars(Lease(e) \/ LeaseNothing(e))
       /\ WF_vars(Complete(e) \/ FailRead(e) \/ Crash(e))
       /\ WF_vars(FailWrite(e) \/ Crash(e))

FairSpec == Spec /\ Fairness

-----------------------------------------------------------------------------
(* Properties                                                              *)

\* No two active rows share (kind, target, affinity): neither a repeated
\* scheduler tick nor an operator's retry of an old failure doubles the work.
OneActivePerKey ==
  \A i, j \in JobIds :
    Active(i) /\ Active(j) /\ jobs[i].key = jobs[j].key => i = j

\* Path-bound work is only ever held by an executor of the storage node it is
\* bound to, also after leases expired and were handed on.
AffinityRespected ==
  \A e \in Executors :
    Busy(e) => AffinityOf[jobs[exec[e].job].key] \in {NoOwner, OwnerOf[e]}

\* Terminal rows are final: a late or duplicated report, the reaper or a
\* poll never moves a succeeded row, and moves a failed one nowhere; only
\* RetryJob, which restarts the attempt count, re-opens a failed row.
TerminalIsFinal ==
  [][\A i \in JobIds :
       /\ jobs[i].status = "succeeded" => jobs'[i] = jobs[i]
       /\ jobs[i].status = "failed" /\ jobs'[i].status # "failed" =>
            /\ jobs'[i].status = "queued"
            /\ jobs'[i].attempts = 0
            /\ retries' = retries + 1]_vars

InLease(e) == Busy(e) /\ exec[e].left > 0

\* An executor within its own lease time has the job to itself, when no
\* identity has two executors at once: expiry, re-lease, late results and
\* retries never put a second executor on the job before that.
LeaseExclusive ==
  \A d, e \in Executors :
    d # e /\ InLease(d) /\ InLease(e) => exec[d].job # exec[e].job

\* A queued row can still be leased: requeueing stops at max_attempts, after
\* that the job is terminal.  A queued row with no attempts left would be
\* passed over by Lease and by its reaper for ever, and would block its key.
QueuedHasAttempts ==
  \A i \in JobIds : jobs[i].status = "queued" => jobs[i].attempts < MaxAttempts

\* No job is stranded: whatever is queued ends succeeded or failed, through
\* crashes, lost reports and expired leases.
EveryJobSettles ==
  \A i \in JobIds :
    jobs[i].status = "queued" ~> jobs[i].status \in {"succeeded", "failed"}

-----------------------------------------------------------------------------
(* The inductive invariant behind these properties                         *)

\* Every identity is presented by one executor at a time: agents whose
\* earlier reports have been answered, or a pool of one goroutine.
DistinctOwners ==
  \A d, e \in Executors : OwnerOf[d] = OwnerOf[e] => d = e

\* Rows exist up to "created"; only a running row carries a lease.
RowsWellFormed ==
  \A i \in JobIds :
    /\ jobs[i].status = "absent" <=> i > created
    /\ jobs[i].status # "absent" => jobs[i].key \in Keys
    /\ jobs[i].status # "running" => jobs[i].owner = NoOwner /\ jobs[i].left = 0
    /\ jobs[i].status \notin {"queued"} => jobs[i].delay = 0

ExecsWellFormed ==
  \A e \in Executors :
    Busy(e) => exec[e].job \in JobIds /\ jobs[exec[e].job].status # "absent"

\* A row leased to the identity of a busy executor of that job is that
\* executor's own lease, of the very attempt it runs ...
LeaseIsOwn ==
  \A e \in Executors :
    Busy(e) /\ LeasedBy(exec[e].job, OwnerOf[e]) =>
      /\ jobs[exec[e].job].attempts = exec[e].attempt
      /\ exec[e].phase = "failing" => exec[e].read = exec[e].attempt

\* ... and as long as its lease runs, the row is leased to it.
LeaseIsHeld ==
  \A e \in Executors :
    InLease(e) => /\ LeasedBy(exec[e].job, OwnerOf[e])
                  /\ jobs[exec[e].job].left = exec[e].left

QueueInv ==
  /\ TypeOK
  /\ RowsWellFormed
  /\ ExecsWellFormed
  /\ OneActivePerKey
  /\ AffinityRespected

DistinctInv == LeaseIsOwn /\ LeaseIsHeld /\ QueuedHasAttempts

=============================================================================
