# RepoArk in TLA+

A TLA+ model of RepoArk: its backups, its object store, its control plane with
replication, erasure coding and restores, its audit ledger and its operations
console, written from the Go code of this repository, with TLC models that
check it on small instances and TLAPS proofs of what matters most.

Run a model with `tlc -config JobQueueAgents.cfg MCJobQueue`, a proof with
`tlapm TransferProofs.tla`. `PROJECT.json` lists the components, the runs, the
mutants, the source lines behind every definition, the hazards, the findings
and the theorems.

## 1. The system

RepoArk keeps backups of Git hosting accounts. One binary offers a command
line, a web console, a scheduler with a SQL control plane and agents that run
jobs on the storage nodes.

| Component | State it keeps | Operations | Hard behaviour |
|---|---|---|---|
| Durable job queue (`controlplane/sqlstore.go`) | `jobs` rows: status, attempts, not_before, lease_owner, lease_until | Enqueue, Lease (with the reaper of expired last attempts), Complete, Fail, RetryJob | leases expire under work that goes on; late, lost and repeated reports; `Fail` reads and writes in two statements |
| Executors (`worker.go`, `agent_client.go`, `agent_server.go`) | the job in hand | poll, run, report, back off | goroutines share one lease identity; crashes |
| Restore approvals (`sqlstore.go`, `restore.go`, `app.go`, `restore_wizard.go`) | `restore_approvals` rows | request, approve, schedule, release, consume | reservation, job and release are separate transactions of racing commands |
| Replication transfer (`agent_server.go`, `remote_store.go`, `replication/`) | partial and spool file, `replication_transfers` row, partial file of the target | status, chunk, finalize, whole upload, download, install, expiry | handlers outlive their clients; every attempt is a new cipher text; restart between rename and record |
| Generations (`generation/`, `worker.go`) | directories, `generations` and replica rows, last result | capture, prune, sign, record, prune rows, mark | crash between any two steps; two retentions that must agree |
| Audit ledger (`audit/`) | ledger file, signed checkpoint, guard | Append, WriteCheckpoint, Recent, Verify | several processes, cut writes, two guarded steps per record |
| Operations console (`observability/console_*.go`) | one job in memory, revision counter, browsers | startJob, cancelJob, events, history | racing requests, restart, answers and events out of order |
| Scheduler (`scheduler.go`, provider sync) | `repositories` rows: enabled, next_run_at | discover, enqueue due work, mark scheduled | crash between enqueue and new due time; discovery rewrites the row in between |
| Reconciler and placement (`replication.go`, `inventory.go`) | replica rows, agents and their health | choose sources and targets, enqueue copies, report health, route restores | three deficits at once, a view of work in flight that misses installs, nodes that come and go, retention beside it |
| CAS, GC, cold tier (`cas/`, `tiering/`) | blobs, hard links from payloads, temporary files | ingest, verify, collect, tier | no lock: every call of one process falls between two of another; killed processes |
| Erasure sets and repair (`erasure/`, `erasure_distributed.go`, `repair_distributed.go`, `scrub/`, `cassync/`) | shard files, `erasure_shards` and `object_refs` rows, leases | encode, place, transfer, install, repair, evaluate | records and files change in separate steps on separate nodes; collection; loss during repair |
| Backup manager (`backup/`, `manifest/`, `kmsattest/`) | mirrors, bundles, archives, payloads with sidecars, manifest, signature, attestation | run, job, verify, restore, drill, ship | files replaced one by one and the manifest last; cancelled, failed and killed runs; a job on the same root |
| Web authentication, PKI, provider clients, offsite, storage health, signing, notification, policy, fleet, configuration | sessions, certificates, none | requests, subprocesses | mostly library calls and I/O |

How they interact: the scheduler, the reconciler, the console and the command
line call `Enqueue`; executors call `Lease` and report through `Complete` and
`Fail`, locally or through the agent server; a restore job's `Complete`
consumes its approval in the same transaction; a replication job's upload makes
the server enqueue the install job of the target; a backup job captures a
generation and indexes it in the same database; every command and console
handler appends to the audit ledger, the only state that unrelated processes
share as a file. A backup job saves a repository under the backup root
(`Backup`), captures it as a generation (`Generations`) and lets the reconciler
copy that to other nodes (`Placement`) by encrypted transfers (`Transfer`).
Payload files of the root are compacted into the content-addressed store
(`Cas`), whose objects are protected by shards on other nodes (`Shards`),
carried by the same transfers.

What makes each part correct, in a sentence: the queue loses no job, doubles
none and never gives a lease to two executors; no restore without a second
person, and an approval is used once; a replica comes from one whole cipher
text; a repository's last reported generation can be restored; the ledger is
one chain and its checkpoint is its head; the console runs one operation at a
time, never without its record, and shows what is the case; every listed
repository is backed up again and again, its generations reach the copies and
failure domains that are configured, and a restore is sent where a copy is; the
maintenance of the store keeps what it holds, and what rot damages is repaired
as long as enough shards are left; a run that reports success leaves a set that
verifies and restores. Where the code falls short of one of these sentences,
the property checked names the exception, and a stronger one without it is
shown to fail ("What the violations show").

## 2. Modules

| Module | Models | State | Actions |
|---|---|---|---|
| `JobQueue` | the queue and its executors | `jobs`, `created`, `exec`, `retries` | `Enqueue`, `Lease`, `LeaseNothing`, `Complete`, `FailRead`, `FailWrite`, `RetryJob`, `Crash`, `Tick` |
| `RestoreFlow` (extends `JobQueue`) | approvals and restore jobs | plus `approval`, `session`, `target`, `ran` | request, approve, check, schedule, enqueue (or its error, with or without effect), release, run, complete, fail, poll, retry, tick |
| `Transfer` | one relay transfer | upload client, handlers (`request`), `part`, `spool`, `record`, `install`, `dest`, `final`, `replica` | one action per step of a handler that another handler can see, client and server crashes, expiry |
| `Generations` | the backup job's captures | `dir`, `index`, `replicas`, `last`, `run` | `BeginCapture`, `WriteMeta`, `PruneDirs`, `Sign`, `RecordGeneration`, `RecordReplica`, `PruneGenerationRecords`, `MarkBackupResult`, failures, `Crash` |
| `Audit` | ledger, checkpoint and guard | `ledger`, `open`, `checkpoint`, `guard`, `call`, `faults` | `AppendBegin`/`AppendWrite`/`AppendFails`, `CheckpointBegin`/`CheckpointWrite`/`CheckpointFails`, `Die` |
| `Console` (extends `Audit`) | handlers, job manager, stream, browsers, history | plus `phase`, `result`, `current`, `cancelled`, `rev`, `replies`, `browser`, `restarts` | `Receive`, `Refuse`, `StartJob`, `RejectJob`, `OperationLogs`, `OperationReturns`, `JobEnds`, `CancelJob`, `CommandReturns`, `Close`, `Restart`, browser steps |
| `Cas` | the store of one node, on inodes and links | `content`, `file`, `wrote`, `blob`, `leftover`, `spoilt`, `set`, `cold`, `ingest`, `gc`, `scrub`, `budget` | `WritePayload`, `RemovePayload`, `IngestHash`/`Found`/`Copy`/`Rename`/`Swap`, `GCStart`/`Scan`/`Remove`/`End`, `ScrubStart`/`Check`/`Rebuild`/`Open`/`Write`/`WriteFails`, `Protect`, `Tier`, rot and kills |
| `Shards` | the shards of one object over the nodes | `setup`, `state`, `object`, `dir`, `disk`, `record`, `refs`, `protect`, `job`, `install`, `repair`, `gc`, `faults` | `ProtectStart`/`Shard`/`Dies`, `Reconcile`, `Upload`, `Install` and their failures, `GCStart`/`GCRemove`/`GCOnAgent`, `Damage`, `LocalRepair`, `ScheduleRepair`, `RepairObject`, `ChangeState` |
| `Copies` | what replication promises | `copies`, `newest` | `Make`, `Copy`, `Relayed` |
| `Placement` (implements `Copies`) | one repository from schedule to restore | `upstream`, `repo`, `sched`, `backup`, `health`, `latest`, `dirs`, `index`, `rows`, `jobs`, `installs`, `faults` | `SyncRepositories`, `EnqueueDue`, `MarkScheduled`, `Capture`, `RecordBackup`, `Reconcile`, `Replicate`, `Install`, health changes, deaths and losses |
| `Backup` | the backup root, its run, its job and its readers | `config`, `upstream`, `withdrawn`, `mirror`, `files`, `sums`, `work`, `run`, `latest`, `sig`, `attest`, `dated`, `report`, histories | one action per file that `backupRepo` replaces and per failure, told or not, `Withdraw`, `RunStarts`, `Feed`, `Cancel`, `Collect`, `WriteLatest`, `WriteSig`, `PruneManifests`, `Attest`, `RunEnds`, `Drill`, `Ship`, `JobStarts`, `JobEnds`, `Dies`, `Rot` |
| `RestoreFlowProofs` | theorems about `JobQueue` and `RestoreFlow` | | |
| `ConsoleProofs` | theorems about `Audit` and `Console` | | |
| `TransferProofs`, `GenerationsProofs`, `CasProofs`, `ShardsProofs`, `PlacementProofs`, `BackupProofs` | theorems about the module they are named after | | |

`MC*` modules only name the model values and the functions a configuration
needs. Operators whose comment starts with "Mutant" are plausible bugs; no
specification uses them.

How code becomes actions:

- A SQL statement, or a transaction, is one step. `SQLStore.Fail` is two
  (`FailRead`, `FailWrite`), because its SELECT and its UPDATE are not in a
  transaction; a scheduling command is four.
- Clock columns are kept as the time left, which is all the code compares;
  `Tick` passes one unit. A backoff is `RetryDelay`, cut off at `RetryCap`.
- An HTTP handler takes one step per access to a file or a row another handler
  can reach. A client that gives up leaves its handler running.
- A file of cipher text is a sequence of chunks of an attempt; a hash stands for
  the content. A write at the start of a file that is there overwrites a prefix.
- A ledger line carries `whole` (it parses as its record) and the file `open`
  (no newline at its end), so that a cut write and the record it swallows are
  what the code would meet.
- The ledger guard is the process mutex and the file lock together; the system
  drops the lock of a process that dies.
- In `Cas` a file is an inode and a name a link to it: a repair rewrites the
  inode that payloads share, a rename moves a name, and a file that was opened
  is written wherever its name has gone. Content is the object and whether it
  still is that object; a digest is the object, or none that anyone knows. A
  repair is five calls that anything may come between: the hash of the name, the
  rebuilding with its verification, the truncating open, and the copy or its
  failure.
- `Shards` and `Placement` take a job to be what `JobQueue` shows: at most one
  active job per kind and target, which ends in success or after its last
  failed attempt. A transfer is what `Transfer` shows: whole or lost, and never
  whole when an agent sends more than one chunk (`transfer_append`). `Large`
  and `setup.large` say what exceeds a chunk, `Whole` which upload can finish.
- A node's health is what heartbeat and storage probe say of it; a `"tight"`
  node is healthy and has room for nothing more (`HasCapacity`,
  `HasCapacityFor`), where `agentHasCapacityFor` compares free bytes.
- In `Backup` a content is a version of the repository and a packing of it
  (git need not write the same bundle twice), a digest is the content it was
  computed from, or `NoDigest` after a write that was cut short, and a signature
  is over the present manifest or stale. `withdrawn` is what the provider has
  stopped offering: an expired artifact, the version of a package that was
  deleted. The
  readers (`Verifies`, `Restores`, `DrillPasses`) are operators: they are asked
  in every state, which is every moment somebody could call them.
- `Placement` refines `Copies` under the mapping that takes the copies of a
  generation to be the nodes with its directory, and the relay while an
  install job holds its transfer.
- `AuditSpec` is the abstract specification of the audit package's users: any
  caller, any status, any number of times. `Console` refines it; the mapping is
  the identity on the audit variables.

## 3. Runs

| Run | Checks | Instance and why it is enough |
|---|---|---|
| `queue_agents` | `TypeOK`, `OneActivePerKey`, `AffinityRespected`, `LeaseExclusive`, `QueuedHasAttempts`, `TerminalIsFinal`, `EveryJobSettles` | the local worker and an agent with identities of their own, two keys (one bound to a node), two jobs, two attempts, one operator retry, leases of two ticks: enough for a lease to expire, to be taken by the other and to be reported late |
| `queue_stuck` (violation) | `QueuedHasAttempts` | two goroutines with one identity, one job |
| `restore_flow` | `TwoPeopleBehindEveryRestore`, `ConsumedBySuccess`, `ConsumedIsFinal` | one approval, two people who are both requester and approver, two scheduling commands, two nodes it may be routed to, two jobs and attempts, one retry |
| `transfer` | `ReplicaFromWholeCipher` | two chunks, two attempts, two requests at once, expiry after one tick; slots are symmetric |
| `transfer_append` (violation) | `ConfirmedIsStored` | the same |
| `generations` | `NothingHalfMadeAdvertised`, `LastResultRestorable` | keep 4, ten captures, two faults: retention works several times over, with leftovers among the newest directories |
| `console_audit` | `LedgerChained`, `SettledCheckpointIsHead`, `RunsOnRecord`, `CheckpointAdvances`, `AuditSpec` (refinement), `NoHandlerHangs` | a request, a cancellation and a command of another process, signing on and audit required, one failed or cut write, lost checkpoint or restart |
| `console_stream` | `SingleFlight`, `HistoryIsTrue`, `StaleOnlyAcrossRestart` | two requests of one page, audit not required and not signed, one fault (a restart among them), a history window of three records of at most four |
| `cas` | `DeliversUntilRot`, `RepairsHoldTheObject`, `RotHealed` | one object in two payload files, so that they share a blob, or have one each before compaction; a compaction, a collection and a scrub at once, 2+1 shards, two downloads, one fault: rot of a file or a shard, a copy that fails, or a kill; three inodes are two payloads and a blob or a temporary file |
| `shards` | `HealthTrue`, `OnlyCollectorLoses`, `LostShardReturns`, `PlacementConverges`, `RepairConverges` | one object in 2+2 shards on two agents and the control-plane host, each a failure domain; the object starts on the host, on an agent, or on both agents with one copy damaged, the last also with shards over one chunk; one fault at any point, a node that becomes degraded, tight or absent among them |
| `placement` | `RestoreRoutedToCopy`, `HealthyIsStored`, `ImplementsCopies` (refinement), `BackupsRecur`, `PlacementConverges` | the host and two agents of one domain, two copies in two domains, keep 1 and two generations, so that retention overtakes replication; the first generation's archive exceeds a chunk, the second's does not; one death, loss, change upstream, or node that becomes tight, degraded or absent |
| `backup` | `ReportTrue`, `VerifyHonest`, `ShippedSound`, `NothingForgotten`, `VerifiesAgain` | four configurations: one repository with LFS and bundle and a job beside the run; one with the three payloads that have digests beside them, over two versions, and the same with a job beside the run; two repositories, one of them with two branches, in one run with KMS; two faults, lost writes, withdrawals or jobs, keep 2 manifests |

Every property of a passing run has a mutant of the code that breaks it under
the same configuration. The type invariants of the other modules
(`RestoreTypeOK`, `TransferTypeOK`, `GenTypeOK`, `ConsoleTypeOK`, `CasTypeOK`,
`ShardsTypeOK`, `PlacementTypeOK`, `BackupTypeOK`) are stated beside their
specifications as the ground of the proofs; adding one to the configuration
of its module's run checks it.

Deadlock is checked except where the instance has an end: a finished transfer,
the last of a bounded number of captures, writes, faults or requests.

Bounds that are part of the guards: `MaxJobs`, `MaxRetries` (JobQueue),
`MaxChunks`, `Slots` (Transfer), `MaxGens`, `MaxFaults` (Generations,
Placement), `MaxFaults`, `MaxRev` (Audit, Console), `Inodes`, `MaxWrites`,
`MaxFaults` (Cas), `MaxFaults` (Shards), and in each configuration of
Backup `versions`, `packings` and `faults`. `MaxAttempts`, `LeaseLen`,
`RetryCap`, `ApprovalTTL`, `ChunkRetries`, `TransferTTL`, `Keep`, `Large`,
`HistoryScan`, `DataShards`, `ParityShards`, `SampleObjects`, `Factor`,
`MinHealthy`, `MinDomains`, `Concurrency` and `KeepManifests` are settings or
constants of the code, given small values.

### What the properties say, and where they stop

An exception in a property below is a case in which the code does otherwise;
the property without it is checked too, and fails as the next section tells.

- `StaleOnlyAcrossRestart`: a stream waits on an old state only when its
  browser last heard an earlier process and presents a revision that the new
  process has reached too. `StreamIsCurrent` makes no exception.
- `DeliversUntilRot` and `RepairsHoldTheObject`: the calls of compaction,
  collector, scrub, encoder and tier may fall between each other in any way and
  no payload changes, except that a repair truncates the file it is about to
  rewrite. What it writes is the object itself, rebuilt and verified
  beforehand, so the harm is the moment in between and lasts only if the copy
  fails or the process is killed (`spoilt`). It may be a file that was whole
  (`RepairsOnlyDamaged`). The one overlap left out of `Cas.cfg` is that of a
  compaction with a backup that writes the same file (`Beside`,
  `CompactionKeepsPayload`).
- `RotHealed` stops at `leftover`: a temporary file that a killed process left
  in the store has no digest for a name, and every later walk of the store ends
  there with an error.
- `OnlyCollectorLoses` names the one way a record outlives its shard, a
  collection that saw no references; `LostShardReturns` says that protection
  brings it back where the object is protected.
- `PlacementConverges` in `Shards` is for clusters without `include_local`
  (`PlacementConvergesWithLocal` is not) and for shards that fit one chunk of
  an upload (`PlacementConvergesAtAnySize`); `RepairConverges` excepts a node
  that would need larger shards from others. By default every shard is larger
  than a chunk, so the exception is the rule; a cluster whose `chunk_bytes` and
  `min_object_bytes` make shards of one chunk is what the property is about.
- `PlacementConverges` in `Placement` is likewise for archives of one chunk, or
  of any size while the control-plane host alone has them, which puts them
  into the spool itself.
- `RestoreRoutedToCopy` and `HealthyIsStored` except rows on a node that has
  captured a newer generation which is not recorded (`Overtaken`): a backup
  between its capture and its record, or one that died there. So retention by
  itself, transfers that were lost, late installations and failing nodes leave
  no stale row. `RestoreHasCopy` and `HealthyHasCopies` except only the backup
  that is still at work.
- `ReportTrue` is about a run beside which nothing else worked on the root. It
  says that the listed repositories are restored at the version mirrored and,
  unless a payload that is no longer offered disagrees with its sidecar
  (`Abandoned`), that Verify accepts the root. It excepts a run in which a write
  failed without a word (`silent`): `ReportComplete` does not. `ShippedSound`
  and `VerifiesAgain` have the same exceptions; the second recovers from a lost
  write in the next run, but for what is no longer offered (`VerifiesAlways`).
- `VerifyHonest` excepts a job that archived the same repository while the run
  did: both use one temporary name, and a digest may be taken of torn bytes.
- `NothingForgotten` excepts a cancelled run, which replaces the manifest by
  one with only the repositories that were done.

### What the violations show

Counterexamples are disagreements between the code and what the repository
says of it; `PROJECT.json` quotes both sides. Two are runs of the project, the
others have a configuration to run by hand.

- `queue_stuck`: between the two statements of `Fail` a goroutine with the same
  identity leases the last attempt; the job ends queued with no attempt left,
  which neither `Lease` nor its reaper ever touches, and blocks its key.
- `transfer_append`: a later chunk is written at the start of the partial file,
  so the confirmed offset is not stored. Integrity is not at stake
  (`ReplicaFromWholeCipher` holds): finalize refuses the file.
- `RestoreStranded.cfg` with `MCRestoreFlow` (`ScheduledHasJob`): a command that
  ends between the reservation and the enqueue leaves an approval scheduled
  with no job.
- `GenerationsPanic.cfg` with `MCGenerations` (`RecordedGetsResult`): the SQL
  retention slices beyond its rows while there are fewer than `keep_per_repo`.
- `ConsoleStale.cfg` with `MCConsole` (`BrowserConverges`): the answer to a POST
  overwrites the newer state the stream has delivered.
- `ConsoleReconnect.cfg` with `MCConsole` (`StreamIsCurrent`): revisions start
  at 0 in every process, so that a `Last-Event-ID` of the process before the
  restart can equal the present revision and mean another state; the stream
  then waits without having sent the job.
- `CasRepair.cfg` with `MCCas` (`RepairsOnlyDamaged`): a blob that was collected
  counts as corrupt, a compaction makes it anew before the repair opens the
  name, and the repair truncates that file. No fault is needed.
- `CasBeside.cfg` with `MCCas` (`CompactionKeepsPayload`): the link to the blob
  of the old content is renamed over a payload that a backup has just replaced.
- `ShardsCollect.cfg` with `MCShards` (`ReferencedKept`): `cas gc` drops the
  error of a store it cannot read, or reads one without references, and
  collects referenced shards.
- `ShardsLocal.cfg` with `MCShards` (`PlacementConvergesWithLocal`): shards
  assigned to the control-plane host are queued again and again.
- `ShardsLarge.cfg` with `MCShards` and `PlacementLarge.cfg` with `MCPlacement`
  (`PlacementConvergesAtAnySize`): what `transfer_append` does to the system
  above it. An agent's shard or generation of more than one chunk is sent again
  and again and never arrives. No fault is needed.
- `PlacementStale.cfg` with `MCPlacement` (`RestoreHasCopy`, `HealthyHasCopies`):
  a backup prunes the directories of its node and dies before it records its
  generation; the rows of the generation it pruned stay ready, restores are
  routed to them and the generation is reported healthy.
- `BackupUnsaid.cfg` with `MCBackup` (`ReportComplete`): the error of writing a
  sidecar or an index is dropped, so the run reports success and Verify refuses
  the root.
- `BackupExpired.cfg` with `MCBackup` (`VerifiesAlways`): a damaged artifact that
  has expired is neither fetched, read, dropped nor mentioned, and Verify
  refuses the root for ever.
- `BackupDrill.cfg` with `MCBackup` (`DrillAgrees`): the restored clone has one
  branch, the drill compares all of the mirror's and fails.
- `BackupSilent.cfg` with `MCBackup` (`FailuresSurface`): a failed LFS fetch is
  neither an error nor a warning of the run.

### Fairness

`queue_agents` assumes that time passes, that pollers poll (their tickers never
stop) and that a run ends in a result, an error or a crash. It does not assume
that anybody enqueues or retries, or that a report gets through.
`console_audit` assumes that a handler that can go on does: `net/http` serves
every request in a goroutine and the guard is a mutex and a lock that the
holder releases in a `defer`. Weak fairness per handler is enough there, since
every actor makes a bounded number of calls and so cannot overtake another one
for ever. It assumes neither that requests come, nor that an operation
returns, nor anything of browsers. `GenerationsPanic.cfg` assumes that a backup
that has begun goes on; without that its counterexample would only be a job
that stops.

`cas` assumes that a compaction and a scrub that have begun go on, and that the
scrub job, which the scheduler queues again and again, does not always fall
into the moments when a compaction has a temporary file in the store (strong
fairness of `ScrubStart`). `shards` and `placement` assume that the reconcilers
and the scheduler, which run on tickers, run, that time passes, and that jobs
are run: `EveryJobSettles` is the queue's promise of that. An upload that can
not become whole is given no fairness: with two chunks it fails, with more it
never ends. Fairness of jobs is
per shard or generation, because a lease takes jobs of one priority in the order of their time and so none
waits for ever behind others. Neither assumes that nodes recover: the
properties speak of behaviours in which they do, or of what holds otherwise.
`backup` assumes that the daemon starts a run at every tick and that a run that
is not killed goes on; faults are bounded, so that some run is undisturbed.

## 4. Proofs

All theorems hold for every value of the constants that satisfies the
`ASSUME` of the module. The assumptions say that the constants have their
types, that the "nobody" values are not members, and, where the code orders or
counts nodes, that there are finitely many and that their ids are distinct
(`PlacementAssumption`, `ShardsAssumption`). `CasProofs`, two theorems about
the queue, one of `GenerationsProofs` and one of `BackupProofs` have a
hypothesis of their own, named below.

Each inductive invariant is stated in the module it is about, after the
properties, and was checked by TLC on the configuration of its run before it
was proved.

`RestoreFlowProofs`, the queue. The invariant is `QueueInv`: types, rows that carry a lease
exactly while they run, executors that only hold rows that exist, one active
row per key and affinity. `OneActivePerKey` alone is not inductive, a retried
row must be known to exist and to have a key; `AffinityRespected` needs that
the key of a row never changes. From it: `TypeCorrect`, `NoDuplicateWork`,
`WorkStaysOnItsNode` and, as an action property, `TerminalJobsAreFinal`, all
without any assumption on identities. `LeasesAreExclusive` and
`QueuedJobsAreLeasable` assume `DistinctOwners`, one executor per identity, and
rest on `DistinctInv`: a row leased to an executor's identity is leased for the
very attempt it runs. `queue_stuck` shows that the assumption is needed.

`RestoreFlowProofs`, the workflow. It builds on `QueueInv`, kept because each
of its steps is a step of the queue or leaves the queue alone. `RestoreInv`
adds three parts. `GrantInv`: a request that was granted names an approver who
is not its requester, and whatever acts for a request (a command at work, a
job, a written target) does so only once it is granted; it is what carries the
approval across release and scheduling anew, and gives `RestoresAreApproved`.
`RanInv`: a good result in an executor's hands belongs to a run under way and
left a whole target. `ConsumedInv`: executed approvals and succeeded jobs
correspond one to one, which needs that `Complete` changes both rows in one
transaction. From it `ApprovalsAreConsumedOnce`; `ConsumedApprovalsAreFinal` is
an action property over the same invariant. Identities may be shared here: the
defect of `queue_stuck` costs a job and never a second restore.

`ConsoleProofs`, the ledger. `AuditInv` says that the guard is held exactly by the actor
between its scan and its write, so that the head it has read is still the head.
From it: `LedgerNeverForks` and the action property `CheckpointNeverGoesBack`.
`CheckpointSettles` adds `SettledInv`: without a fault every line parses, so no
signature is refused.

`ConsoleProofs`, the console. `ConsoleImplementsAudit` (`Spec => AuditSpec`): every handler
step is a call, a return or a death of audit callers, or leaves the ledger
alone; it needs `CallsMatchPhases`, that a handler logs only when its last call
is over. So the ledger theorems hold of the console, as `ConsoleKeepsChain`
says for the chain. `OneOperationAtATime` proves `SingleFlight` from `JobInv`:
an operation is the manager's current job until its terminal record is
written. Three more invariants are each added to these:

- `StreamInv` for `StreamStaysCurrent`: within the life of a process no page
  has seen a revision above the present one, and a page that has seen the
  present one was sent the present job; at revision 0 there is no job, and a
  page that has heard nothing shows none, which settles a reconnect before the
  first change.
- `RecordInv` for `NothingRunsUnlogged`: from the append of a request on,
  either its record is on a line that parses or the ledger no longer verifies,
  now or later (`VerifiedBefore`), so that the checkpoint that follows fails
  and `startJob` refuses. The theorem has the conditions of the property in it:
  audit required and checkpoints signed.
- `HistoryInv` for `HistoryStaysTrue`: a request has at most one terminal
  record, it is the end the operation had, and it comes after the record of the
  request; without a fault it is in the ledger before the handler is done.
  The window is a set of the newest positions of the ledger, and
  `NewerIsRecent` says that what is newer than a record in it is in it.

`TransferProofs`. `ReplicasAreWhole` proves `ReplicaFromWholeCipher` from
`TransferInv`. Most of the state is left out of it on purpose: neither the
partial file, nor the spool, nor the durable record is trusted by the code, so
nothing need be known of what late and repeated handlers leave there.
`UploadInv` says that every request on its way carries the cipher text of an
attempt there was; `InstallInv` that the hash of an install job is that of one
such cipher text, whatever `finalize` met, and that nothing is reported before
it was verified against that hash. The one assumption, `NoFileAssumption`, is
that the mark for a missing file is no content.

`GenerationsProofs`. `OnlySignedIsAdvertised` holds for backups that overlap
in any number, which the run, with one, does not show: `GenInv` says that every
run at work has a generation of its own (`OwnGens`), that it is not indexed
before it is signed, and that nobody but retention touches it afterwards
(`SignedFirst`). `LastGoodIsKept` assumes `Sole`: one backup at a time, and
fewer faults than `Keep - 1`, which is what the property's own comment asks
for. `SoleInv` then counts: the directories newer than the last good one are at
most one per fault and one for the run at work, so that `prune` never reaches
it; a run that is alone finds its directory and its row (`NoGivingUp`); and
after the first result the index stays full (`NewestAreEnough`), so that the
panic of the SQL retention, which would leave a directory without a fault being
counted, is behind it. Without `Sole` it is false: section 5 says how.

`CasProofs`. `CasInv` says that every name, whether its file is damaged or
not, stands for the object it promises (`NamesAreTrue`); that a compaction past
its hash has read the digest its path has had all along, and holds that payload
in its temporary file (`IngestIsTrue`); that a repair has rebuilt the object
before it opens the name, and writes it into the very inode it has truncated
(`ScrubIsTrue`); and that until something rots or a repair is cut short all
files are whole, but for the one being rewritten (`WholeUntilRot`). The
property alone is not inductive: a rename or a link moves an inode to another
name, so the object of an inode must be known whatever its state. That is also
why a repair that opens another file than the one it checked still writes the
right object. `StoreDelivers` follows in every state and `RepairsWriteTheObject`
for every step. All three theorems, `CasInvariant` included, assume `~Beside`,
that compactions and backups take turns: with `Beside` the path may have
another payload than the one that was hashed, and `CasBeside.cfg` shows the
loss.

`ShardsProofs`. `ShardsTyped` is inductive by itself; its substance is that
`selectShardSource` and the assignment of shards answer with nodes they were
offered, for which a least element of a set of places is needed
(`LeastNumber`). `HealthIsTrue` is then a fact about the evaluation alone: the
shards readable outside any one domain are counted on records, and where the
records are true the shard files are at least as many. `OnlyCollectorsLose` is
an action property, one case per action: a record is made only with its file
there, and files leave a disk only by `GCRemove` and `GCOnAgent`.

`PlacementProofs`. `PlacementInv` says that only captured generations are
stored, indexed or on their way, that a captured generation stays on its node
until it is recorded, that the index has the newest generations recorded
(`IndexNewest`), and that a ready row stands for a directory or for one that
`Keep` newer ones have superseded there (`RowsTrue`); the last part needs
that retention removes a directory only under newer ones, which rests on the
cardinality of finite sets. An indexed generation has fewer than `Keep` newer
ones in the index, so where `Keep` newer directories have superseded it one of
them is not recorded: from this counting `RestoresAreRoutedToCopies` and
`HealthyGenerationsAreStored` follow. `PlacementImplementsCopies` shows that
initial states map to initial states and every action to `Make`, `Copy`,
`Relayed` or a stutter of `Copies` under the mapping `HeldBy`.

`BackupProofs`. `BackupInvariant` proves `BackupInv`, one part per thing that
several steps have to agree on:

- `Scoped`: only listed repositories are worked on and only the pieces asked
  for, so a sidecar that nobody refreshes does not exist.
- `Apart` and `Archives`: a run or a job that nobody is beside has the
  temporary name to itself, renames a complete archive and hashes a complete
  one. This is where `beside` is needed.
- `Saved`: between any two steps of `backupRepo`, as long as it has met neither
  error nor warning and no write was lost, the digests it holds are those of the
  files, and the sidecars of the pieces already passed match, or are those of
  payloads that are no longer offered (`Settled`).
- `Fed` and `Written`: the feeder hands out each repository once, so a manifest
  that is written lists what was done, and all of it unless cancelled, and
  its clean entries are what is on disk.
- `Reported`: what a run without error, warning or lost write left stays so until
  a job, a death or rot touches it; that a payload is withdrawn afterwards
  changes no file.

The proof has one lemma per step of `backupRepo`, which says what the step does
to its own repository, one that such a local step keeps the global invariant
(`RepoInv`), and one per step of the run. `WhatVerifiesRestores`
(`VerifyHonest`), `ShippedSetsVerify` (`ShippedSound`) and the action property
`FailuresStayListed` (`NothingForgotten`) follow without any hypothesis on the
configuration. `SuccessMeansSaved` (`ReportTrue`) assumes `Strict`: wherever a
KMS is configured, `require_valid` is set and more than one manifest is kept.
Both are needed, TLC refutes `ReportTrue` without either one. Without
`require_valid` a failed attestation is only logged
(`internal/backup/manager.go:188`) although `Verify` demands it
(`manager.go:684`). With `keep_manifests` 1, `Prune` counts
`latest.json.kms.json` as the newest manifest and removes the dated one just
written (`internal/manifest/manifest.go:138`). `DatedInv` is the invariant under
`Strict`.

Proved on paths the runs do not take: the theorems hold for any number of
repositories, versions and faults, with and without signature, in every
configuration.

Only model-checked: the nine liveness properties (`EveryJobSettles`,
`NoHandlerHangs`, `RotHealed`, `LostShardReturns`, both `PlacementConverges`,
`RepairConverges`, `BackupsRecur`, `VerifiesAgain`). Liveness under fairness,
and the `ENABLED` it rests on, are out of the prover's reach. Every invariant
and every action property of a passing run, and the two refinements, are
proved.

## 5. What is left out

- Of the modelled parts: configuration with the audit disabled, the contents of
  job payloads, log lines and messages, authorization of console requests, the
  limit of entries of the history page, cryptography (a hash or a signature
  identifies what it covers), and a checkpoint's key. `AppendWithCheckpoint`
  has no caller in the program.
- A cut write by a process that dies and one that returns an error leave the
  same file; both are in `CutShort`. A rename is atomic.
- Generations are checked for one run at a time: two overlapping backups of one
  repository, possible after an expired lease, may lose the last reported
  generation to each other's retention, and no document promises otherwise.
- `Cas` has one size per object: Ingest compares an existing blob by size, so
  rot, which keeps the length, goes unnoticed there, and a torn blob does not.
  `copyFile` of a package over a hard-linked payload is in `Backup` as a torn
  payload, not in `Cas` as a torn blob.
- `Shards` follows one object, and the placement of shards among several agents
  of one domain is some fixed choice (the code's rendezvous hash). The pool-wide
  reconciler of `cas_reconcile.go`, which compares inventories of digest
  prefixes between agents, is not modelled; the transfers it queues are those
  of `Shards`.
- `Placement` gives the reconciler all active jobs; the code's `ListJobs` gives
  it the 100 newest.
- `Backup` leaves out official exports, Projects v2 and the wiki, whose
  failures change nothing that Verify, Restore or Drill look at; several
  packages or assets of one repository are one of each kind. Two full runs at
  once, a configuration that changes between runs (a repository that is no longer
  listed keeps its files and sidecars) and rot in a mirror, which only `git fsck`
  would tell, are not modelled. The GitLab manager
  has the same order of steps without payloads and is not modelled apart.
- The in-memory store is a test double and differs from the SQL store.
- Offsite copies, PKI, web authentication, the probing of disks, configuration,
  provider APIs, notification and the stateless helpers are I/O or library
  calls; dashboards and metrics only read.

## 6. Plan

Done, in this order: `JobQueue`, `RestoreFlow`, `Transfer`, `Generations`,
`Audit`, `Console`, `Cas`, `Shards`, `Placement` on `Copies`, `Backup`.

Proved, in this order: the queue, the ledger and its use by the console, the
approval workflow, placement with its refinement of `Copies`, the shards, the
console's records, history and stream, the object store, the generations, the
transfer protocol, the backup root.

What a later extension would take up: the pool-wide reconciler of
`cas_reconcile.go`, the GitLab manager as a second instance of `Backup`, and
several objects in `Shards`, with the same layout: a module, an invariant stated
in it, a run, a proof module.
