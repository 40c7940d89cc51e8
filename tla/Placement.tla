------------------------------ MODULE Placement ------------------------------
(***************************************************************************)
(* The replicated generations of one repository, from the schedule to the  *)
(* restore: discovery and the due-time scheduler (Scheduler), the backup   *)
(* job that any node may lease (Runner.backupRepository), the placement of *)
(* the generations over nodes and failure domains                          *)
(* (ReplicationReconciler.Reconcile) by replicate-generation and           *)
(* install-replica jobs, the health report (ReplicationHealthWithStorage)  *)
(* and the choice of the node that serves a restore                        *)
(* (SelectRestoreAffinityWithStorage).                                     *)
(*                                                                         *)
(* Generations has the steps of a capture and Transfer the bytes of a      *)
(* transfer; here each is one step, or its failure.  Jobs are reduced to   *)
(* what JobQueue shows: one active job per kind and target, which ends     *)
(* when it succeeds or when its last attempt fails.                        *)
(***************************************************************************)
EXTENDS Naturals, FiniteSets, Functions

CONSTANTS
  Local,            \* the control-plane host, which takes part (include_local)
  Agents,           \* storage agents
  DomainOf,         \* node -> failure domain label
  Rank,             \* node -> place in the order by bandwidth and id
  Fickle, Ills,     \* nodes whose health may change, and what for
  Factor,           \* replication.factor
  MinHealthy,       \* replication.min_healthy
  MinDomains,       \* replication.min_failure_domains
  EvacuateDegraded, \* storage.evacuate_degraded
  Keep,             \* generations.keep_per_repo
  Large,            \* generations whose encrypted archive exceeds storage.chunk_bytes
  MaxGens,          \* bound: generations captured
  MaxFaults,        \* bound: deaths, losses and changes for the worse
  None, Relay

Nodes == Agents \cup {Local}
Gens == 1 .. MaxGens

ASSUME PlacementAssumption ==
  /\ IsFiniteSet(Agents) /\ Rank \in Injection(Nodes, Nat)
  /\ Local \notin Agents /\ Relay \notin Nodes /\ None \notin Nodes
  /\ {Factor, MinHealthy, Keep} \subseteq Nat \ {0}
  /\ {MinDomains, MaxGens, MaxFaults} \subseteq Nat
  /\ EvacuateDegraded \in BOOLEAN
  /\ Large \subseteq Gens
  /\ Fickle \subseteq Nodes
  /\ Ills \subseteq {"tight", "full", "degraded", "unhealthy", "offline"}

VARIABLES
  upstream, \* the provider lists the repository
  repo,     \* its row: known, enabled, and next_run_at passed
  sched,    \* the scheduler between Enqueue and MarkScheduled
  backup,   \* the backup-repo job
  health,   \* what heartbeat and storage probe say of each node
  latest,   \* the newest generation captured
  dirs,     \* generation directories on each node
  index,    \* the generations table
  rows,     \* ready rows of generation_replicas, by node
  jobs,     \* active replicate-generation jobs <<generation, source, target>>
  installs, \* transfers whose install-replica job is active
  faults    \* faults used up (bounded by MaxFaults)

schedVars == <<upstream, repo, sched>>
placeVars == <<jobs, installs>>
storeVars == <<latest, dirs, index, rows>>
vars == <<schedVars, backup, health, storeVars, placeVars, faults>>

NoBackup == [phase |-> "none", node |-> None]

PlacementTypeOK ==
  /\ upstream \in BOOLEAN
  /\ repo \in [known : BOOLEAN, enabled : BOOLEAN, due : BOOLEAN]
  /\ sched \in {"idle", "enqueued"}
  /\ backup \in [phase : {"none", "queued", "captured"}, node : Nodes \cup {None}]
  /\ health \in [Nodes -> {"healthy", "tight", "full", "degraded", "unhealthy", "offline"}]
  /\ latest \in 0 .. MaxGens
  /\ dirs \in [Nodes -> SUBSET Gens]
  /\ index \subseteq Gens
  /\ rows \in [Nodes -> SUBSET index]
  /\ jobs \subseteq Gens \X Nodes \X Nodes
  /\ installs \subseteq Gens \X Nodes \X Nodes
  /\ faults \in 0 .. MaxFaults

PlacementInit ==
  /\ upstream = TRUE
  /\ repo = [known |-> FALSE, enabled |-> FALSE, due |-> FALSE]
  /\ sched = "idle"
  /\ backup = NoBackup
  /\ health = [n \in Nodes |-> "healthy"]
  /\ latest = 0
  /\ dirs = [n \in Nodes |-> {}]
  /\ index = {}
  /\ rows = [n \in Nodes |-> {}]
  /\ jobs = {} /\ installs = {}
  /\ faults = 0

Fault == faults < MaxFaults /\ faults' = faults + 1

-----------------------------------------------------------------------------
(* Discovery and schedule                                                  *)

UpstreamChanges ==
  /\ Fault
  /\ upstream' = ~upstream
  /\ UNCHANGED <<repo, sched, backup, health, storeVars, placeVars>>

\* Mutant: discovery starts the interval anew.
SyncRestartsInterval ==
  /\ repo' = IF upstream THEN [known |-> TRUE, enabled |-> TRUE, due |-> FALSE]
             ELSE [repo EXCEPT !.enabled = FALSE]
  /\ UNCHANGED <<upstream, sched, backup, health, storeVars, placeVars, faults>>

\* UpsertRepository keeps next_run_at of a known row; DisableMissingRepositories.
SyncRepositories ==
  /\ repo' = IF upstream THEN [known |-> TRUE, enabled |-> TRUE, due |-> repo.known => repo.due]
             ELSE [repo EXCEPT !.enabled = FALSE]
  /\ UNCHANGED <<upstream, sched, backup, health, storeVars, placeVars, faults>>

IntervalPasses ==
  /\ repo.known
  /\ latest < MaxGens
  /\ ~repo.due
  /\ repo' = [repo EXCEPT !.due = TRUE]
  /\ UNCHANGED <<upstream, sched, backup, health, storeVars, placeVars, faults>>

\* EnqueueDue: an active backup job of the repository absorbs the new one.
EnqueueDue ==
  /\ sched = "idle"
  /\ repo.enabled /\ repo.due
  /\ sched' = "enqueued"
  /\ backup' = IF backup.phase = "none" THEN [phase |-> "queued", node |-> None] ELSE backup
  /\ UNCHANGED <<upstream, repo, health, storeVars, placeVars, faults>>

MarkScheduled ==
  /\ sched = "enqueued"
  /\ sched' = "idle"
  /\ repo' = [repo EXCEPT !.due = FALSE]
  /\ UNCHANGED <<upstream, backup, health, storeVars, placeVars, faults>>

SchedulerDies ==
  /\ sched = "enqueued"
  /\ Fault
  /\ sched' = "idle"
  /\ UNCHANGED <<upstream, repo, backup, health, storeVars, placeVars>>

-----------------------------------------------------------------------------
(* backup-repo, on whichever node leases it                                *)

Newest(S) == {g \in S : Cardinality({h \in S : h > g}) < Keep}

\* The capture, and the retention of directories on the node.
Capture(n) ==
  LET g == latest + 1 IN
  /\ backup.phase = "queued"
  /\ health[n] # "offline"
  /\ g \in Gens
  /\ latest' = g
  /\ dirs' = [dirs EXCEPT ![n] = Newest(@ \cup {g})]
  /\ backup' = [phase |-> "captured", node |-> n]
  /\ UNCHANGED <<schedVars, health, index, rows, placeVars, faults>>

\* RecordGeneration, RecordReplica, and PruneGenerationRecords with its
\* cascade to the replica rows.
RecordBackup ==
  LET kept == Newest(index \cup {latest}) IN
  /\ backup.phase = "captured"
  /\ index' = kept
  /\ rows' = [n \in Nodes |-> (rows[n] \cup (IF n = backup.node THEN {latest} ELSE {})) \cap kept]
  /\ backup' = NoBackup
  /\ UNCHANGED <<schedVars, health, latest, dirs, placeVars, faults>>

\* The node dies before or after the capture: the lease expires and the job
\* is run again, or this was its last attempt.
BackupDies ==
  /\ backup.phase # "none"
  /\ Fault
  /\ backup' \in {NoBackup, [phase |-> "queued", node |-> None]}
  /\ UNCHANGED <<schedVars, health, storeVars, placeVars>>

-----------------------------------------------------------------------------
(* ReplicationReconciler.Reconcile, for one generation of the index        *)

Online == {n \in Nodes : health[n] # "offline"}
CountsDurable(n) == \/ health[n] \in {"healthy", "tight", "full"}
                    \/ health[n] = "degraded" /\ ~EvacuateDegraded
TargetEligible == {n \in Nodes : health[n] \in {"healthy", "tight"}}
With(g) == {n \in Nodes : g \in rows[n]}
DomainsOf(S) == {DomainOf[n] : n \in S}

\* Replicas of absent nodes count towards the factor, unless the last word of
\* the node was that its storage fails.
Ready(g) == {n \in With(g) : EvacuateDegraded => health[n] = "offline" \/ CountsDurable(n)}

Above(a, b) == IF a > b THEN a - b ELSE 0
Larger(a, b) == IF a > b THEN a ELSE b

\* Mutant: only the number of copies is made up.
NeedCopiesOnly(g) == Above(Factor, Cardinality(Ready(g)))

Need(g) ==
  LET healthyReady == With(g) \cap TargetEligible
  IN Larger(Above(Factor, Cardinality(Ready(g))),
            Larger(Above(MinHealthy, Cardinality(healthyReady)),
                   Above(MinDomains, Cardinality(DomainsOf(healthyReady)))))

Sources(g) == With(g) \cap Online

\* Sources in the order used: those whose storage counts before the others,
\* then by bandwidth and id.
Earlier(m, n) == IF CountsDurable(m) # CountsDurable(n) THEN CountsDurable(m) ELSE Rank[m] < Rank[n]
SourcePlace(g, n) == Cardinality({m \in Sources(g) : Earlier(m, n)})

\* agentHasCapacityFor: a tight node is healthy, and has room above min_free_bytes
\* for the smaller generations only.
HasCapacityFor(n, g) == health[n] = "tight" => g \notin Large

\* Targets in an order that depends on bandwidth and space, but new domains
\* come first: the first Need(g) of them.
Targets(g) ==
  LET all == {n \in TargetEligible \ Ready(g) : HasCapacityFor(n, g)}
      fresh == {n \in all : DomainOf[n] \notin DomainsOf(With(g) \cap TargetEligible)}
  IN {T \in SUBSET all : /\ Cardinality(T) = (IF Need(g) < Cardinality(all) THEN Need(g)
                                               ELSE Cardinality(all))
                         /\ T \subseteq fresh \/ fresh \subseteq T}

\* Work in flight is known by generation@node: the install jobs that the
\* server queues for an agent's upload carry the transfer's id as well.
Busy(g, t) == \/ \E s \in Nodes : <<g, s, t>> \in jobs
              \/ <<g, Local, t>> \in installs

\* The i-th target takes the i-th source, round the sources.
Reconcile(g) ==
  /\ g \in index
  /\ Sources(g) # {}
  /\ \E T \in Targets(g) : \E order \in Bijection(1 .. Cardinality(T), T) :
       LET new == {x \in {g} \X Sources(g) \X T : \E i \in DOMAIN order :
                     x[3] = order[i] /\ SourcePlace(g, x[2]) = (i - 1) % Cardinality(Sources(g))}
           todo == {x \in new : ~Busy(g, x[3])}
       IN todo # {} /\ jobs' = jobs \cup todo
  /\ UNCHANGED <<schedVars, backup, health, storeVars, installs, faults>>

-----------------------------------------------------------------------------
(* replicate-generation and install-replica                                *)

\* An agent uploads its archive in chunks, each written at the start of the file
\* by the handler of its request (Transfer): more than one make no whole
\* archive.  The local worker puts the archive into the spool itself.
Whole(x) == x[2] = Local \/ x[1] \notin Large

\* Mutant: the transfer goes ahead without the directory.
ReplicateUnchecked(x) ==
  /\ health[x[2]] # "offline"
  /\ jobs' = jobs \ {x}
  /\ installs' = IF Whole(x) THEN installs \cup {x} ELSE installs
  /\ UNCHANGED <<schedVars, backup, health, storeVars, faults>>

\* generation.Find on the source, then archive, upload and the install job.  A
\* directory that is gone fails the job, and so does finalize where the upload
\* is not whole.
Replicate(x) ==
  /\ health[x[2]] # "offline"
  /\ jobs' = jobs \ {x}
  /\ installs' = IF x[1] \in dirs[x[2]] /\ Whole(x) THEN installs \cup {x} ELSE installs
  /\ UNCHANGED <<schedVars, backup, health, storeVars, faults>>

\* Mutant: the row is written before the directory is in place.
InstallRowFirst(x) ==
  LET g == x[1]
      t == x[3] IN
  /\ health[t] # "offline"
  /\ installs' = installs \ {x}
  /\ rows' = IF g \in index THEN [rows EXCEPT ![t] = @ \cup {g}] ELSE rows
  /\ UNCHANGED <<schedVars, backup, health, latest, dirs, index, jobs, faults>>

\* The directory is renamed into place; a generation that has left the index
\* meanwhile has no row to be recorded under, and the directory stays.
Install(x) ==
  LET g == x[1]
      t == x[3] IN
  /\ health[t] # "offline"
  /\ installs' = installs \ {x}
  /\ dirs' = [dirs EXCEPT ![t] = @ \cup {g}]
  /\ rows' = IF g \in index THEN [rows EXCEPT ![t] = @ \cup {g}] ELSE rows
  /\ UNCHANGED <<schedVars, backup, health, latest, index, jobs, faults>>

\* The last attempt is lost, or the transfer expires
\* (CleanupExpiredReplicationTransfers).
TransferLost ==
  /\ Fault
  /\ \/ \E x \in jobs : jobs' = jobs \ {x} /\ UNCHANGED installs
     \/ \E x \in installs : installs' = installs \ {x} /\ UNCHANGED jobs
  /\ UNCHANGED <<schedVars, backup, health, storeVars>>

\* HeartbeatAgent, or the lack of it; the local probe.
HealthChanges(n, h) ==
  /\ health[n] # h
  /\ n = Local => h # "offline"
  /\ IF h = "healthy" THEN UNCHANGED faults ELSE Fault
  /\ health' = [health EXCEPT ![n] = h]
  /\ UNCHANGED <<schedVars, backup, storeVars, placeVars>>

-----------------------------------------------------------------------------

PlacementNext ==
  \/ UpstreamChanges \/ SyncRepositories \/ IntervalPasses
  \/ EnqueueDue \/ MarkScheduled \/ SchedulerDies
  \/ \E n \in Nodes : Capture(n)
  \/ RecordBackup \/ BackupDies
  \/ \E g \in Gens : Reconcile(g)
  \/ \E x \in jobs : Replicate(x)
  \/ \E x \in installs : Install(x)
  \/ TransferLost
  \/ \E n \in Fickle, h \in Ills \cup {"healthy"} : HealthChanges(n, h)

\* Tickers fire, time passes, and jobs that can run are run.  An upload of more
\* than two chunks comes to no end: the offset it asks for is the first chunk's,
\* and it sends the second one again.
PlacementFairness ==
  /\ WF_vars(SyncRepositories) /\ WF_vars(IntervalPasses)
  /\ WF_vars(EnqueueDue) /\ WF_vars(MarkScheduled)
  /\ WF_vars(\E n \in Nodes : Capture(n)) /\ WF_vars(RecordBackup)
  /\ \A g \in Gens : /\ WF_vars(Reconcile(g))
                     /\ WF_vars(\E x \in jobs : x[1] = g /\ Whole(x) /\ Replicate(x))
                     /\ WF_vars(\E x \in installs : x[1] = g /\ Install(x))

PlacementSpec == PlacementInit /\ [][PlacementNext]_vars /\ PlacementFairness

-----------------------------------------------------------------------------
(* What the control plane says of the generations                          *)

\* ReplicationHealthWithStorage: the local node counts whatever its storage.
Counted == {n \in Agents : health[n] # "offline" /\ CountsDurable(n)} \cup {Local}

\* Mutant: replicas are counted on every node.
HealthyAnywhere(g) ==
  /\ Cardinality(With(g)) >= MinHealthy
  /\ Cardinality(DomainsOf(With(g))) >= MinDomains

Healthy(g) ==
  /\ Cardinality(With(g) \cap Counted) >= MinHealthy
  /\ Cardinality(DomainsOf(With(g) \cap Counted)) >= MinDomains

\* SelectRestoreAffinityWithStorage, for any preference and order of ids.
RestoreAffinity(g) ==
  {n \in With(g) : n = Local \/ health[n] \notin {"offline", "unhealthy"}}

-----------------------------------------------------------------------------
(* Properties                                                              *)

\* The node has captured a newer generation that is not recorded, because the
\* backup is not that far or has died: its retention has counted generations
\* that the index does not know.
Overtaken(g, n) == \E h \in dirs[n] \ index : h > g

\* A restore is routed to a node that has the generation, unless the node has
\* captured a newer one that is not recorded.
RestoreRoutedToCopy ==
  \A g \in index : \A n \in RestoreAffinity(g) : g \in dirs[n] \/ Overtaken(g, n)

Holding(g) == {n \in Online : g \in dirs[n]}

\* A generation reported healthy is on MinHealthy nodes that can be read, in
\* MinDomains domains, unless one of those counted has captured a newer one that
\* is not recorded.
HealthyIsStored ==
  \A g \in index :
    Healthy(g) /\ ~(\E n \in With(g) \cap Counted : Overtaken(g, n))
      => /\ Cardinality(Holding(g)) >= MinHealthy
         /\ Cardinality(DomainsOf(Holding(g))) >= MinDomains

\* docs/CONTROL_PLANE.md and docs/HA_REPLICATION.md: no stale row appears
\* restorable, and only a node that has the generation is selected; with no
\* backup between its capture and its record (PlacementStale).
RestoreHasCopy ==
  backup.phase # "captured" =>
    \A g \in index : RestoreAffinity(g) \subseteq {n \in Nodes : g \in dirs[n]}

\* What a report of health says, with no other exception (PlacementStale).
HealthyHasCopies ==
  backup.phase # "captured" =>
    \A g \in index :
      Healthy(g) => /\ Cardinality(Holding(g)) >= MinHealthy
                    /\ Cardinality(DomainsOf(Holding(g))) >= MinDomains

\* Who has a copy: the nodes by their directories, the relay while the transfer
\* of an install job is in its spool.
HeldBy == [g \in Gens |-> {n \in Nodes : g \in dirs[n]}
                          \cup {r \in {Relay} : \E x \in installs : x[1] = g}]

\* The generations and their copies, the relay's included, behave as Copies
\* says: nothing is copied from nowhere, nothing is lost but to retention.
Replicated == INSTANCE Copies WITH
  Holders <- Nodes \cup {Relay},
  Stamps <- Gens,
  Retained <- Keep,
  newest <- latest,
  copies <- HeldBy
ImplementsCopies == Replicated!CopiesSpec

\* A repository that stays listed is backed up again and again (MaxGens
\* times), however often discovery rewrites its row, whenever the scheduler
\* dies between Enqueue and MarkScheduled, and whichever backups die.
BackupsRecur == <>[](upstream => latest = MaxGens)

\* Its rows are true, and all nodes are healthy.
Placeable(g) ==
  /\ \A n \in Nodes : health[n] = "healthy"
  /\ \A n \in With(g) : g \in dirs[n]
  /\ With(g) # {}

\* Once nodes stay healthy, every generation of the index whose rows are true
\* becomes and stays healthy, whatever transfers were lost: if its archive fits
\* one chunk, or the control-plane host alone has it.
PlacementConverges ==
  <>[](\A g \in index :
         Placeable(g) /\ (g \in Large => With(g) = {Local}) => Healthy(g))

\* The same for an archive of any size, wherever it is (PlacementLarge).
PlacementConvergesAtAnySize == <>[](\A g \in index : Placeable(g) => Healthy(g))

-----------------------------------------------------------------------------
(* The inductive invariant behind the safety properties                    *)

\* Only what was captured is stored, indexed or on its way.
OnlyMade ==
  /\ index \subseteq 1 .. latest
  /\ \A n \in Nodes : dirs[n] \subseteq 1 .. latest
  /\ \A x \in jobs \cup installs : x[1] \in 1 .. latest

\* A backup that has yet to be recorded is stored where it was made.
CapturedStored ==
  backup.phase = "captured" =>
    backup.node \in Nodes /\ latest \in dirs[backup.node]

\* The index has the newest generations recorded.
IndexNewest == \A g \in index : Cardinality({h \in index : h > g}) < Keep

\* A row without its directory is one that retention took: the node has Keep
\* newer generations instead.
Superseded(g, n) == Cardinality({h \in dirs[n] : h > g}) >= Keep

\* A ready row stands for a directory, or for one that retention took.
RowsTrue == \A n \in Nodes : \A g \in rows[n] : g \in dirs[n] \/ Superseded(g, n)

PlacementInv ==
  /\ PlacementTypeOK
  /\ health[Local] # "offline"
  /\ OnlyMade
  /\ CapturedStored
  /\ IndexNewest
  /\ RowsTrue

=============================================================================
