------------------------------- MODULE Shards -------------------------------
(***************************************************************************)
(* Distributed erasure coding of one object: protect-erasure jobs encode   *)
(* it on the nodes that have it and register the shards (protectErasure),  *)
(* the reconciler spreads every shard over the failure domains             *)
(* (ErasureReconciler.Reconcile, desiredShardAgents) by replicate-cas and  *)
(* install-cas jobs (replicateCAS, installCAS), the health evaluation      *)
(* judges the records (EvaluateDistributedErasureHealth), and a node whose *)
(* scrub cannot repair the object is sent shards and a repair-object job   *)
(* (ScheduleDistributedRepair, repairObject).                              *)
(*                                                                         *)
(* The control-plane host, Local, takes part when include_local is set.    *)
(* Its worker has the SQL store and not a RemoteStore, so it can neither   *)
(* upload nor download a transfer.  The job queue is reduced to what       *)
(* JobQueue shows of it: at most one active job per kind and target, which *)
(* ends when it succeeds or when its last attempt fails (an attempt that   *)
(* fails and is retried changes nothing here).                             *)
(***************************************************************************)
EXTENDS Naturals, Sequences, FiniteSets

CONSTANTS
  Local,             \* the control-plane host
  Agents,            \* storage agents, in the order of their ids
  DomainOf,          \* node -> failure domain label
  Domains,           \* the domains in lexical order
  DataShards, ParityShards,
  ShardReplication,  \* storage.erasure.shard_replication
  MinFailureDomains, \* storage.erasure.min_failure_domains
  Starts,            \* include_local, whether a shard exceeds storage.chunk_bytes (by
                     \* default every one does), who has the object at first, and damaged
  NoJob,             \* no such job is active
  MaxFaults          \* bound: crashes, losses, damage and changes of a node's state

Storage == {Agents[k] : k \in DOMAIN Agents}
Nodes == Storage \cup {Local}

ASSUME ShardsAssumption ==
  /\ DataShards \in Nat /\ DataShards >= 2
  /\ {ParityShards, ShardReplication} \subseteq Nat \ {0}
  /\ {MinFailureDomains, MaxFaults} \subseteq Nat
  /\ Starts \subseteq [includeLocal : BOOLEAN, large : BOOLEAN,
                      holders : SUBSET Nodes, damaged : SUBSET Nodes]
  /\ \A s \in Starts : IsFiniteSet(s.damaged) /\ Cardinality(s.damaged) <= MaxFaults
  /\ Agents \in Seq(Storage)
  /\ Local \notin Storage

VARIABLES
  setup,        \* replication.include_local, and the size of the shards
  state,        \* what heartbeat and storage probe say of each node
  object,       \* the object's blob on each node
  dir,          \* its erasure directory on each node
  disk,         \* shard blobs on each node
  record,       \* erasure_shards rows in state ready, by node
  refs,         \* shards with an object_refs row
  protect,      \* next shard of each node's running protect-erasure job, or Done
  job,          \* active replicate-cas jobs
  install,      \* transfers uploaded whose install-cas job is open
  repair,       \* shards named by each node's active repair-object job, or NoJob
  gc,           \* what the running cas gc on the control-plane host protects, or NoJob
  faults        \* faults used up (bounded by MaxFaults)

vars == <<setup, state, object, dir, disk, record, refs, protect, job, install,
          repair, gc, faults>>

Index == 0 .. DataShards + ParityShards - 1
Done == DataShards + ParityShards

\* A transfer: placement of a shard on a node, or its fetching for a repair
\* there.  Kind, shard and target name its job; the source runs it.
Transfers == {"place", "repair"} \X Index \X Nodes \X Nodes
Idx(x) == x[2]
Target(x) == x[3]
Source(x) == x[4]

ShardsTypeOK ==
  /\ setup \in [includeLocal : BOOLEAN, large : BOOLEAN]
  /\ state \in [Nodes -> {"healthy", "tight", "degraded", "offline"}]
  /\ object \in [Nodes -> {"absent", "ok", "bad"}]
  /\ dir \in [Nodes -> {"absent", "ok", "poisoned"}]
  /\ disk \in [Nodes -> SUBSET Index]
  /\ record \in [Nodes -> SUBSET Index]
  /\ refs \subseteq Index
  /\ protect \in [Nodes -> 0 .. Done]
  /\ job \subseteq Transfers
  /\ install \subseteq Transfers
  /\ DOMAIN repair = Storage
  /\ \A n \in Storage : repair[n] = NoJob \/ repair[n] \subseteq Index
  /\ gc = NoJob \/ gc \subseteq Index
  /\ faults \in 0 .. MaxFaults

ShardsInit ==
  /\ \E s \in Starts :
       /\ setup = [includeLocal |-> s.includeLocal, large |-> s.large]
       /\ object = [n \in Nodes |-> IF n \in s.damaged THEN "bad"
                                   ELSE IF n \in s.holders THEN "ok" ELSE "absent"]
       /\ faults = Cardinality(s.damaged)
  /\ state = [n \in Nodes |-> "healthy"]
  /\ dir = [n \in Nodes |-> "absent"]
  /\ disk = [n \in Nodes |-> {}]
  /\ record = [n \in Nodes |-> {}]
  /\ refs = {}
  /\ protect = [n \in Nodes |-> Done]
  /\ job = {}
  /\ install = {}
  /\ repair = [n \in Storage |-> NoJob]
  /\ gc = NoJob

Fault == faults < MaxFaults /\ faults' = faults + 1

-----------------------------------------------------------------------------
(* Nodes, domains and the placement of a shard                             *)

\* ListAgents does not list the control-plane host; the reconciler adds it.
Pool == Storage \cup (IF setup.includeLocal THEN {Local} ELSE {})
Readable == {n \in Pool : state[n] # "offline"}
Eligible == {n \in Pool : state[n] \in {"healthy", "tight"}}

\* agentHasCapacityFor: room for a shard above min_free_bytes.
HasCapacity(n) == state[n] # "tight"

\* Nodes in the lexical order of their ids: Local's is the smallest.
Rank(n) == IF n = Local THEN 0 ELSE CHOOSE k \in DOMAIN Agents : Agents[k] = n
First(S) == CHOOSE n \in S : \A m \in S : Rank(n) <= Rank(m)

\* desiredShardAgents: walk the domains from the shard's own, one agent each,
\* wrapping; an exhausted domain gives way to any agent left.  The rendezvous
\* hash among several agents is some fixed choice.
desiredShardAgents == [eligible \in SUBSET Nodes, i \in Index |->
  LET doms == SelectSeq(Domains, LAMBDA d : \E n \in eligible : DomainOf[n] = d)
      pick[c \in 0 .. ShardReplication] ==
        IF c = 0 THEN {}
        ELSE LET used == pick[c - 1]
                 left == eligible \ used
                 near == {n \in left : DomainOf[n] = doms[((i + c - 1) % Len(doms)) + 1]}
             IN IF left = {} THEN used
                ELSE used \cup {CHOOSE n \in left : near # {} => n \in near}
  IN pick[ShardReplication]]

Desired(i) == desiredShardAgents[Eligible, i]

\* What jobs write, each in a call of its own: a shard blob on a node, its
\* object_refs row and its erasure_shards row.
PutShard(n, i) == disk' = [disk EXCEPT ![n] = @ \cup {i}]
EnsureObjectRef(i) == refs' = refs \cup {i}
RecordErasureShard(n, i) == record' = [record EXCEPT ![n] = @ \cup {i}]

\* selectShardSource: the first readable node with a ready record.
Sources(i) == {n \in Readable : i \in record[n]}

-----------------------------------------------------------------------------
(* protect-erasure on a node that has the object                           *)

\* The directory is read, or encoded afresh; a damaged object leaves one that
\* names other bytes, and the job fails then and ever after.
ProtectStart(n) ==
  /\ n \in Readable
  /\ protect[n] = Done
  /\ object[n] # "absent"
  /\ dir[n] # "poisoned"
  /\ record[n] # Index \/ disk[n] # Index
  /\ IF dir[n] = "ok" \/ object[n] = "ok"
       THEN /\ dir' = [dir EXCEPT ![n] = "ok"]
            /\ protect' = [protect EXCEPT ![n] = 0]
       ELSE /\ dir' = [dir EXCEPT ![n] = "poisoned"]
            /\ UNCHANGED protect
  /\ UNCHANGED <<setup, state, object, disk, record, refs, job, install, repair, gc, faults>>

\* Mutant: a shard on record is taken to be there.
ProtectShardTrusting(n) ==
  LET i == protect[n] IN
  /\ i \in Index
  /\ disk' = IF i \in record[n] THEN disk ELSE [disk EXCEPT ![n] = @ \cup {i}]
  /\ EnsureObjectRef(i)
  /\ RecordErasureShard(n, i)
  /\ protect' = [protect EXCEPT ![n] = i + 1]
  /\ UNCHANGED <<setup, state, object, dir, job, install, repair, gc, faults>>

\* Ingest, EnsureObjectRef, RecordErasureShard.
ProtectShard(n) ==
  LET i == protect[n] IN
  /\ i \in Index
  /\ PutShard(n, i)
  /\ EnsureObjectRef(i)
  /\ RecordErasureShard(n, i)
  /\ protect' = [protect EXCEPT ![n] = i + 1]
  /\ UNCHANGED <<setup, state, object, dir, job, install, repair, gc, faults>>

\* The job ends between two of the three.
ProtectDies(n) ==
  LET i == protect[n] IN
  /\ i \in Index
  /\ Fault
  /\ PutShard(n, i)
  /\ EnsureObjectRef(i) \/ UNCHANGED refs
  /\ protect' = [protect EXCEPT ![n] = Done]
  /\ UNCHANGED <<setup, state, object, dir, record, job, install, repair, gc>>

-----------------------------------------------------------------------------
(* ErasureReconciler.Reconcile: one pass                                   *)

\* Mutant: a shard that is ready anywhere is not missing.
MissingAnywhere(i, t) == (\A n \in Nodes : i \notin record[n]) /\ t \in Desired(i)

Missing(i, t) == i \notin record[t] /\ t \in Desired(i)

\* Enqueue and activeJobExists: only an active replicate-cas job counts.
Active(kind, i, t) == \E x \in job : x[1] = kind /\ Idx(x) = i /\ Target(x) = t

Planned ==
  {<<"place", x[1], x[2], First(Sources(x[1]))>> : x \in
     {y \in Index \X Pool : /\ Sources(y[1]) # {}
                            /\ ~Active("place", y[1], y[2])
                            /\ Missing(y[1], y[2])
                            /\ HasCapacity(y[2])
                            /\ First(Sources(y[1])) # y[2]}}

Reconcile ==
  /\ Planned # {}
  /\ job' = job \cup Planned
  /\ UNCHANGED <<setup, state, object, dir, disk, record, refs, protect, install, repair,
                 gc, faults>>

-----------------------------------------------------------------------------
(* replicate-cas and install-cas                                           *)

\* ArchiveDigests of the one shard: one that was collected has no file.
Archivable(x) == Idx(x) \in disk[Source(x)]

\* UploadReplicationFile: the local worker has no resumable store, and of several
\* chunks each is written at the start of the file (Transfer).
Whole(x) == Source(x) # Local /\ ~setup.large

\* The archive is encrypted and uploaded by the source, and the finalize handler
\* queues the install job, or refuses what is not whole.
Upload(x) ==
  /\ state[Source(x)] # "offline"
  /\ install' = IF Archivable(x) /\ Whole(x) THEN install \cup {x} ELSE install
  /\ job' = job \ {x}
  /\ UNCHANGED <<setup, state, object, dir, disk, record, refs, protect, repair, gc, faults>>

\* The last attempt is lost with its agent.
UploadLost(x) ==
  /\ Fault
  /\ job' = job \ {x}
  /\ UNCHANGED <<setup, state, object, dir, disk, record, refs, protect, install, repair, gc>>

\* Mutant: the target is taken to have the shard once the transfer is whole.
InstallUnextracted(x) ==
  /\ state[Target(x)] # "offline"
  /\ EnsureObjectRef(Idx(x))
  /\ RecordErasureShard(Target(x), Idx(x))
  /\ install' = install \ {x}
  /\ UNCHANGED <<setup, state, object, dir, disk, protect, job, repair, gc, faults>>

\* Extract verifies and renames the shard into the target's store; then the
\* reference, the record, and the end of the job.
Install(x) ==
  LET t == Target(x) IN
  /\ state[t] # "offline"
  /\ IF t = Local THEN UNCHANGED <<disk, refs, record>>
     ELSE PutShard(t, Idx(x)) /\ EnsureObjectRef(Idx(x)) /\ RecordErasureShard(t, Idx(x))
  /\ install' = install \ {x}
  /\ UNCHANGED <<setup, state, object, dir, protect, job, repair, gc, faults>>

\* The transfer expires, or the last attempt dies before or after Extract.
InstallFails(x) ==
  LET t == Target(x) IN
  /\ t # Local
  /\ Fault
  /\ PutShard(t, Idx(x)) \/ UNCHANGED disk
  /\ install' = install \ {x}
  /\ UNCHANGED <<setup, state, object, dir, record, refs, protect, job, repair, gc>>

-----------------------------------------------------------------------------
(* cas gc                                                                  *)

\* ProtectedObjectDigests: references, and leases of the transfers planned or
\* under way.
Leased == {Idx(x) : x \in job \cup install}

\* A store that cannot be read protects nothing, and nothing is reported.
GCStart ==
  /\ setup.includeLocal
  /\ gc = NoJob
  /\ \/ gc' = refs \cup Leased /\ UNCHANGED faults
     \/ gc' = {} /\ Fault
  /\ UNCHANGED <<setup, state, object, dir, disk, record, refs, protect, job, install, repair>>

GCRemove ==
  /\ gc # NoJob
  /\ disk' = [disk EXCEPT ![Local] = @ \cap gc]
  /\ gc' = NoJob
  /\ UNCHANGED <<setup, state, object, dir, record, refs, protect, job, install, repair, faults>>

\* On an agent's host the store that cas gc opens is not the control plane's:
\* it holds no reference at all.
GCOnAgent(n) ==
  /\ disk[n] # {}
  /\ Fault
  /\ disk' = [disk EXCEPT ![n] = {}]
  /\ UNCHANGED <<setup, state, object, dir, record, refs, protect, job, install, repair, gc>>

-----------------------------------------------------------------------------
(* Scrub reports and distributed repair                                    *)

Damage(n) ==
  /\ object[n] = "ok"
  /\ Fault
  /\ object' = [object EXCEPT ![n] = "bad"]
  /\ UNCHANGED <<setup, state, dir, disk, record, refs, protect, job, install, repair, gc>>

\* The scrub on the node repairs from the node's own directory if it can.
LocalRepair(n) ==
  /\ object[n] = "bad"
  /\ dir[n] = "ok"
  /\ object' = [object EXCEPT ![n] = "ok"]
  /\ UNCHANGED <<setup, state, dir, disk, record, refs, protect, job, install, repair, gc, faults>>

\* The nodes ScheduleDistributedRepair may use: heartbeat rows only.
Online == {n \in Storage : state[n] # "offline"}
RepairSource(i) == First({n \in Online : i \in record[n]})

\* The lowest DataShards indices with a record on an online agent.
RepairChoice ==
  LET have == {i \in Index : \E n \in Online : i \in record[n]}
  IN {i \in have : Cardinality({j \in have : j < i}) < DataShards}

\* Transfers of the chosen shards that the node does not have on record, and
\* the repair job if there are enough of them.
ScheduleRepair(n) ==
  LET fetch == {<<"repair", i, n, RepairSource(i)>> : i \in
                  {j \in RepairChoice : RepairSource(j) # n /\ ~Active("repair", j, n)}}
      enough == Cardinality(RepairChoice) >= DataShards
  IN
  /\ n \in Online
  /\ object[n] = "bad"
  /\ dir[n] # "ok"
  /\ fetch # {} \/ (enough /\ repair[n] = NoJob)
  /\ job' = job \cup fetch
  /\ repair' = IF enough /\ repair[n] = NoJob THEN [repair EXCEPT ![n] = RepairChoice] ELSE repair
  /\ UNCHANGED <<setup, state, object, dir, disk, record, refs, protect, install, gc, faults>>

\* Mutant: the job asks for one shard too many.
RepairObjectStrict(n) ==
  /\ repair[n] # NoJob
  /\ state[n] # "offline"
  /\ object' = IF Cardinality(repair[n] \cap disk[n]) > DataShards
                 THEN [object EXCEPT ![n] = "ok"] ELSE object
  /\ repair' = [repair EXCEPT ![n] = NoJob]
  /\ UNCHANGED <<setup, state, dir, disk, record, refs, protect, job, install, gc, faults>>

\* repairObject: link the shards that verify, reconstruct, rewrite in place;
\* or the last attempt has found too few of them.
RepairObject(n) ==
  /\ repair[n] # NoJob
  /\ state[n] # "offline"
  /\ object' = IF Cardinality(repair[n] \cap disk[n]) >= DataShards
                 THEN [object EXCEPT ![n] = "ok"] ELSE object
  /\ repair' = [repair EXCEPT ![n] = NoJob]
  /\ UNCHANGED <<setup, state, dir, disk, record, refs, protect, job, install, gc, faults>>

\* Heartbeats stop and resume, a probe finds the storage degraded.
ChangeState(n, s) ==
  /\ state[n] # s
  /\ s = "healthy" \/ faults < MaxFaults
  /\ state' = [state EXCEPT ![n] = s]
  /\ faults' = IF s = "healthy" THEN faults ELSE faults + 1
  /\ UNCHANGED <<setup, object, dir, disk, record, refs, protect, job, install, repair, gc>>

-----------------------------------------------------------------------------

ShardsNext ==
  \/ \E n \in Nodes : \/ ProtectStart(n) \/ ProtectShard(n) \/ ProtectDies(n)
                      \/ Damage(n) \/ LocalRepair(n)
  \/ Reconcile
  \/ \E x \in job : Upload(x) \/ UploadLost(x)
  \/ \E x \in install : Install(x) \/ InstallFails(x)
  \/ GCStart \/ GCRemove
  \/ \E n \in Storage : \/ GCOnAgent(n) \/ ScheduleRepair(n) \/ RepairObject(n)
                        \/ \E s \in {"healthy", "tight", "degraded", "offline"} : ChangeState(n, s)

\* Reconcilers and scrub jobs recur; jobs that can run are run, those of one
\* shard not for ever before those of another; a collector that started ends.  An
\* upload of more than two chunks does not end by itself.
ShardsFairness ==
  /\ WF_vars(Reconcile)
  /\ WF_vars(\E n \in Nodes : ProtectStart(n) \/ ProtectShard(n))
  /\ WF_vars(\E n \in Nodes : LocalRepair(n) \/ (n \in Storage /\ ScheduleRepair(n)))
  /\ WF_vars(\E n \in Storage : RepairObject(n))
  /\ \A i \in Index : /\ WF_vars(\E x \in job : Idx(x) = i /\ ~setup.large /\ Upload(x))
                      /\ WF_vars(\E x \in install : Idx(x) = i /\ Install(x))

ShardsSpec == ShardsInit /\ [][ShardsNext]_vars /\ ShardsFairness

-----------------------------------------------------------------------------
(* EvaluateDistributedErasureHealth                                        *)

\* Agents whose copies count: degraded ones do, unless evacuated; Local never.
Durable == {n \in Nodes \ {Local} : state[n] # "offline"}

Copies(i) == {DomainOf[n] : n \in {m \in Durable : i \in record[m]}}

\* Mutant: no domain is taken away.
ResilientAsWhole ==
  \A lost \in UNION {Copies(i) : i \in Index} :
    Cardinality({i \in Index : Copies(i) # {}}) >= DataShards

Resilient ==
  \A lost \in UNION {Copies(i) : i \in Index} :
    Cardinality({i \in Index : Copies(i) \ {lost} # {}}) >= DataShards

Health ==
  LET have == {i \in Index : Copies(i) # {}} IN
  CASE Cardinality(have) < DataShards -> "unrecoverable"
    [] Cardinality(UNION {Copies(i) : i \in Index}) < MinFailureDomains -> "degraded"
    [] ~Resilient -> "degraded"
    [] OTHER -> "healthy"

-----------------------------------------------------------------------------
(* Properties                                                              *)

\* Where no collection took a recorded shard away, an object that the health
\* evaluation calls healthy survives the loss of any one failure domain: the
\* shard files outside it suffice.
HealthTrue ==
  (Health = "healthy" /\ \A n \in Durable : record[n] \subseteq disk[n])
    => \A lost \in {DomainOf[n] : n \in Nodes} :
         Cardinality(UNION {disk[n] : n \in {m \in Durable : DomainOf[m] # lost}}) >= DataShards

\* A record without its shard comes of a shard that was there and was
\* collected: no order of protection, transfer, repair and failure puts a shard
\* on record that the node does not have.
OnlyCollectorLoses ==
  [][\A n \in Nodes : (record'[n] \ disk'[n]) \ (record[n] \ disk[n]) \subseteq disk[n]]_vars

\* docs/V0.8.0.md: a collection must preserve any digest with a durable
\* reference or an active lease (ProtectedObjectDigests, cas gc).
ReferencedKept == [][\A n \in Nodes : disk[n] \cap (refs \cup Leased) \subseteq disk'[n]]_vars

\* A shard that a collector took from a node that protects the object comes
\* back: the next protect-erasure job ingests it again.
LostShardReturns ==
  []<>(\A n \in Nodes : (dir[n] = "ok" /\ state[n] # "offline") => record[n] \subseteq disk[n])

\* Some agent has every shard on record and the agents are healthy.
Placeable == /\ \E n \in Nodes : record[n] = Index
             /\ \A n \in Storage : state[n] = "healthy"

\* Without include_local, as long as the object can be placed the reconciler
\* brings it to health and keeps it there, whatever transfers were lost: an
\* object whose shards fit one chunk.
PlacementConverges == <>[](Placeable /\ ~setup.includeLocal /\ ~setup.large => Health = "healthy")

\* The same whether or not the control-plane host takes part (ShardsLocal).
PlacementConvergesWithLocal == <>[](Placeable /\ ~setup.large => Health = "healthy")

\* The same for shards of any size (ShardsLarge).
PlacementConvergesAtAnySize == <>[](Placeable /\ ~setup.includeLocal => Health = "healthy")

\* A damaged object on an agent, whether the agent has an erasure directory or
\* not, is repaired as long as the agents' records are true and name every
\* shard: if a shard fits one chunk, or the agent has a directory.
RepairConverges ==
  \A n \in Storage :
    []<>(object[n] = "bad" => \/ ~Placeable
                              \/ setup.large /\ dir[n] # "ok"
                              \/ \E m \in Storage : ~(record[m] \subseteq disk[m]))

=============================================================================
