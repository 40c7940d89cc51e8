---------------------------- MODULE ShardsProofs ----------------------------
(***************************************************************************)
(* Proofs about the distributed erasure shards of Shards, for every set of *)
(* agents, every assignment of failure domains and every number of data    *)
(* and parity shards: types, the truth of the health evaluation, and that  *)
(* a record is without its shard only because a collection took the shard. *)
(***************************************************************************)
EXTENDS Shards, FiniteSetTheorems, TLAPS

-----------------------------------------------------------------------------
(* Operators                                                               *)

\* A non-empty set of natural numbers has a least element.
LEMMA LeastNumber ==
  ASSUME NEW T \in SUBSET Nat, T # {}
  PROVE  \E x \in T : \A y \in T : x <= y
  <1> DEFINE R == OpToRel(<, Nat)
  <1>1. IsWellFoundedOn(R, Nat)
    BY NatLessThanWellFounded
  <1>2. \A x, y \in Nat : x < y => <<x, y>> \in R
    BY DEF OpToRel
  <1> HIDE DEF R
  <1>3. PICK x \in T : \A y \in T : <<y, x>> \notin R
    BY <1>1, WFMin
  <1>4. ASSUME NEW y \in T PROVE x <= y
    <2>1. x \in Nat /\ y \in Nat /\ ~(y < x)
      BY <1>2, <1>3
    <2> QED
      BY <2>1
  <1> QED
    BY <1>4

\* Every node has a place in the order of the ids.
LEMMA Ranked == \A n \in Nodes : Rank(n) \in Nat
  <1>1. DOMAIN Agents \subseteq Nat
    BY ShardsAssumption
  <1>2. ASSUME NEW n \in Nodes PROVE Rank(n) \in Nat
    <2>1. CASE n = Local
      BY <2>1 DEF Rank
    <2>2. CASE n # Local
      <3>1. \E k \in DOMAIN Agents : Agents[k] = n
        BY <2>2 DEF Nodes, Storage
      <3> QED
        BY <1>1, <2>2, <3>1 DEF Rank
    <2> QED
      BY <2>1, <2>2
  <1> QED
    BY <1>2

\* selectShardSource finds one of the candidates when there is any.
LEMMA FirstIsIn ==
  ASSUME NEW S \in SUBSET Nodes, S # {}
  PROVE  First(S) \in S
  <1> DEFINE T == {Rank(n) : n \in S}
  <1>1. T \in SUBSET Nat /\ T # {}
    BY Ranked
  <1>2. PICK x \in T : \A y \in T : x <= y
    BY <1>1, LeastNumber
  <1>3. PICK n \in S : Rank(n) = x
    BY <1>2
  <1>4. \A m \in S : Rank(n) <= Rank(m)
    BY <1>2, <1>3
  <1> QED
    BY <1>3, <1>4 DEF First

\* The shards of an object are finitely many, and their indices numbers.
LEMMA Indices ==
  /\ IsFiniteSet(Index)
  /\ Done \in Nat
  /\ \A i \in Index : i \in 0 .. Done /\ i + 1 \in 0 .. Done
  <1>1. DataShards \in Nat /\ ParityShards \in Nat /\ DataShards >= 2
    BY ShardsAssumption
  <1>2. 0 \in Int /\ DataShards + ParityShards - 1 \in Int
    BY <1>1
  <1>3. IsFiniteSet(Index)
    BY <1>2, FS_Interval DEF Index
  <1> QED
    BY <1>1, <1>3 DEF Index, Done

\* Sets of shards compare by inclusion.
LEMMA FewerShards ==
  ASSUME NEW S \in SUBSET Index, NEW T \in SUBSET S
  PROVE  /\ Cardinality(S) \in Nat
         /\ Cardinality(T) \in Nat
         /\ Cardinality(T) <= Cardinality(S)
  BY Indices, FS_Subset, FS_CardinalityType

-----------------------------------------------------------------------------
(* Types                                                                   *)

\* A pass of the reconciler plans transfers between nodes.
LEMMA PlannedTyped == Planned \subseteq Transfers
  <1>1. ASSUME NEW x \in Index \X Pool, Sources(x[1]) # {}
        PROVE  <<"place", x[1], x[2], First(Sources(x[1]))>> \in Transfers
    <2>1. Sources(x[1]) \in SUBSET Nodes
      BY DEF Sources, Readable, Pool, Nodes
    <2>2. First(Sources(x[1])) \in Nodes
      BY <1>1, <2>1, FirstIsIn
    <2>3. x[1] \in Index /\ x[2] \in Nodes
      BY DEF Pool, Nodes
    <2> QED
      BY <2>2, <2>3 DEF Transfers
  <1> QED
    BY <1>1 DEF Planned

\* A repair fetches shards from online agents.
LEMMA RepairTyped ==
  /\ RepairChoice \subseteq Index
  /\ \A i \in RepairChoice : RepairSource(i) \in Nodes
  <1>1. RepairChoice \subseteq Index
    BY DEF RepairChoice
  <1>2. ASSUME NEW i \in RepairChoice PROVE RepairSource(i) \in Nodes
    <2> DEFINE S == {n \in Online : i \in record[n]}
    <2>1. S # {}
      BY DEF RepairChoice
    <2>2. S \in SUBSET Nodes
      BY DEF Online, Nodes
    <2>3. First(S) \in S
      BY <2>1, <2>2, FirstIsIn
    <2> QED
      BY <2>2, <2>3 DEF RepairSource
  <1> QED
    BY <1>1, <1>2

\* The start: faults counts the damage that is there already.
LEMMA InitTyped == ShardsInit => ShardsTypeOK
  <1> SUFFICES ASSUME ShardsInit PROVE ShardsTypeOK
    OBVIOUS
  <1>1. PICK s \in Starts :
          /\ setup = [includeLocal |-> s.includeLocal, large |-> s.large]
          /\ object = [n \in Nodes |-> IF n \in s.damaged THEN "bad"
                                      ELSE IF n \in s.holders THEN "ok" ELSE "absent"]
          /\ faults = Cardinality(s.damaged)
    BY DEF ShardsInit
  <1>2. s.includeLocal \in BOOLEAN /\ s.large \in BOOLEAN
    BY ShardsAssumption
  <1>3. faults \in 0 .. MaxFaults
    <2>1. IsFiniteSet(s.damaged) /\ faults <= MaxFaults /\ MaxFaults \in Nat
      BY <1>1, ShardsAssumption
    <2>2. faults \in Nat
      BY <1>1, <2>1, FS_CardinalityType
    <2> QED
      BY <2>1, <2>2
  <1>4. object \in [Nodes -> {"absent", "ok", "bad"}]
    BY <1>1
  <1>5. protect \in [Nodes -> 0 .. Done]
    BY Indices DEF ShardsInit
  <1> QED
    BY <1>1, <1>2, <1>3, <1>4, <1>5 DEF ShardsInit, ShardsTypeOK

\* Protection of the object on a node, and damage to it.
LEMMA ProtectTyped ==
  ASSUME ShardsTypeOK, NEW n \in Nodes,
         \/ ProtectStart(n) \/ ProtectShard(n) \/ ProtectDies(n) \/ Damage(n) \/ LocalRepair(n)
  PROVE  ShardsTypeOK'
  <1>1. CASE ProtectStart(n)
    <2>1. 0 \in 0 .. Done
      BY Indices
    <2> QED
      BY <1>1, <2>1 DEF ProtectStart, ShardsTypeOK
  <1>2. CASE ProtectShard(n)
    <2>1. protect[n] \in Index /\ protect[n] + 1 \in 0 .. Done
      BY <1>2, Indices DEF ProtectShard
    <2> QED
      BY <1>2, <2>1 DEF ProtectShard, PutShard, EnsureObjectRef, RecordErasureShard, ShardsTypeOK
  <1>3. CASE ProtectDies(n)
    <2>1. Done \in 0 .. Done
      BY Indices
    <2>2. faults' \in 0 .. MaxFaults
      BY <1>3, ShardsAssumption DEF ProtectDies, Fault, ShardsTypeOK
    <2> QED
      BY <1>3, <2>1, <2>2 DEF ProtectDies, PutShard, EnsureObjectRef, ShardsTypeOK
  <1>4. CASE Damage(n)
    <2>1. faults' \in 0 .. MaxFaults
      BY <1>4, ShardsAssumption DEF Damage, Fault, ShardsTypeOK
    <2> QED
      BY <1>4, <2>1 DEF Damage, ShardsTypeOK
  <1>5. CASE LocalRepair(n)
    BY <1>5 DEF LocalRepair, ShardsTypeOK
  <1> QED
    BY <1>1, <1>2, <1>3, <1>4, <1>5

\* Transfers: upload at the source, install at the target.
LEMMA TransferTyped ==
  ASSUME ShardsTypeOK, NEW x \in Transfers,
         \/ x \in job /\ (Upload(x) \/ UploadLost(x))
         \/ x \in install /\ (Install(x) \/ InstallFails(x))
  PROVE  ShardsTypeOK'
  <1>1. Idx(x) \in Index /\ Target(x) \in Nodes
    BY DEF Transfers, Idx, Target
  <1>2. CASE Upload(x)
    BY <1>2 DEF Upload, ShardsTypeOK
  <1>3. CASE UploadLost(x)
    <2>1. faults' \in 0 .. MaxFaults
      BY <1>3, ShardsAssumption DEF UploadLost, Fault, ShardsTypeOK
    <2> QED
      BY <1>3, <2>1 DEF UploadLost, ShardsTypeOK
  <1>4. CASE Install(x)
    BY <1>1, <1>4 DEF Install, PutShard, EnsureObjectRef, RecordErasureShard, ShardsTypeOK
  <1>5. CASE InstallFails(x)
    <2>1. faults' \in 0 .. MaxFaults
      BY <1>5, ShardsAssumption DEF InstallFails, Fault, ShardsTypeOK
    <2> QED
      BY <1>1, <1>5, <2>1 DEF InstallFails, PutShard, ShardsTypeOK
  <1> QED
    BY <1>2, <1>3, <1>4, <1>5

\* The collectors.
LEMMA CollectTyped ==
  ASSUME ShardsTypeOK, GCStart \/ GCRemove \/ \E n \in Storage : GCOnAgent(n)
  PROVE  ShardsTypeOK'
  <1>1. CASE GCStart
    <2>1. Leased \subseteq Index
      BY DEF ShardsTypeOK, Leased, Transfers, Idx
    <2>2. faults' \in 0 .. MaxFaults
      BY <1>1, ShardsAssumption DEF GCStart, Fault, ShardsTypeOK
    <2> QED
      BY <1>1, <2>1, <2>2 DEF GCStart, ShardsTypeOK
  <1>2. CASE GCRemove
    BY <1>2 DEF GCRemove, ShardsTypeOK
  <1>3. ASSUME NEW n \in Storage, GCOnAgent(n) PROVE ShardsTypeOK'
    <2>1. faults' \in 0 .. MaxFaults
      BY <1>3, ShardsAssumption DEF GCOnAgent, Fault, ShardsTypeOK
    <2> QED
      BY <1>3, <2>1 DEF GCOnAgent, ShardsTypeOK
  <1> QED
    BY <1>1, <1>2, <1>3

\* Distributed repair, and what heartbeats and probes say.
LEMMA RepairStepTyped ==
  ASSUME ShardsTypeOK, NEW n \in Storage,
         \/ ScheduleRepair(n) \/ RepairObject(n)
         \/ \E s \in {"healthy", "tight", "degraded", "offline"} : ChangeState(n, s)
  PROVE  ShardsTypeOK'
  <1>1. n \in Nodes
    BY DEF Nodes
  <1>2. CASE ScheduleRepair(n)
    <2> DEFINE fetch == {<<"repair", i, n, RepairSource(i)>> : i \in
                  {j \in RepairChoice : RepairSource(j) # n /\ ~Active("repair", j, n)}}
    <2>1. fetch \subseteq Transfers
      BY <1>1, RepairTyped DEF Transfers
    <2>2. job' = job \cup fetch
      BY <1>2 DEF ScheduleRepair
    <2>3. job' \subseteq Transfers
      BY <2>1, <2>2 DEF ShardsTypeOK
    <2>4. /\ DOMAIN repair' = Storage
          /\ \A m \in Storage : repair'[m] = NoJob \/ repair'[m] \subseteq Index
      <3>1. repair' = repair \/ repair' = [repair EXCEPT ![n] = RepairChoice]
        BY <1>2 DEF ScheduleRepair
      <3> QED
        BY <3>1, RepairTyped DEF ShardsTypeOK
    <2> QED
      BY <1>2, <2>3, <2>4 DEF ScheduleRepair, ShardsTypeOK
  <1>3. CASE RepairObject(n)
    <2>1. object' \in [Nodes -> {"absent", "ok", "bad"}]
      BY <1>1, <1>3 DEF RepairObject, ShardsTypeOK
    <2>2. /\ DOMAIN repair' = Storage
          /\ \A m \in Storage : repair'[m] = NoJob \/ repair'[m] \subseteq Index
      BY <1>3 DEF RepairObject, ShardsTypeOK
    <2> QED
      BY <1>3, <2>1, <2>2 DEF RepairObject, ShardsTypeOK
  <1>4. ASSUME NEW s \in {"healthy", "tight", "degraded", "offline"}, ChangeState(n, s)
        PROVE  ShardsTypeOK'
    <2>1. faults' \in 0 .. MaxFaults
      BY <1>4, ShardsAssumption DEF ChangeState, ShardsTypeOK
    <2> QED
      BY <1>1, <1>4, <2>1 DEF ChangeState, ShardsTypeOK
  <1> QED
    BY <1>2, <1>3, <1>4

\* Every step keeps the types.
LEMMA NextTyped == ShardsTypeOK /\ [ShardsNext]_vars => ShardsTypeOK'
  <1> SUFFICES ASSUME ShardsTypeOK, [ShardsNext]_vars PROVE ShardsTypeOK'
    OBVIOUS
  <1>1. CASE Reconcile
    <2>1. job' \subseteq Transfers
      BY <1>1, PlannedTyped DEF Reconcile, ShardsTypeOK
    <2> QED
      BY <1>1, <2>1 DEF Reconcile, ShardsTypeOK
  <1>2. ASSUME NEW x \in job, Upload(x) \/ UploadLost(x) PROVE ShardsTypeOK'
    <2>1. x \in Transfers
      BY DEF ShardsTypeOK
    <2> QED
      BY <1>2, <2>1, TransferTyped
  <1>3. ASSUME NEW x \in install, Install(x) \/ InstallFails(x) PROVE ShardsTypeOK'
    <2>1. x \in Transfers
      BY DEF ShardsTypeOK
    <2> QED
      BY <1>3, <2>1, TransferTyped
  <1>4. CASE UNCHANGED vars
    BY <1>4 DEF vars, ShardsTypeOK
  <1> QED
    BY <1>1, <1>2, <1>3, <1>4, ProtectTyped, CollectTyped, RepairStepTyped DEF ShardsNext

\* Every reachable state has the types that the declarations say: indices
\* within the code's data and parity shards, transfers between known nodes
\* (selectShardSource never answers with a node it was not offered).
THEOREM ShardsTyped == ShardsSpec => []ShardsTypeOK
  <1>1. ShardsInit => ShardsTypeOK
    BY InitTyped
  <1>2. ShardsTypeOK /\ [ShardsNext]_vars => ShardsTypeOK'
    BY NextTyped
  <1> QED
    BY <1>1, <1>2, PTL DEF ShardsSpec

-----------------------------------------------------------------------------
(* The health evaluation                                                   *)

\* Of a healthy object enough shards are on record outside any one domain:
\* Resilient says so of a domain that has a copy, the count of the shards on
\* record of one that has none.
LEMMA HealthyWithout ==
  ASSUME Health = "healthy", NEW lost
  PROVE  Cardinality({i \in Index : Copies(i) \ {lost} # {}}) >= DataShards
  <1> DEFINE have == {i \in Index : Copies(i) # {}}
  <1>1. ~(Cardinality(have) < DataShards) /\ Resilient
    BY DEF Health
  <1>2. CASE lost \in UNION {Copies(i) : i \in Index}
    BY <1>1, <1>2 DEF Resilient
  <1>3. CASE lost \notin UNION {Copies(i) : i \in Index}
    <2>1. \A i \in Index : Copies(i) \ {lost} = Copies(i)
      BY <1>3
    <2>2. {i \in Index : Copies(i) \ {lost} # {}} = have
      BY <2>1
    <2>3. Cardinality(have) \in Nat
      BY FewerShards
    <2> HIDE DEF have
    <2>4. Cardinality(have) >= DataShards
      BY <1>1, <2>3, ShardsAssumption
    <2> QED
      BY <2>2, <2>4
  <1> QED
    BY <1>2, <1>3

\* EvaluateDistributedErasureHealth is right about the shard files: as long as
\* the records of the nodes that count are true, an object it calls healthy
\* survives the loss of any one failure domain.
THEOREM HealthIsTrue == ShardsSpec => []HealthTrue
  <1>1. ShardsTypeOK => HealthTrue
    <2> SUFFICES ASSUME ShardsTypeOK, Health = "healthy",
                        \A n \in Durable : record[n] \subseteq disk[n],
                        NEW lost \in {DomainOf[n] : n \in Nodes}
                 PROVE  Cardinality(UNION {disk[n] : n \in {m \in Durable : DomainOf[m] # lost}})
                          >= DataShards
      BY DEF HealthTrue
    <2> DEFINE kept == UNION {disk[n] : n \in {m \in Durable : DomainOf[m] # lost}}
               onRecord == {i \in Index : Copies(i) \ {lost} # {}}
    <2>1. kept \in SUBSET Index
      BY DEF ShardsTypeOK, Durable
    <2>2. onRecord \in SUBSET kept
      <3>1. ASSUME NEW i \in onRecord PROVE i \in kept
        <4>1. PICK d \in Copies(i) : d # lost
          OBVIOUS
        <4>2. PICK n \in Durable : i \in record[n] /\ DomainOf[n] = d
          BY <4>1 DEF Copies
        <4>3. i \in disk[n] /\ DomainOf[n] # lost
          BY <4>1, <4>2
        <4> QED
          BY <4>3
      <3> QED
        BY <3>1
    <2>3. Cardinality(onRecord) >= DataShards
      BY HealthyWithout
    <2> HIDE DEF kept, onRecord
    <2>4. /\ Cardinality(kept) \in Nat
          /\ Cardinality(onRecord) \in Nat
          /\ Cardinality(onRecord) <= Cardinality(kept)
      BY <2>1, <2>2, FewerShards
    <2>5. Cardinality(kept) >= DataShards
      BY <2>3, <2>4, ShardsAssumption
    <2> QED
      BY <2>5 DEF kept
  <1> QED
    BY <1>1, ShardsTyped, PTL

-----------------------------------------------------------------------------
(* Records and shards                                                      *)

\* A step that takes no shard from a disk, and records a shard only where it
\* is written, leaves every record as true as it was.
LEMMA KeptRecords ==
  ASSUME \A n \in Nodes : disk[n] \subseteq disk'[n] /\ record'[n] \ record[n] \subseteq disk'[n]
  PROVE  \A n \in Nodes : (record'[n] \ disk'[n]) \ (record[n] \ disk[n]) \subseteq disk[n]
  OBVIOUS

\* A shard is written before it is recorded, by protectErasure and by
\* installCAS, and only a collection removes one: a record without its shard
\* is of a shard that was there.
THEOREM OnlyCollectorsLose == ShardsSpec => OnlyCollectorLoses
  <1>1. ASSUME ShardsTypeOK, [ShardsNext]_vars
        PROVE  \A n \in Nodes : (record'[n] \ disk'[n]) \ (record[n] \ disk[n]) \subseteq disk[n]
    <2>1. CASE UNCHANGED record
      BY <2>1
    <2>2. ASSUME NEW n \in Nodes, ProtectShard(n)
          PROVE  \A m \in Nodes : disk[m] \subseteq disk'[m]
                                  /\ record'[m] \ record[m] \subseteq disk'[m]
      BY <1>1, <2>2 DEF ProtectShard, PutShard, RecordErasureShard, ShardsTypeOK
    <2>3. ASSUME NEW x \in install, Install(x)
          PROVE  \A m \in Nodes : disk[m] \subseteq disk'[m]
                                  /\ record'[m] \ record[m] \subseteq disk'[m]
      BY <1>1, <2>3 DEF Install, PutShard, RecordErasureShard, ShardsTypeOK
    <2>4. \/ UNCHANGED record
          \/ \E n \in Nodes : ProtectShard(n)
          \/ \E x \in install : Install(x)
      BY <1>1 DEF ShardsNext, vars, ProtectStart, ProtectDies, Damage, LocalRepair, Reconcile,
                  Upload, UploadLost, InstallFails, GCStart, GCRemove, GCOnAgent, ScheduleRepair,
                  RepairObject, ChangeState
    <2> QED
      BY <1>1, <2>1, <2>2, <2>3, <2>4, KeptRecords
  <1> QED
    BY <1>1, ShardsTyped, PTL DEF ShardsSpec, OnlyCollectorLoses

=============================================================================
