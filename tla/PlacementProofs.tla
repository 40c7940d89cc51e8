--------------------------- MODULE PlacementProofs ---------------------------
(***************************************************************************)
(* Proofs about Placement for any number of nodes, generations, transfers  *)
(* and faults: what the rows say is true, and the copies behave as Copies  *)
(* says.                                                                   *)
(***************************************************************************)
EXTENDS Placement, FiniteSetTheorems, TLAPS

-----------------------------------------------------------------------------
(* Finite sets of generations                                              *)

\* A non-empty set of naturals has a least element.
LEMMA Least ==
  ASSUME NEW T \in SUBSET Nat, T # {}
  PROVE  \E x \in T : \A y \in T : x <= y
  <1> DEFINE R == OpToRel(<, Nat)
  <1>1. IsWellFoundedOn(R, Nat)
    BY NatLessThanWellFounded
  <1>2. \A x, y \in Nat : x < y => <<x, y>> \in R
    BY DEF OpToRel
  <1> HIDE DEF R
  <1>3. PICK x \in T : \A y \in T : ~(<<y, x>> \in R)
    BY <1>1, WFMin
  <1>4. ASSUME NEW y \in T PROVE x <= y
    <2>1. x \in Nat /\ y \in Nat /\ ~(y < x)
      BY <1>2, <1>3
    <2> QED
      BY <2>1
  <1> QED
    BY <1>4

\* Generations and their bounds are numbers.
LEMMA Numbers == /\ MaxGens \in Nat /\ Keep \in Nat \ {0}
                 /\ \A g \in Gens : g \in Nat /\ 1 <= g /\ g <= MaxGens
  BY PlacementAssumption DEF Gens

\* A non-empty set of generations has a newest element.
LEMMA Greatest ==
  ASSUME NEW T \in SUBSET Gens, T # {}
  PROVE  \E x \in T : \A y \in T : y <= x
  <1> DEFINE U == {MaxGens - y : y \in T}
  <1>n. \A y \in T : y \in Nat /\ MaxGens - y \in Nat
    BY Numbers
  <1>1. U \in SUBSET Nat /\ U # {}
    BY <1>n
  <1>2. PICK u \in U : \A v \in U : u <= v
    BY <1>1, Least
  <1>3. PICK x \in T : u = MaxGens - x
    BY <1>2
  <1>4. \A y \in T : MaxGens - x <= MaxGens - y
    BY <1>2, <1>3
  <1> QED
    BY <1>4, <1>n, Numbers

\* Sets of generations are finite, and smaller sets have fewer elements.
LEMMA GensFinite ==
  ASSUME NEW S \in SUBSET Gens
  PROVE  /\ IsFiniteSet(S)
         /\ Cardinality(S) \in Nat
         /\ \A T \in SUBSET S : Cardinality(T) \in Nat /\ Cardinality(T) <= Cardinality(S)
  <1>1. IsFiniteSet(Gens)
    BY FS_Interval, PlacementAssumption DEF Gens
  <1>2. IsFiniteSet(S)
    BY <1>1, FS_Subset
  <1> QED
    BY <1>2, FS_Subset, FS_CardinalityType

\* What retention keeps: the newer a generation the sooner it is kept, and
\* above any generation that has Keep newer ones, Keep of them are kept.
LEMMA NewestKeeps ==
  ASSUME NEW S \in SUBSET Gens
  PROVE  /\ Newest(S) \subseteq S
         /\ \A g \in Newest(S), h \in S : h > g => h \in Newest(S)
         /\ \A g \in Gens : Cardinality({h \in S : h > g}) >= Keep =>
                             Cardinality({h \in Newest(S) : h > g}) >= Keep
         /\ \A g \in S : (\A h \in S : ~(h > g)) => g \in Newest(S)
  <1> USE Numbers
  <1>n. \A h \in S : h \in Nat
    OBVIOUS
  <1>1. Newest(S) \subseteq S
    BY DEF Newest
  <1>2. ASSUME NEW g \in Newest(S), NEW h \in S, h > g PROVE h \in Newest(S)
    <2>1. {k \in S : k > h} \in SUBSET {k \in S : k > g}
      <3>1. g \in Nat /\ h \in Nat /\ h > g
        BY <1>1, <1>2, <1>n
      <3>2. ASSUME NEW k \in S, k > h PROVE k > g
        BY <3>1, <3>2, <1>n
      <3> QED
        BY <3>2
    <2>2. Cardinality({k \in S : k > h}) \in Nat /\ Cardinality({k \in S : k > g}) \in Nat
          /\ Cardinality({k \in S : k > h}) <= Cardinality({k \in S : k > g})
      BY <2>1, GensFinite
    <2> QED
      BY <2>2, <1>2 DEF Newest
  <1>3. ASSUME NEW g \in Gens, Cardinality({h \in S : h > g}) >= Keep
        PROVE  Cardinality({h \in Newest(S) : h > g}) >= Keep
    <2> DEFINE U == {h \in S : h > g}
               N == {h \in Newest(S) : h > g}
    <2>1. U \in SUBSET Gens /\ N \in SUBSET U /\ N \in SUBSET Gens
      BY <1>1
    <2>2. Cardinality(N) \in Nat /\ Cardinality(U) \in Nat
      BY <2>1, GensFinite
    <2>3. ASSUME ~(Cardinality(N) >= Keep) PROVE FALSE
      <3>1. U \ N # {}
        BY <2>1, <2>2, <2>3, <1>3
      <3>2. PICK m \in U \ N : \A y \in U \ N : y <= m
        BY <3>1, <2>1, Greatest
      <3>3. {k \in S : k > m} \in SUBSET N
        <4>1. ASSUME NEW k \in S, k > m PROVE k \in N
          <5>1. k \in Nat /\ m \in Nat /\ g \in Nat /\ m > g
            BY <3>2, <1>n
          <5>2. k \in U /\ ~(k <= m)
            BY <5>1, <4>1
          <5> QED
            BY <5>2, <3>2
        <4> QED
          BY <4>1
      <3>4. Cardinality({k \in S : k > m}) < Keep
        <4> HIDE DEF N, U
        <4>1. /\ Cardinality({k \in S : k > m}) \in Nat
              /\ Cardinality({k \in S : k > m}) <= Cardinality(N)
          BY <3>3, <2>1, GensFinite
        <4> QED
          BY <4>1, <2>2, <2>3
      <3> QED
        BY <3>2, <3>4 DEF Newest
    <2> QED
      BY <2>3
  <1>4. ASSUME NEW g \in S, \A h \in S : ~(h > g) PROVE g \in Newest(S)
    <2>1. {h \in S : h > g} = {}
      BY <1>4
    <2> QED
      BY <2>1, FS_EmptySet DEF Newest
  <1> QED
    BY <1>1, <1>2, <1>3, <1>4

-----------------------------------------------------------------------------
(* The invariant                                                           *)

\* The initial state satisfies the inductive invariant.
LEMMA InitPlacementInv == PlacementInit => PlacementInv
  BY PlacementAssumption
  DEF PlacementInit, PlacementInv, PlacementTypeOK, OnlyMade, CapturedStored, RowsTrue,
      NoBackup, Nodes, IndexNewest

\* What a reconciliation adds: work for indexed generations, from nodes that
\* have a row to nodes.
LEMMA ReconcileJobs ==
  ASSUME NEW g \in Gens, Reconcile(g)
  PROVE  /\ g \in index /\ jobs \subseteq jobs'
         /\ \A x \in jobs' \ jobs : x \in {g} \X Nodes \X Nodes
  <1>1. PICK T \in Targets(g) :
          jobs \subseteq jobs' /\ jobs' \subseteq jobs \cup ({g} \X Sources(g) \X T)
    BY DEF Reconcile
  <1>2. T \subseteq Nodes /\ Sources(g) \subseteq Nodes
    BY DEF Targets, TargetEligible, Sources, With
  <1> QED
    BY <1>1, <1>2 DEF Reconcile

\* Steps that touch neither the stores nor the jobs keep what is said of them.
LEMMA StoreUntouched ==
  ASSUME PlacementInv, UNCHANGED <<storeVars, placeVars>>,
         backup' = backup \/ backup'.phase # "captured"
  PROVE  OnlyMade' /\ CapturedStored' /\ RowsTrue'
  BY DEF PlacementInv, OnlyMade, CapturedStored, RowsTrue, Superseded, storeVars, placeVars

\* The steps of discovery, schedule and health, and the deaths.
Elsewhere ==
  \/ UpstreamChanges \/ SyncRepositories \/ IntervalPasses
  \/ EnqueueDue \/ MarkScheduled \/ SchedulerDies \/ BackupDies
  \/ \E n \in Fickle, h \in Ills \cup {"healthy"} : HealthChanges(n, h)

\* They touch neither the stores nor the jobs, and capture nothing.
LEMMA ElsewhereUntouched ==
  ASSUME Elsewhere
  PROVE  /\ UNCHANGED <<storeVars, placeVars>>
         /\ backup' = backup \/ backup'.phase # "captured"
  <1>1. CASE EnqueueDue
    BY <1>1 DEF EnqueueDue
  <1>2. CASE BackupDies
    BY <1>2 DEF BackupDies, NoBackup
  <1>3. CASE ~EnqueueDue /\ ~BackupDies
    BY <1>3 DEF Elsewhere, UpstreamChanges, SyncRepositories, IntervalPasses, MarkScheduled,
                SchedulerDies, HealthChanges
  <1> QED
    BY <1>1, <1>2, <1>3

\* Every step preserves the types, and the local node is never offline.
LEMMA NextPlacementType ==
  ASSUME PlacementInv, [PlacementNext]_vars
  PROVE  PlacementTypeOK' /\ health'[Local] # "offline"
  <1> USE PlacementAssumption
  <1>t. PlacementTypeOK /\ health[Local] # "offline" /\ Local \in Nodes
    BY DEF PlacementInv, Nodes
  <1>f. ASSUME Fault PROVE faults' \in 0 .. MaxFaults
    BY <1>f, <1>t DEF Fault, PlacementTypeOK
  <1>r. repo.known \in BOOLEAN /\ repo.enabled \in BOOLEAN /\ repo.due \in BOOLEAN
    BY <1>t DEF PlacementTypeOK
  <1>0. ASSUME SyncRepositories PROVE PlacementTypeOK' /\ health'[Local] # "offline"
    <2>1. (repo.known => repo.due) \in BOOLEAN
      OBVIOUS
    <2>2. repo' \in [known : BOOLEAN, enabled : BOOLEAN, due : BOOLEAN]
      BY <1>0, <2>1, <1>r, <1>t DEF SyncRepositories, PlacementTypeOK
    <2> QED
      BY <1>0, <2>2, <1>t DEF SyncRepositories, PlacementTypeOK, storeVars, placeVars
  <1>1. ASSUME UpstreamChanges \/ IntervalPasses \/ MarkScheduled \/ SchedulerDies
        PROVE  PlacementTypeOK' /\ health'[Local] # "offline"
    BY <1>1, <1>t, <1>f
    DEF UpstreamChanges, IntervalPasses, MarkScheduled, SchedulerDies,
        PlacementTypeOK, storeVars, placeVars
  <1>2. ASSUME EnqueueDue \/ BackupDies PROVE PlacementTypeOK' /\ health'[Local] # "offline"
    BY <1>2, <1>t, <1>f
    DEF EnqueueDue, BackupDies, NoBackup, PlacementTypeOK, schedVars, storeVars, placeVars
  <1>3. ASSUME NEW n \in Nodes, Capture(n) PROVE PlacementTypeOK' /\ health'[Local] # "offline"
    <2>1. dirs[n] \cup {latest + 1} \in SUBSET Gens
      BY <1>3, <1>t DEF Capture, PlacementTypeOK
    <2>2. Newest(dirs[n] \cup {latest + 1}) \subseteq Gens
      BY <2>1, NewestKeeps
    <2>3. dirs' \in [Nodes -> SUBSET Gens]
      BY <1>3, <2>2, <1>t DEF Capture, PlacementTypeOK
    <2>4. latest' \in 0 .. MaxGens
      BY <1>3, <1>t DEF Capture, Gens
    <2> QED
      BY <1>3, <2>3, <2>4, <1>t DEF Capture, PlacementTypeOK, schedVars, placeVars
  <1>4. ASSUME RecordBackup PROVE PlacementTypeOK' /\ health'[Local] # "offline"
    <2>1. latest \in Gens
      BY <1>4, <1>t DEF RecordBackup, PlacementInv, CapturedStored, PlacementTypeOK
    <2>2. index' \subseteq Gens
      <3>1. index \cup {latest} \in SUBSET Gens
        BY <2>1, <1>t DEF PlacementTypeOK
      <3>2. Newest(index \cup {latest}) \subseteq Gens
        BY <3>1, NewestKeeps
      <3> QED
        BY <1>4, <3>2 DEF RecordBackup
    <2>3. rows' \in [Nodes -> SUBSET index']
      BY <1>4 DEF RecordBackup
    <2> QED
      BY <1>4, <2>2, <2>3, <1>t DEF RecordBackup, NoBackup, PlacementTypeOK, schedVars, placeVars
  <1>5. ASSUME NEW g \in Gens, Reconcile(g) PROVE PlacementTypeOK' /\ health'[Local] # "offline"
    <2>1. jobs' \subseteq Gens \X Nodes \X Nodes
      BY <1>5, <1>t, ReconcileJobs DEF PlacementTypeOK
    <2> QED
      BY <1>5, <2>1, <1>t DEF Reconcile, PlacementTypeOK, schedVars, storeVars
  <1>6. ASSUME NEW x \in jobs, Replicate(x) PROVE PlacementTypeOK' /\ health'[Local] # "offline"
    BY <1>6, <1>t DEF Replicate, PlacementTypeOK, schedVars, storeVars
  <1>7. ASSUME NEW x \in installs, Install(x) PROVE PlacementTypeOK' /\ health'[Local] # "offline"
    <2>1. x[1] \in Gens /\ x[3] \in Nodes
      BY <1>t DEF PlacementTypeOK
    <2>2. dirs' \in [Nodes -> SUBSET Gens]
      BY <1>7, <2>1, <1>t DEF Install, PlacementTypeOK
    <2>3. rows' \in [Nodes -> SUBSET index]
      BY <1>7, <2>1, <1>t DEF Install, PlacementTypeOK
    <2> QED
      BY <1>7, <2>2, <2>3, <1>t DEF Install, PlacementTypeOK, schedVars
  <1>8. ASSUME TransferLost PROVE PlacementTypeOK' /\ health'[Local] # "offline"
    BY <1>8, <1>t, <1>f DEF TransferLost, PlacementTypeOK, schedVars, storeVars
  <1>9. ASSUME NEW n \in Fickle, NEW h \in Ills \cup {"healthy"}, HealthChanges(n, h)
        PROVE  PlacementTypeOK' /\ health'[Local] # "offline"
    <2>1. n \in Nodes /\ h \in {"healthy", "tight", "full", "degraded", "unhealthy", "offline"}
      OBVIOUS
    <2>2. health' \in [Nodes -> {"healthy", "tight", "full", "degraded", "unhealthy", "offline"}]
      BY <1>9, <2>1, <1>t DEF HealthChanges, PlacementTypeOK
    <2>3. health'[Local] # "offline"
      BY <1>9, <2>1, <1>t DEF HealthChanges, PlacementTypeOK
    <2>4. faults' \in 0 .. MaxFaults
      BY <1>9, <1>f, <1>t DEF HealthChanges, PlacementTypeOK
    <2> QED
      BY <1>9, <2>2, <2>3, <2>4, <1>t DEF HealthChanges, PlacementTypeOK, schedVars, storeVars, placeVars
  <1>10. CASE UNCHANGED vars
    BY <1>10, <1>t DEF vars, schedVars, storeVars, placeVars, PlacementTypeOK
  <1> QED
    BY <1>0, <1>1, <1>2, <1>3, <1>4, <1>5, <1>6, <1>7, <1>8, <1>9, <1>10 DEF PlacementNext

\* A generation superseded on a node stays so when the node gets another.
LEMMA SupersededGrows ==
  ASSUME NEW g \in Gens, NEW D \in SUBSET Gens, NEW E \in SUBSET D,
         Cardinality({h \in E : h > g}) >= Keep
  PROVE  Cardinality({h \in D : h > g}) >= Keep
  <1> DEFINE A == {h \in E : h > g}
             B == {h \in D : h > g}
  <1>1. B \in SUBSET Gens /\ A \in SUBSET B
    OBVIOUS
  <1> HIDE DEF A, B
  <1>2. Cardinality(A) \in Nat /\ Cardinality(B) \in Nat /\ Cardinality(A) <= Cardinality(B)
    BY <1>1, GensFinite
  <1>3. Cardinality(A) >= Keep
    BY DEF A
  <1>4. Cardinality(B) >= Keep
    BY <1>2, <1>3, Numbers
  <1> QED
    BY <1>4 DEF B

\* The retention of a capture drops a directory only for Keep newer ones.
LEMMA CaptureRows ==
  ASSUME PlacementInv, NEW n \in Nodes, Capture(n), NEW g \in rows[n]
  PROVE  g \in dirs'[n] \/ Superseded(g, n)'
  <1> DEFINE S == dirs[n] \cup {latest + 1}
  <1>t. PlacementTypeOK
    BY DEF PlacementInv
  <1>1. S \in SUBSET Gens /\ dirs[n] \in SUBSET S /\ g \in Gens
    BY <1>t DEF Capture, PlacementTypeOK
  <1>2. dirs'[n] = Newest(S)
    BY <1>t DEF Capture, PlacementTypeOK
  <1> HIDE DEF S
  <1>3. ASSUME Cardinality({h \in S : h > g}) >= Keep PROVE Superseded(g, n)'
    <2>1. Cardinality({h \in Newest(S) : h > g}) >= Keep
      BY <1>1, <1>3, NewestKeeps
    <2> QED
      BY <2>1, <1>2 DEF Superseded
  <1>4. CASE Superseded(g, n)
    <2>1. Cardinality({h \in dirs[n] : h > g}) >= Keep
      BY <1>4 DEF Superseded
    <2>2. Cardinality({h \in S : h > g}) >= Keep
      BY <2>1, <1>1, SupersededGrows
    <2> QED
      BY <2>2, <1>3
  <1>5. CASE g \in dirs[n] /\ g \notin Newest(S)
    <2>1. {h \in S : h > g} \in SUBSET Gens
      BY <1>1
    <2>2. Cardinality({h \in S : h > g}) \in Nat
      BY <2>1, GensFinite
    <2>3. g \in S /\ ~(Cardinality({h \in S : h > g}) < Keep)
      BY <1>1, <1>5 DEF Newest
    <2> QED
      BY <2>2, <2>3, <1>3, Numbers
  <1> QED
    BY <1>2, <1>4, <1>5 DEF PlacementInv, RowsTrue

\* Every step keeps the rest of the invariant.
LEMMA NextPlacementStores ==
  ASSUME PlacementInv, [PlacementNext]_vars
  PROVE  OnlyMade' /\ CapturedStored' /\ RowsTrue'
  <1>i. PlacementTypeOK /\ OnlyMade /\ CapturedStored /\ RowsTrue
    BY DEF PlacementInv
  <1>t. /\ latest \in 0 .. MaxGens
        /\ dirs \in [Nodes -> SUBSET Gens]
        /\ index \subseteq Gens
        /\ rows \in [Nodes -> SUBSET index]
        /\ jobs \subseteq Gens \X Nodes \X Nodes
        /\ installs \subseteq Gens \X Nodes \X Nodes
    BY <1>i DEF PlacementTypeOK
  <1> USE Numbers
  <1>1. CASE Elsewhere \/ UNCHANGED vars
    BY <1>1, ElsewhereUntouched, StoreUntouched DEF vars
  <1>2. ASSUME NEW n \in Nodes, Capture(n) PROVE OnlyMade' /\ CapturedStored' /\ RowsTrue'
    <2> DEFINE S == dirs[n] \cup {latest + 1}
    <2>1. S \in SUBSET Gens /\ S \subseteq 1 .. latest + 1
      BY <1>2, <1>i, <1>t DEF Capture, OnlyMade
    <2>2. latest' = latest + 1 /\ dirs' = [dirs EXCEPT ![n] = Newest(S)] /\ dirs'[n] = Newest(S)
      BY <1>2, <1>t DEF Capture
    <2>3. Newest(S) \subseteq S
      BY <2>1, NewestKeeps
    <2>4. latest + 1 \in Newest(S)
      <3>1. \A h \in S : ~(h > latest + 1)
        BY <2>1, <1>t
      <3> QED
        BY <2>1, <3>1, NewestKeeps
    <2>5. OnlyMade'
      <3>1. ASSUME NEW k \in 1 .. latest PROVE k \in 1 .. latest'
        BY <2>2, <1>t
      <3>2. \A m \in Nodes : dirs'[m] \subseteq 1 .. latest'
        BY <2>1, <2>2, <2>3, <3>1, <1>i, <1>t DEF OnlyMade
      <3>3. index' = index /\ jobs' = jobs /\ installs' = installs
        BY <1>2 DEF Capture, placeVars
      <3> QED
        BY <3>1, <3>2, <3>3, <1>i DEF OnlyMade
    <2>6. CapturedStored'
      BY <1>2, <2>2, <2>4 DEF Capture, CapturedStored
    <2>7. RowsTrue'
      <3>1. ASSUME NEW m \in Nodes, NEW g \in rows[m] PROVE g \in dirs'[m] \/ Superseded(g, m)'
        <4>1. CASE m = n
          BY <4>1, <1>2, <3>1, CaptureRows
        <4>2. CASE m # n
          <5>1. dirs'[m] = dirs[m]
            BY <4>2, <2>2, <1>t
          <5> QED
            BY <5>1, <3>1, <1>i DEF RowsTrue, Superseded
        <4> QED
          BY <4>1, <4>2
      <3>2. rows' = rows
        BY <1>2 DEF Capture
      <3> QED
        BY <3>1, <3>2 DEF RowsTrue
    <2> QED
      BY <2>5, <2>6, <2>7
  <1>3. ASSUME RecordBackup PROVE OnlyMade' /\ CapturedStored' /\ RowsTrue'
    <2>1. latest \in Gens /\ latest \in 1 .. latest /\ latest \in dirs[backup.node] /\ backup.node \in Nodes
      BY <1>3, <1>i, <1>t DEF RecordBackup, CapturedStored, OnlyMade
    <2>2. index \cup {latest} \in SUBSET Gens
      BY <2>1, <1>t
    <2>3. Newest(index \cup {latest}) \subseteq index \cup {latest}
      BY <2>2, NewestKeeps
    <2>4. UNCHANGED <<latest, dirs, jobs, installs>>
      BY <1>3 DEF RecordBackup, placeVars
    <2>5. OnlyMade'
      BY <1>3, <2>1, <2>3, <2>4, <1>i DEF RecordBackup, OnlyMade
    <2>6. CapturedStored'
      BY <1>3 DEF RecordBackup, CapturedStored, NoBackup
    <2>7. ASSUME NEW n \in Nodes, NEW g \in rows'[n] PROVE g \in dirs'[n] \/ Superseded(g, n)'
      <3>1. g \in rows[n] \/ (n = backup.node /\ g = latest)
        BY <1>3, <2>7 DEF RecordBackup
      <3> QED
        BY <3>1, <2>1, <2>4, <1>i DEF RowsTrue, Superseded
    <2> QED
      BY <2>5, <2>6, <2>7 DEF RowsTrue
  <1>4. ASSUME NEW g \in Gens, Reconcile(g) PROVE OnlyMade' /\ CapturedStored' /\ RowsTrue'
    <2>1. UNCHANGED <<latest, dirs, index, rows, installs, backup>>
      BY <1>4 DEF Reconcile, storeVars
    <2>2. g \in 1 .. latest /\ \A x \in jobs' \ jobs : x[1] = g
      BY <1>4, <1>i, ReconcileJobs DEF OnlyMade
    <2> QED
      BY <2>1, <2>2, <1>i DEF OnlyMade, CapturedStored, RowsTrue, Superseded
  <1>5. ASSUME NEW x \in jobs, Replicate(x) PROVE OnlyMade' /\ CapturedStored' /\ RowsTrue'
    <2>1. UNCHANGED <<latest, dirs, index, rows, backup>>
      BY <1>5 DEF Replicate, storeVars
    <2>2. jobs' \cup installs' \subseteq jobs \cup installs
      BY <1>5 DEF Replicate
    <2> QED
      BY <2>1, <2>2, <1>i DEF OnlyMade, CapturedStored, RowsTrue, Superseded
  <1>6. ASSUME NEW x \in installs, Install(x) PROVE OnlyMade' /\ CapturedStored' /\ RowsTrue'
    <2>1. x[1] \in Gens /\ x[1] \in 1 .. latest /\ x[3] \in Nodes
      BY <1>i, <1>t DEF OnlyMade
    <2>2. /\ UNCHANGED <<latest, index, jobs, backup>>
          /\ installs' \subseteq installs
          /\ dirs' = [dirs EXCEPT ![x[3]] = @ \cup {x[1]}]
          /\ \A n \in Nodes : rows'[n] \subseteq rows[n] \cup (IF n = x[3] THEN {x[1]} ELSE {})
      BY <1>6, <2>1, <1>t DEF Install
    <2>3. \A n \in Nodes : /\ dirs'[n] \in SUBSET Gens /\ dirs[n] \in SUBSET dirs'[n]
                           /\ dirs'[n] \subseteq dirs[n] \cup {x[1]}
      BY <2>1, <2>2, <1>t
    <2>4. OnlyMade' /\ CapturedStored'
      BY <2>1, <2>2, <2>3, <1>i DEF OnlyMade, CapturedStored
    <2>5. ASSUME NEW n \in Nodes, NEW g \in rows'[n] PROVE g \in dirs'[n] \/ Superseded(g, n)'
      <3>1. CASE n = x[3] /\ g = x[1]
        BY <3>1, <2>1, <2>2, <1>t
      <3>2. CASE g \in dirs[n]
        BY <3>2, <2>3
      <3>3. CASE g \in rows[n] /\ Superseded(g, n)
        <4>1. g \in Gens /\ Cardinality({h \in dirs[n] : h > g}) >= Keep
          BY <3>3, <1>t DEF Superseded
        <4>2. Cardinality({h \in dirs'[n] : h > g}) >= Keep
          BY <4>1, <2>3, SupersededGrows
        <4> QED
          BY <4>2 DEF Superseded
      <3> QED
        BY <3>1, <3>2, <3>3, <2>2, <2>5, <1>i DEF RowsTrue
    <2> QED
      BY <2>4, <2>5 DEF RowsTrue
  <1>7. ASSUME TransferLost PROVE OnlyMade' /\ CapturedStored' /\ RowsTrue'
    <2>1. UNCHANGED <<latest, dirs, index, rows, backup>>
      BY <1>7 DEF TransferLost, storeVars
    <2>2. jobs' \cup installs' \subseteq jobs \cup installs
      BY <1>7 DEF TransferLost
    <2> QED
      BY <2>1, <2>2, <1>i DEF OnlyMade, CapturedStored, RowsTrue, Superseded
  <1> QED
    BY <1>1, <1>2, <1>3, <1>4, <1>5, <1>6, <1>7 DEF PlacementNext, Elsewhere

\* The index is only ever replaced by the newest of what it had and what was
\* captured.
LEMMA NextIndexNewest ==
  ASSUME PlacementInv, [PlacementNext]_vars
  PROVE  IndexNewest'
  <1>1. ASSUME index' = index PROVE IndexNewest'
    BY <1>1 DEF PlacementInv, IndexNewest
  <1>2. CASE RecordBackup
    <2> DEFINE T == index \cup {latest}
    <2>1. T \in SUBSET Gens
      BY <1>2 DEF RecordBackup, PlacementInv, CapturedStored, PlacementTypeOK
    <2>2. index' = Newest(T)
      BY <1>2 DEF RecordBackup
    <2> HIDE DEF T
    <2>3. Newest(T) \subseteq T
      BY <2>1, NewestKeeps
    <2>4. ASSUME NEW g \in Newest(T) PROVE Cardinality({h \in Newest(T) : h > g}) < Keep
      <3>1. Cardinality({h \in T : h > g}) < Keep
        BY DEF Newest
      <3>2. {h \in T : h > g} \in SUBSET Gens /\ {h \in Newest(T) : h > g} \in SUBSET {h \in T : h > g}
        BY <2>1, <2>3
      <3>3. /\ Cardinality({h \in T : h > g}) \in Nat
            /\ Cardinality({h \in Newest(T) : h > g}) \in Nat
            /\ Cardinality({h \in Newest(T) : h > g}) <= Cardinality({h \in T : h > g})
        BY <3>2, GensFinite
      <3> QED
        BY <3>1, <3>3, Numbers
    <2> QED
      BY <2>2, <2>4 DEF IndexNewest
  <1>3. CASE Elsewhere \/ UNCHANGED vars
    BY <1>1, <1>3, ElsewhereUntouched DEF vars, storeVars
  <1>4. ASSUME NEW n \in Nodes, Capture(n) PROVE index' = index
    BY <1>4 DEF Capture
  <1>5. ASSUME NEW g \in Gens, Reconcile(g) PROVE index' = index
    BY <1>5 DEF Reconcile, storeVars
  <1>6. ASSUME NEW x \in jobs, Replicate(x) PROVE index' = index
    BY <1>6 DEF Replicate, storeVars
  <1>7. ASSUME NEW x \in installs, Install(x) PROVE index' = index
    BY <1>7 DEF Install
  <1>8. ASSUME TransferLost PROVE index' = index
    BY <1>8 DEF TransferLost, storeVars
  <1> QED
    BY <1>1, <1>2, <1>3, <1>4, <1>5, <1>6, <1>7, <1>8 DEF PlacementNext, Elsewhere

\* The inductive invariant holds in every reachable state.
THEOREM PlacementInvariant == PlacementSpec => []PlacementInv
  <1>1. PlacementInv /\ [PlacementNext]_vars => PlacementInv'
    BY NextPlacementType, NextPlacementStores, NextIndexNewest DEF PlacementInv
  <1> QED
    BY InitPlacementInv, <1>1, PTL DEF PlacementSpec

-----------------------------------------------------------------------------
(* What the control plane says                                             *)

\* Where a row is without its directory, the node has captured a newer
\* generation that is not recorded: of Keep newer ones the index has fewer.
LEMMA RowsOvertaken ==
  ASSUME PlacementInv, NEW g \in index, NEW n \in With(g)
  PROVE  g \in dirs[n] \/ Overtaken(g, n)
  <1>t. index \in SUBSET Gens /\ g \in Gens /\ dirs[n] \in SUBSET Gens /\ n \in Nodes /\ g \in rows[n]
    BY DEF PlacementInv, PlacementTypeOK, With
  <1> SUFFICES ASSUME g \notin dirs[n], ~Overtaken(g, n)
               PROVE  FALSE
    OBVIOUS
  <1> DEFINE A == {h \in dirs[n] : h > g}
             B == {h \in index : h > g}
  <1>1. Cardinality(A) >= Keep
    BY <1>t DEF PlacementInv, RowsTrue, Superseded
  <1>2. Cardinality(B) < Keep
    BY DEF PlacementInv, IndexNewest
  <1>3. A \in SUBSET B /\ B \in SUBSET Gens
    BY <1>t DEF Overtaken
  <1> HIDE DEF A, B
  <1>4. Cardinality(A) \in Nat /\ Cardinality(B) \in Nat /\ Cardinality(A) <= Cardinality(B)
    BY <1>3, GensFinite
  <1> QED
    BY <1>1, <1>2, <1>4, Numbers

\* A restore is routed to a node that has the generation, unless the node has
\* captured a newer one that is not recorded.
THEOREM RestoresAreRoutedToCopies == PlacementSpec => []RestoreRoutedToCopy
  <1>1. PlacementInv => RestoreRoutedToCopy
    <2> SUFFICES ASSUME PlacementInv, NEW g \in index, NEW n \in RestoreAffinity(g)
                 PROVE  g \in dirs[n] \/ Overtaken(g, n)
      BY DEF RestoreRoutedToCopy
    <2>1. n \in With(g)
      BY DEF RestoreAffinity
    <2> QED
      BY <2>1, RowsOvertaken
  <1> QED
    BY PlacementInvariant, <1>1, PTL

\* The domains of fewer nodes are fewer.
LEMMA DomainsGrow ==
  ASSUME NEW A, NEW B \in SUBSET Nodes, A \subseteq B
  PROVE  /\ Cardinality(A) \in Nat /\ Cardinality(B) \in Nat
         /\ Cardinality(A) <= Cardinality(B)
         /\ Cardinality(DomainsOf(A)) \in Nat /\ Cardinality(DomainsOf(B)) \in Nat
         /\ Cardinality(DomainsOf(A)) <= Cardinality(DomainsOf(B))
  <1>1. IsFiniteSet(Nodes)
    BY FS_AddElement, PlacementAssumption DEF Nodes
  <1>2. IsFiniteSet(B)
    BY <1>1, FS_Subset
  <1>3. Cardinality(A) \in Nat /\ Cardinality(B) \in Nat /\ Cardinality(A) <= Cardinality(B)
    BY <1>2, FS_Subset, FS_CardinalityType
  <1>4. IsFiniteSet(DomainsOf(B))
    <2> DEFINE f == [n \in B |-> DomainOf[n]]
    <2>1. f \in Surjection(B, DomainsOf(B))
      BY DEF Surjection, DomainsOf
    <2> HIDE DEF f
    <2> QED
      BY <1>2, <2>1, FS_Surjection
  <1>5. DomainsOf(A) \in SUBSET DomainsOf(B)
    BY DEF DomainsOf
  <1> QED
    BY <1>3, <1>4, <1>5, FS_Subset, FS_CardinalityType

\* A generation reported healthy is on MinHealthy readable nodes in MinDomains
\* domains, unless one of those counted has captured a newer one that is not
\* recorded.
THEOREM HealthyGenerationsAreStored == PlacementSpec => []HealthyIsStored
  <1>1. PlacementInv => HealthyIsStored
    <2> SUFFICES ASSUME PlacementInv, NEW g \in index, Healthy(g),
                        ~(\E n \in With(g) \cap Counted : Overtaken(g, n))
                 PROVE  /\ Cardinality(Holding(g)) >= MinHealthy
                        /\ Cardinality(DomainsOf(Holding(g))) >= MinDomains
      BY DEF HealthyIsStored
    <2> DEFINE counted == With(g) \cap Counted
    <2>1. Holding(g) \in SUBSET Nodes /\ counted \subseteq Online
      BY DEF Holding, PlacementInv, With, Counted, Online, Nodes
    <2>2. counted \subseteq Holding(g)
      BY <2>1, RowsOvertaken DEF Holding
    <2>3. Cardinality(counted) >= MinHealthy /\ Cardinality(DomainsOf(counted)) >= MinDomains
      BY DEF Healthy
    <2> HIDE DEF counted
    <2>4. /\ Cardinality(counted) \in Nat /\ Cardinality(Holding(g)) \in Nat
          /\ Cardinality(counted) <= Cardinality(Holding(g))
          /\ Cardinality(DomainsOf(counted)) \in Nat /\ Cardinality(DomainsOf(Holding(g))) \in Nat
          /\ Cardinality(DomainsOf(counted)) <= Cardinality(DomainsOf(Holding(g)))
      BY <2>1, <2>2, DomainsGrow
    <2> QED
      BY <2>3, <2>4, PlacementAssumption
  <1> QED
    BY PlacementInvariant, <1>1, PTL

-----------------------------------------------------------------------------
(* Placement implements Copies                                             *)

\* The copies a node has are its directories.
LEMMA HeldIsStored ==
  ASSUME PlacementInv, NEW n \in Nodes
  PROVE  Replicated!Held(n) = dirs[n]
  BY PlacementAssumption DEF PlacementInv, PlacementTypeOK, Replicated!Held, HeldBy

\* Who holds a generation, before and after a step.
LEMMA Holders ==
  ASSUME NEW g \in Gens
  PROVE  /\ HeldBy[g] = {n \in Nodes : g \in dirs[n]}
                         \cup {r \in {Relay} : \E x \in installs : x[1] = g}
         /\ HeldBy'[g] = {n \in Nodes : g \in dirs'[n]}
                          \cup {r \in {Relay} : \E x \in installs' : x[1] = g}
  BY DEF HeldBy

\* A generation whose copies the step does not concern.
LEMMA HoldersSame ==
  ASSUME NEW g \in Gens, \A n \in Nodes : g \in dirs'[n] <=> g \in dirs[n],
         (\E x \in installs' : x[1] = g) <=> (\E x \in installs : x[1] = g)
  PROVE  HeldBy'[g] = HeldBy[g]
  <1>1. {n \in Nodes : g \in dirs'[n]} = {n \in Nodes : g \in dirs[n]}
    OBVIOUS
  <1>2. {r \in {Relay} : \E x \in installs' : x[1] = g}
          = {r \in {Relay} : \E x \in installs : x[1] = g}
    OBVIOUS
  <1> QED
    BY <1>1, <1>2, Holders

\* A step that changes the holders of one generation.
LEMMA HoldersOfOne ==
  ASSUME NEW h \in Gens, NEW V, HeldBy'[h] = V, \A g \in Gens \ {h} : HeldBy'[g] = HeldBy[g]
  PROVE  HeldBy' = [HeldBy EXCEPT ![h] = V]
  <1>1. HeldBy = [g \in Gens |-> HeldBy[g]] /\ HeldBy' = [g \in Gens |-> HeldBy'[g]]
    BY DEF HeldBy
  <1> QED
    BY <1>1

\* A step that keeps the stores and the spool is a stutter of Copies.
LEMMA CopiesStutter ==
  ASSUME UNCHANGED <<latest, dirs, installs>>
  PROVE  UNCHANGED Replicated!copiesVars
  BY DEF Replicated!copiesVars, HeldBy

\* Copies counts as Placement does.
LEMMA SameCount == \A S : Replicated!Cardinality(S) = Cardinality(S)
  BY Zenon DEF Replicated!Cardinality, Cardinality, Replicated!IsFiniteSet, IsFiniteSet

\* A capture makes the next generation, and drops old copies of its node for
\* Keep newer ones.
LEMMA CaptureMakes ==
  ASSUME PlacementInv, NEW n \in Nodes, Capture(n)
  PROVE  Replicated!Make(n)
  <1> USE Numbers
  <1>t. /\ latest \in 0 .. MaxGens /\ dirs \in [Nodes -> SUBSET Gens]
        /\ \A m \in Nodes : dirs[m] \subseteq 1 .. latest
        /\ \A x \in installs : x[1] \in 1 .. latest
        /\ Relay \notin Nodes
    BY PlacementAssumption DEF PlacementInv, PlacementTypeOK, OnlyMade
  <1> DEFINE S == dirs[n] \cup {latest + 1}
             dropped == dirs[n] \ Newest(S)
  <1>1. latest + 1 \in Gens /\ latest' = latest + 1 /\ S \in SUBSET Gens /\ latest + 1 \notin dirs[n]
    BY <1>t DEF Capture
  <1>2. dirs' = [dirs EXCEPT ![n] = Newest(S)] /\ installs' = installs
    BY DEF Capture, placeVars
  <1>3. latest + 1 \in Newest(S) /\ Newest(S) \subseteq S
    <2>1. \A h \in S : ~(h > latest + 1)
      BY <1>t
    <2> QED
      BY <1>1, <2>1, NewestKeeps
  <1>4. (dirs[n] \ dropped) \cup {latest + 1} = Newest(S)
    BY <1>3
  <1>5. ASSUME NEW g \in dropped PROVE Cardinality(Newest(S)) >= Keep
    <2>1. g \in S /\ g \in Gens /\ {h \in S : h > g} \in SUBSET Gens
      BY <1>1
    <2>2. Cardinality({h \in S : h > g}) >= Keep
      <3>1. ~(Cardinality({h \in S : h > g}) < Keep)
        BY <2>1 DEF Newest
      <3>2. Cardinality({h \in S : h > g}) \in Nat
        BY <2>1, GensFinite
      <3> QED
        BY <3>1, <3>2
    <2>3. Cardinality({h \in Newest(S) : h > g}) >= Keep
      BY <1>1, <2>1, <2>2, NewestKeeps
    <2>4. Newest(S) \in SUBSET Gens /\ {h \in Newest(S) : h > g} \in SUBSET Newest(S)
      BY <1>1, <1>3
    <2>5. /\ Cardinality(Newest(S)) \in Nat /\ Cardinality({h \in Newest(S) : h > g}) \in Nat
          /\ Cardinality({h \in Newest(S) : h > g}) <= Cardinality(Newest(S))
      BY <2>4, GensFinite
    <2> QED
      BY <2>3, <2>5
  <1>6. ASSUME NEW g \in dropped, NEW h \in dirs[n] \ dropped PROVE g < h
    <2>1. g \in S /\ h \in Newest(S) /\ g \notin Newest(S) /\ g \in Nat /\ h \in Nat
      BY <1>t
    <2>2. ~(g > h)
      BY <2>1, <1>1, NewestKeeps
    <2> QED
      BY <2>1, <2>2
  <1>7. HeldBy' = [g \in Gens |-> IF g = latest + 1 THEN {n}
                                   ELSE IF g \in dropped THEN HeldBy[g] \ {n} ELSE HeldBy[g]]
    <2> DEFINE F == [g \in Gens |-> IF g = latest + 1 THEN {n}
                                     ELSE IF g \in dropped THEN HeldBy[g] \ {n} ELSE HeldBy[g]]
    <2>1. ASSUME NEW g \in Gens PROVE HeldBy'[g] = F[g]
      <3>1. HeldBy'[g] = {m \in Nodes : g \in dirs'[m]} \cup {r \in {Relay} : \E x \in installs : x[1] = g}
        BY <1>2 DEF HeldBy
      <3>2. HeldBy[g] = {m \in Nodes : g \in dirs[m]} \cup {r \in {Relay} : \E x \in installs : x[1] = g}
        BY DEF HeldBy
      <3>3. \A m \in Nodes : dirs'[m] = IF m = n THEN Newest(S) ELSE dirs[m]
        BY <1>2, <1>t
      <3>4. CASE g = latest + 1
        <4>1. /\ \A m \in Nodes : g \in dirs'[m] <=> m = n
              /\ ~\E x \in installs : x[1] = g
          BY <3>3, <3>4, <1>3, <1>t
        <4> QED
          BY <3>1, <3>4, <4>1
      <3>5. CASE g # latest + 1 /\ g \in dropped
        <4>1. \A m \in Nodes : g \in dirs'[m] <=> g \in dirs[m] /\ m # n
          BY <3>3, <3>5, <1>t
        <4> QED
          BY <3>1, <3>2, <3>5, <4>1, <1>t
      <3>6. CASE g # latest + 1 /\ g \notin dropped
        <4>1. \A m \in Nodes : g \in dirs'[m] <=> g \in dirs[m]
          BY <3>3, <3>6, <1>3, <1>t
        <4> QED
          BY <3>1, <3>2, <3>6, <4>1
      <3> QED
        BY <3>4, <3>5, <3>6
    <2>2. HeldBy' = [g \in Gens |-> HeldBy'[g]]
      BY DEF HeldBy
    <2> QED
      BY <2>1, <2>2
  <1>8. Replicated!Held(n) = dirs[n] /\ n # Relay /\ dropped \in SUBSET dirs[n]
    BY HeldIsStored, <1>t
  <1> HIDE DEF S, dropped
  <1>9. /\ \A g \in dropped : Cardinality((Replicated!Held(n) \ dropped) \cup {latest + 1}) >= Keep
        /\ \A g \in dropped, h \in Replicated!Held(n) \ dropped : g < h
    BY <1>4, <1>5, <1>6, <1>8
  <1>10. dropped \in SUBSET Replicated!Held(n)
    BY <1>8
  <1>11. \E d \in SUBSET Replicated!Held(n) :
           /\ \A g \in d : Cardinality((Replicated!Held(n) \ d) \cup {latest + 1}) >= Keep
           /\ \A g \in d, h \in Replicated!Held(n) \ d : g < h
           /\ HeldBy' = [g \in Gens |-> IF g = latest + 1 THEN {n}
                                         ELSE IF g \in d THEN HeldBy[g] \ {n} ELSE HeldBy[g]]
    <2> WITNESS dropped \in SUBSET Replicated!Held(n)
    <2> QED
      BY <1>7, <1>9
  <1> QED
    BY <1>1, <1>8, <1>11, SameCount DEF Replicated!Make

\* An upload puts a copy of what its source has into the relay.
LEMMA ReplicateCopies ==
  ASSUME PlacementInv, NEW x \in jobs, Replicate(x)
  PROVE  \/ UNCHANGED Replicated!copiesVars
         \/ \E g \in Gens : Replicated!Copy(g, Relay)
  <1>t. x[1] \in Gens /\ x[2] \in Nodes
    BY DEF PlacementInv, PlacementTypeOK
  <1>1. CASE ~(x[1] \in dirs[x[2]] /\ Whole(x))
    BY <1>1, CopiesStutter DEF Replicate, storeVars
  <1>2. CASE x[1] \in dirs[x[2]] /\ Whole(x)
    <2>1. installs' = installs \cup {x} /\ latest' = latest /\ dirs' = dirs
      BY <1>2 DEF Replicate, storeVars
    <2>2. HeldBy[x[1]] # {}
      BY <1>2, <1>t DEF HeldBy
    <2>3. HeldBy' = [HeldBy EXCEPT ![x[1]] = @ \cup {Relay}]
      BY <2>1, <1>t DEF HeldBy
    <2> QED
      BY <2>1, <2>2, <2>3, <1>t DEF Replicated!Copy
  <1> QED
    BY <1>1, <1>2

\* An installation is a copy handed over by the relay, which forgets it unless
\* another installation of the generation is under way.
LEMMA InstallCopies ==
  ASSUME PlacementInv, NEW x \in installs, Install(x)
  PROVE  \E g \in Gens, t \in Nodes : Replicated!Copy(g, t) \/ Replicated!Relayed(g, t)
  <1>t. /\ x[1] \in Gens /\ x[3] \in Nodes /\ Relay \notin Nodes
        /\ dirs \in [Nodes -> SUBSET Gens]
    BY PlacementAssumption DEF PlacementInv, PlacementTypeOK
  <1>1. /\ installs' = installs \ {x} /\ latest' = latest
        /\ dirs' = [dirs EXCEPT ![x[3]] = @ \cup {x[1]}]
    BY DEF Install
  <1>2. Relay \in HeldBy[x[1]] /\ HeldBy[x[1]] # {}
    BY <1>t DEF HeldBy
  <1>d. \A n \in Nodes, g \in Gens : g \in dirs'[n] <=> g \in dirs[n] \/ (n = x[3] /\ g = x[1])
    BY <1>1, <1>t
  <1>3. CASE \E y \in installs \ {x} : y[1] = x[1]
    <2>1. \A g \in Gens : (\E y \in installs' : y[1] = g) <=> (\E y \in installs : y[1] = g)
      BY <1>1, <1>3
    <2>2. HeldBy' = [HeldBy EXCEPT ![x[1]] = @ \cup {x[3]}]
      <3>1. HeldBy'[x[1]] = HeldBy[x[1]] \cup {x[3]}
        BY <2>1, <1>d, <1>t, Holders
      <3>2. \A g \in Gens \ {x[1]} : HeldBy'[g] = HeldBy[g]
        BY <2>1, <1>d, HoldersSame
      <3> QED
        BY <3>1, <3>2, <1>t, HoldersOfOne
    <2> QED
      BY <2>2, <1>1, <1>2, <1>t DEF Replicated!Copy
  <1>4. CASE ~\E y \in installs \ {x} : y[1] = x[1]
    <2>1. \A g \in Gens : (\E y \in installs' : y[1] = g)
                           <=> g # x[1] /\ (\E y \in installs : y[1] = g)
      BY <1>1, <1>4
    <2>2. HeldBy' = [HeldBy EXCEPT ![x[1]] = (@ \ {Relay}) \cup ({x[3]} \ {Relay})]
      <3>1. HeldBy'[x[1]] = (HeldBy[x[1]] \ {Relay}) \cup ({x[3]} \ {Relay})
        BY <2>1, <1>d, <1>t, Holders
      <3>2. \A g \in Gens \ {x[1]} : HeldBy'[g] = HeldBy[g]
        BY <2>1, <1>d, HoldersSame
      <3> QED
        BY <3>1, <3>2, <1>t, HoldersOfOne
    <2> QED
      BY <2>2, <1>1, <1>2, <1>t DEF Replicated!Relayed
  <1> QED
    BY <1>3, <1>4

\* A transfer that is lost is at most forgotten by the relay.
LEMMA LostCopies ==
  ASSUME PlacementInv, TransferLost
  PROVE  \/ UNCHANGED Replicated!copiesVars
         \/ \E g \in Gens : Replicated!Relayed(g, Relay)
  <1>0. UNCHANGED <<latest, dirs>>
    BY DEF TransferLost, storeVars
  <1>1. CASE installs' = installs
    BY <1>0, <1>1, CopiesStutter
  <1>2. ASSUME NEW x \in installs, installs' = installs \ {x}
        PROVE  \/ UNCHANGED Replicated!copiesVars
               \/ \E g \in Gens : Replicated!Relayed(g, Relay)
    <2>t. x[1] \in Gens /\ Relay \notin Nodes
      BY PlacementAssumption DEF PlacementInv, PlacementTypeOK
    <2>1. CASE \E y \in installs \ {x} : y[1] = x[1]
      <3>1. \A g \in Gens : (\E y \in installs' : y[1] = g) <=> (\E y \in installs : y[1] = g)
        BY <1>2, <2>1
      <3>2. HeldBy' = HeldBy
        BY <3>1, <1>0 DEF HeldBy
      <3> QED
        BY <3>2, <1>0 DEF Replicated!copiesVars
    <2>2. CASE ~\E y \in installs \ {x} : y[1] = x[1]
      <3>1. \A g \in Gens : (\E y \in installs' : y[1] = g)
                             <=> g # x[1] /\ (\E y \in installs : y[1] = g)
        BY <1>2, <2>2
      <3>2. HeldBy' = [HeldBy EXCEPT ![x[1]] = (@ \ {Relay}) \cup ({Relay} \ {Relay})]
        <4>1. HeldBy'[x[1]] = (HeldBy[x[1]] \ {Relay}) \cup ({Relay} \ {Relay})
          BY <3>1, <1>0, <2>t, Holders
        <4>2. \A g \in Gens \ {x[1]} : HeldBy'[g] = HeldBy[g]
          BY <3>1, <1>0, HoldersSame
        <4> QED
          BY <4>1, <4>2, <2>t, HoldersOfOne
      <3>3. Relay \in HeldBy[x[1]]
        BY <2>t DEF HeldBy
      <3> QED
        BY <3>2, <3>3, <1>0, <2>t DEF Replicated!Relayed
    <2> QED
      BY <2>1, <2>2
  <1> QED
    BY <1>1, <1>2 DEF TransferLost

\* The placement of generations implements Copies: each is made once, copied
\* only from a copy, and dropped by a node only for Keep newer ones.
THEOREM PlacementImplementsCopies == PlacementSpec => ImplementsCopies
  <1>1. PlacementInit => Replicated!CopiesInit
    BY DEF PlacementInit, Replicated!CopiesInit, HeldBy
  <1>2. PlacementInv /\ [PlacementNext]_vars => [Replicated!CopiesNext]_(Replicated!copiesVars)
    <2> SUFFICES ASSUME PlacementInv, [PlacementNext]_vars
                 PROVE  Replicated!CopiesNext \/ UNCHANGED Replicated!copiesVars
      OBVIOUS
    <2>1. CASE Elsewhere
      BY <2>1, ElsewhereUntouched, CopiesStutter DEF storeVars, placeVars
    <2>2. ASSUME NEW n \in Nodes, Capture(n) PROVE Replicated!CopiesNext
      BY <2>2, CaptureMakes DEF Replicated!CopiesNext
    <2>3. CASE RecordBackup
      BY <2>3, CopiesStutter DEF RecordBackup, placeVars
    <2>4. ASSUME NEW g \in Gens, Reconcile(g) PROVE UNCHANGED Replicated!copiesVars
      BY <2>4, CopiesStutter DEF Reconcile, storeVars
    <2>5. ASSUME NEW x \in jobs, Replicate(x)
          PROVE  Replicated!CopiesNext \/ UNCHANGED Replicated!copiesVars
      BY <2>5, ReplicateCopies DEF Replicated!CopiesNext
    <2>6. ASSUME NEW x \in installs, Install(x) PROVE Replicated!CopiesNext
      BY <2>6, InstallCopies DEF Replicated!CopiesNext
    <2>7. CASE TransferLost
      BY <2>7, LostCopies DEF Replicated!CopiesNext
    <2>8. CASE UNCHANGED vars
      BY <2>8, CopiesStutter DEF vars, storeVars, placeVars
    <2> QED
      BY <2>1, <2>2, <2>3, <2>4, <2>5, <2>6, <2>7, <2>8 DEF PlacementNext, Elsewhere
  <1> QED
    BY <1>1, <1>2, PlacementInvariant, PTL
    DEF PlacementSpec, ImplementsCopies, Replicated!CopiesSpec

=============================================================================
