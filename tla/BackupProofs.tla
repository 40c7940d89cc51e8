---------------------------- MODULE BackupProofs ----------------------------
(***************************************************************************)
(* Proofs about Backup, for any repositories, configurations, versions,    *)
(* packings, workers and any number of faults.                             *)
(***************************************************************************)
EXTENDS Backup, SequenceTheorems, WellFoundedInduction, TLAPS

-----------------------------------------------------------------------------
(* Contents and stages                                                     *)

\* A packed version is neither missing nor torn.
LEMMA Packed ==
  /\ None \in Contents /\ Torn \in Contents /\ None # Torn
  /\ \A n \in Nat, k \in {1, 2} :
       <<n, k>> \in Contents /\ <<n, k>> # None /\ <<n, k>> # Torn
<1>1. \A n \in Nat, k \in {1, 2} : <<n, k>> \in Nat \X {1, 2} /\ <<n, k>> # Torn
  BY DEF Torn
<1> QED
  BY <1>1, NoneAssumption DEF Contents

LEMMA IdleTyped == Idle \in Work
BY Packed DEF Idle, Work, Stages

\* A nonempty set of naturals has a least element.
LEMMA Least ==
  ASSUME NEW S \in SUBSET Nat, S # {}
  PROVE  \E j \in S : \A k \in S : j <= k
<1>1. IsWellFoundedOn(OpToRel(<, Nat), Nat)
  BY NatLessThanWellFounded
<1>2. PICK j \in S : \A k \in S : ~(<<k, j>> \in OpToRel(<, Nat))
  BY <1>1, WFMin
<1>3. \A k \in S : ~(k < j)
  BY <1>2 DEF OpToRel
<1> QED
  BY <1>3

\* After(i) is a later stage that the configuration asks for, and what it
\* passes over is not asked for.
LEMMA AfterIs ==
  ASSUME NEW i \in 0 .. 4
  PROVE  \E j \in (i + 1) .. 6 :
           /\ After(i) = Order[j]
           /\ Order[j] \in config.pieces \cup {"check"}
           /\ \A k \in (i + 1) .. (j - 1) : Order[k] \notin config.pieces
<1> DEFINE js == {j \in (i + 1) .. Len(Order) : Order[j] \in config.pieces \cup {"check"}}
<1>1. Len(Order) = 6 /\ Order[6] = "check"
  BY DEF Order
<1>2. 6 \in js /\ js \in SUBSET Nat
  BY <1>1
<1>3. \E j \in js : \A k \in js : j <= k
  BY <1>2, Least
<1> DEFINE m == CHOOSE j \in js : \A k \in js : j <= k
<1>4. m \in js /\ \A k \in js : m <= k
  BY <1>3
<1>5. After(i) = Order[m]
  BY DEF After
<1>6. m \in (i + 1) .. 6 /\ Order[m] \in config.pieces \cup {"check"}
  BY <1>1, <1>4
<1>7. ASSUME NEW k \in (i + 1) .. (m - 1), Order[k] \in config.pieces
      PROVE  FALSE
  <2>1. k \in js
    BY <1>1, <1>6, <1>7
  <2>2. m <= k
    BY <1>4, <2>1
  <2> HIDE DEF m, js
  <2>3. m \in Int /\ k \in Int /\ k <= m - 1
    BY <1>6, <1>7
  <2> QED
    BY <2>2, <2>3
<1> HIDE DEF m
<1> QED
  BY <1>5, <1>6, <1>7

Later == {"lfs", "asset", "package", "artifact", "bundle", "check"}
AfterPackage == {"artifact", "bundle", "check"}
AfterArtifact == {"bundle", "check"}

LEMMA AfterStages ==
  /\ \A i \in 0 .. 4 :
       /\ After(i) \in Later
       /\ After(i) = "package" => "package" \in config.pieces
       /\ After(i) = "artifact" => "artifact" \in config.pieces
  /\ \A i \in 1 .. 4 : After(i) # "lfs"
  /\ \A i \in 2 .. 4 : After(i) # "asset"
  /\ \A i \in 0 .. 2 : After(i) \in AfterPackage => "package" \notin config.pieces
  /\ \A i \in 3 .. 4 : After(i) \in AfterPackage
  /\ \A i \in 0 .. 3 : After(i) \in AfterArtifact => "artifact" \notin config.pieces
  /\ After(4) \in AfterArtifact
<1>1. /\ Order[1] = "lfs" /\ Order[2] = "asset" /\ Order[3] = "package"
      /\ Order[4] = "artifact" /\ Order[5] = "bundle" /\ Order[6] = "check"
  BY DEF Order
<1>2. \A i \in 0 .. 4 : \E j \in (i + 1) .. 6 :
           /\ After(i) = Order[j]
           /\ Order[j] \in config.pieces \cup {"check"}
           /\ \A k \in (i + 1) .. (j - 1) : Order[k] \notin config.pieces
  BY AfterIs
<1>3. ASSUME NEW i \in 0 .. 4
      PROVE  /\ After(i) \in Later
             /\ After(i) = "package" => "package" \in config.pieces
             /\ After(i) = "artifact" => "artifact" \in config.pieces
             /\ i >= 1 => After(i) # "lfs"
             /\ i >= 2 => After(i) # "asset"
             /\ i <= 2 => (After(i) \in AfterPackage => "package" \notin config.pieces)
             /\ i >= 3 => After(i) \in AfterPackage
             /\ i <= 3 => (After(i) \in AfterArtifact => "artifact" \notin config.pieces)
             /\ i = 4 => After(i) \in AfterArtifact
  <2>1. PICK j \in (i + 1) .. 6 :
           /\ After(i) = Order[j]
           /\ Order[j] \in config.pieces \cup {"check"}
           /\ \A k \in (i + 1) .. (j - 1) : Order[k] \notin config.pieces
    BY <1>2
  <2>2. i \in Nat /\ j \in {1, 2, 3, 4, 5, 6} /\ j > i
    OBVIOUS
  <2>3. j > 3 /\ i <= 2 => "package" \notin config.pieces
    BY <1>1, <2>1, <2>2
  <2>4. j > 4 /\ i <= 3 => "artifact" \notin config.pieces
    BY <1>1, <2>1, <2>2
  <2> QED
    BY <1>1, <2>1, <2>2, <2>3, <2>4 DEF Later, AfterPackage, AfterArtifact
<1> QED
  BY <1>3

LEMMA AfterIn ==
  /\ {After(0), After(1), After(2), After(3), After(4)} \subseteq Later
  /\ Later \subseteq Stages
BY AfterStages DEF Later, Stages

-----------------------------------------------------------------------------
(* What a step on one repository changes                                   *)

WorkType == [Who -> [Repos -> Work]]
DiskType == [Repos -> [Names -> Contents]]
SumsType == [Repos -> [Summed -> Contents]]

\* The record of p for r; the other writer can only lose its inode.
OnlyInode(v, w) ==
  /\ v.at = w.at /\ v.ok = w.ok /\ v.warned = w.warned
  /\ v.lfs = w.lfs /\ v.bundle = w.bundle /\ v.asset = w.asset
  /\ w.inode = "none" => v.inode = "none"

Becomes(p, r, s, ok, warned, lfs, bundle, asset, inode) ==
  /\ work' \in WorkType
  /\ work'[p][r].at = s
  /\ work'[p][r].ok = ok
  /\ work'[p][r].warned = warned
  /\ work'[p][r].lfs = lfs
  /\ work'[p][r].bundle = bundle
  /\ work'[p][r].asset = asset
  /\ work'[p][r].inode = inode
  /\ \A q \in Who, t \in Repos : t # r => work'[q][t] = work[q][t]
  /\ \A q \in Who : q # p => OnlyInode(work'[q][r], work[q][r])

LEMMA Setting ==
  ASSUME work \in WorkType, NEW p \in Who, NEW r \in Repos, NEW v \in Work,
         work' = [work EXCEPT ![p][r] = v]
  PROVE  Becomes(p, r, v.at, v.ok, v.warned, v.lfs, v.bundle, v.asset, v.inode)
<1>1. work' \in WorkType /\ work'[p][r] = v
  BY DEF WorkType
<1>2. \A q \in Who, t \in Repos : t # r \/ q # p => work'[q][t] = work[q][t]
  BY DEF WorkType
<1>3. \A q \in Who : q # p => OnlyInode(work'[q][r], work[q][r])
  BY <1>2 DEF OnlyInode
<1> QED
  BY <1>1, <1>2, <1>3 DEF Becomes

LEMMA Moving ==
  ASSUME work \in WorkType, NEW p \in Who, NEW r \in Repos, NEW s \in Stages
  PROVE  LET w == work[p][r] IN
         /\ Goes(p, r, s) => Becomes(p, r, s, w.ok, w.warned, w.lfs, w.bundle, w.asset, w.inode)
         /\ Warns(p, r, s) => Becomes(p, r, s, w.ok, TRUE, w.lfs, w.bundle, w.asset, w.inode)
         /\ Failed(p, r) => Becomes(p, r, "done", FALSE, w.warned, w.lfs, w.bundle, w.asset, "none")
<1> DEFINE w == work[p][r]
<1>1. work[p] \in [Repos -> Work] /\ w \in Work /\ "done" \in Stages
  BY DEF WorkType, Stages
<1>3. Goes(p, r, s) => Becomes(p, r, s, w.ok, w.warned, w.lfs, w.bundle, w.asset, w.inode)
  <2> DEFINE v == [w EXCEPT !.at = s]
  <2>1. v \in Work /\ v.at = s /\ v.ok = w.ok /\ v.warned = w.warned /\ v.lfs = w.lfs
        /\ v.bundle = w.bundle /\ v.asset = w.asset /\ v.inode = w.inode
    BY <1>1 DEF Work
  <2>2. Goes(p, r, s) => work' = [work EXCEPT ![p][r] = v]
    BY DEF Goes
  <2> HIDE DEF v
  <2>3. Goes(p, r, s) => Becomes(p, r, v.at, v.ok, v.warned, v.lfs, v.bundle, v.asset, v.inode)
    BY <2>1, <2>2, Setting
  <2> QED
    BY <2>1, <2>3
<1>4. Warns(p, r, s) => Becomes(p, r, s, w.ok, TRUE, w.lfs, w.bundle, w.asset, w.inode)
  <2> DEFINE v == [w EXCEPT !.at = s, !.warned = TRUE]
  <2>1. v \in Work /\ v.at = s /\ v.ok = w.ok /\ v.lfs = w.lfs
        /\ v.bundle = w.bundle /\ v.asset = w.asset /\ v.inode = w.inode
    BY <1>1 DEF Work
  <2>2. v.warned = TRUE
    BY <1>1 DEF Work
  <2>3. Warns(p, r, s) => work' = [work EXCEPT ![p][r] = v]
    BY <1>1 DEF Warns, WorkType
  <2> HIDE DEF v
  <2>4. Warns(p, r, s) => Becomes(p, r, v.at, v.ok, v.warned, v.lfs, v.bundle, v.asset, v.inode)
    BY <2>1, <2>3, Setting
  <2> QED
    BY <2>1, <2>2, <2>4, Zenon
<1>5. Failed(p, r) => Becomes(p, r, "done", FALSE, w.warned, w.lfs, w.bundle, w.asset, "none")
  <2> DEFINE v == [w EXCEPT !.at = "done", !.ok = FALSE, !.inode = "none"]
  <2>1. v \in Work /\ v.at = "done" /\ v.warned = w.warned /\ v.lfs = w.lfs
        /\ v.bundle = w.bundle /\ v.asset = w.asset /\ v.inode = "none"
    BY <1>1 DEF Work
  <2>2. v.ok = FALSE
    BY <1>1 DEF Work
  <2>3. Failed(p, r) => work' = [work EXCEPT ![p][r] = v]
    BY <1>1, ZenonT(60) DEF Failed, WorkType
  <2> HIDE DEF v
  <2>4. Failed(p, r) => Becomes(p, r, v.at, v.ok, v.warned, v.lfs, v.bundle, v.asset, v.inode)
    BY <2>1, <2>3, Setting
  <2> QED
    BY <2>1, <2>2, <2>4, Zenon
<1> QED
  BY <1>3, <1>4, <1>5

\* One file of r is replaced.
LEMMA Putting ==
  ASSUME files \in DiskType, NEW r \in Repos, NEW f \in Names, NEW c \in Contents, Put(r, f, c)
  PROVE  /\ files' \in DiskType
         /\ files'[r][f] = c
         /\ \A g \in Names : g # f => files'[r][g] = files[r][g]
         /\ \A t \in Repos : t # r => files'[t] = files[t]
BY DEF Put, DiskType

\* One digest of r is replaced.
LEMMA Summing ==
  ASSUME sums \in SumsType, NEW r \in Repos, NEW f \in Summed, NEW c \in Contents,
         sums' = [sums EXCEPT ![r][f] = c]
  PROVE  /\ sums' \in SumsType
         /\ sums'[r][f] = c
         /\ \A g \in Summed : g # f => sums'[r][g] = sums[r][g]
         /\ \A t \in Repos : t # r => sums'[t] = sums[t]
BY DEF SumsType

-----------------------------------------------------------------------------
(* Every step of backupRepo keeps its repository in order                  *)

\* What is known of a repository that p is working on.
Known(p, r) ==
  /\ work \in WorkType /\ work[p][r] \in Work
  /\ files \in DiskType /\ sums \in SumsType /\ mirror \in [Repos -> Nat]
  /\ upstream \in [Repos -> Nat \ {0}]
  /\ r \in config.repos
  /\ InScope(p, r) /\ SumsInScope(r)
  /\ Alone(p) => Archived(p, r)
  /\ p = "run" /\ ~disturbed /\ ~silent /\ Clean(work[p][r]) => Saving(r)

LEMMA Begins ==
  ASSUME BackupInv, NEW p \in Who, NEW r \in Repos, ~Free(p, r)
  PROVE  Known(p, r)
<1>1. work \in WorkType /\ files \in DiskType /\ sums \in SumsType /\ mirror \in [Repos -> Nat]
      /\ upstream \in [Repos -> Nat \ {0}]
  BY DEF BackupInv, BackupTypeOK, WorkType, DiskType, SumsType
<1>2. work[p][r] \in Work
  BY <1>1 DEF WorkType
<1>3. InScope(p, r) /\ SumsInScope(r) /\ r \in config.repos
  BY DEF BackupInv, Scoped, InScope, Free
<1>4. Alone(p) => Archived(p, r)
  BY DEF BackupInv, Archives
<1>5. p = "run" => run.phase = "repos" /\ ~At("run", r, "idle")
  BY DEF BackupInv, Fed, Free, At
<1>6. p = "run" /\ ~disturbed /\ ~silent /\ Clean(work[p][r]) => Saving(r)
  BY <1>5 DEF BackupInv, Saved
<1> QED
  BY <1>1, <1>2, <1>3, <1>4, <1>6 DEF Known

\* What the step changes, and what is known after it.
Confined(p, r) ==
  /\ UNCHANGED <<config, upstream, withdrawn, run, latest, sig, attest, dated, report, disturbed, beside>>
  /\ \/ silent' = silent
     \/ silent' = TRUE
  /\ ~Free(p, r) /\ work'[p][r].at # "idle"
  /\ work' \in WorkType /\ files' \in DiskType /\ sums' \in SumsType /\ mirror' \in [Repos -> Nat]
  /\ \A q \in Who, t \in Repos : t # r => work'[q][t] = work[q][t]
  /\ \A q \in Who : q # p => OnlyInode(work'[q][r], work[q][r])
  /\ \A t \in Repos : t # r => files'[t] = files[t] /\ sums'[t] = sums[t] /\ mirror'[t] = mirror[t]

Local(p, r) ==
  /\ Confined(p, r)
  /\ InScope(p, r)' /\ SumsInScope(r)'
  /\ Alone(p) => Archived(p, r)'
  /\ p = "run" /\ ~disturbed' /\ ~silent' /\ Clean(work[p][r])' => Saving(r)'

LEMMA SyncLocal ==
  ASSUME BackupInv, NEW p \in Who, NEW r \in Repos, Sync(p, r)
  PROVE  Local(p, r)
<1> DEFINE w == work[p][r]
<1>1. ~Free(p, r) /\ w.at = "sync"
  BY DEF Sync, At, Free
<1>2. Known(p, r)
  BY <1>1, Begins
<1>3. Becomes(p, r, After(0), w.ok, w.warned, w.lfs, w.bundle, w.asset, w.inode) /\ After(0) \in Later
  BY <1>2, Moving, AfterIn DEF Sync, Known
<1>4. mirror' \in [Repos -> Nat] /\ mirror'[r] # 0 /\ \A t \in Repos : t # r => mirror'[t] = mirror[t]
  BY <1>2 DEF Sync, Known
<1>5. Confined(p, r)
  BY <1>1, <1>2, <1>3, <1>4 DEF Sync, Confined, Becomes, Known, Later, manifestVars, history
<1>6. InScope(p, r)' /\ SumsInScope(r)'
  BY <1>2, <1>3, AfterStages DEF Sync, Known, InScope, SumsInScope, Offered, Becomes, Later
<1>7. Alone(p) => Archived(p, r)'
  BY <1>2, <1>3 DEF Known, Archived, At, Becomes, Later
<1>8. p = "run" /\ ~disturbed' /\ ~silent' /\ Clean(work[p][r])' => Saving(r)'
  <2> SUFFICES ASSUME p = "run", ~disturbed', ~silent', Clean(work[p][r])' PROVE Saving(r)'
    OBVIOUS
  <2>1. Saving(r)
    BY <1>2, <1>3 DEF Known, Clean, Becomes, Sync, history
  <2>2. SidecarMatches(r, "package")' \/ "package" \in config.pieces
    BY <1>2 DEF Sync, Known, SumsInScope, SidecarMatches, Offered
  <2>3. SidecarMatches(r, "artifact")' \/ "artifact" \in config.pieces
    BY <1>2 DEF Sync, Known, SumsInScope, SidecarMatches, Offered
  <2> QED
    BY <1>1, <1>3, <1>4, <2>1, <2>2, <2>3, AfterStages DEF Sync, Saving, Settled, Matches, Becomes, Later,
       AfterPackage, AfterArtifact, PastPackage, PastArtifact
<1> QED
  BY <1>5, <1>6, <1>7, <1>8 DEF Local

LEMMA FetchFailsLocal ==
  ASSUME BackupInv, NEW p \in Who, NEW r \in Repos, FetchFails(p, r)
  PROVE  Local(p, r)
<1> DEFINE w == work[p][r]
<1>1. ~Free(p, r) /\ w.at = "lfs"
  BY DEF FetchFails, At, Free
<1>2. Known(p, r)
  BY <1>1, Begins
<1>3. Becomes(p, r, After(1), w.ok, w.warned, w.lfs, w.bundle, w.asset, w.inode) /\ After(1) \in Later
  BY <1>2, Moving, AfterIn DEF FetchFails, Known
<1>4. UNCHANGED <<files, sums, mirror, withdrawn>>
  BY DEF FetchFails
<1>5. Confined(p, r)
  BY <1>1, <1>2, <1>3, <1>4 DEF FetchFails, Confined, Becomes, Known, Later, manifestVars, history
<1>6. InScope(p, r)' /\ SumsInScope(r)'
  BY <1>1, <1>2, <1>3, <1>4, AfterStages
     DEF FetchFails, Known, InScope, SumsInScope, Offered, Becomes, Later, Summed
<1>7. Alone(p) => Archived(p, r)'
  BY <1>2, <1>3, <1>4, AfterStages DEF Known, Archived, At, Becomes, Later
<1>8. p = "run" /\ ~disturbed' /\ ~silent' /\ Clean(work[p][r])' => Saving(r)'
  <2> SUFFICES ASSUME p = "run", ~disturbed', ~silent', Clean(work[p][r])' PROVE Saving(r)'
    OBVIOUS
  <2>1. Saving(r)
    BY <1>2, <1>3 DEF FetchFails, Known, Clean, Becomes, history
  <2>2. \A f \in {"package", "artifact"} : f \notin config.pieces => SidecarMatches(r, f)'
    BY <1>5, <1>6 DEF Confined, SumsInScope, SidecarMatches, Offered
  <2> QED
    BY <1>1, <1>3, <1>4, <2>1, <2>2, AfterStages DEF Saving, Settled, Matches, SidecarMatches, Becomes,
       Later, AfterPackage, AfterArtifact, PastPackage, PastArtifact, Names, Pieces, Summed
<1> QED
  BY <1>5, <1>6, <1>7, <1>8 DEF Local

LEMMA AssetLocal ==
  ASSUME BackupInv, NEW p \in Who, NEW r \in Repos, Asset(p, r)
  PROVE  Local(p, r)
<1> DEFINE w == work[p][r]
<1>1. ~Free(p, r) /\ w.at = "asset"
  BY DEF Asset, At, Free
<1>2. Known(p, r)
  BY <1>1, Begins
<1>3. Becomes(p, r, "asset.index", w.ok, w.warned, w.lfs, w.bundle, w.asset, w.inode)
  BY <1>2, Moving DEF Asset, Known, Stages
<1>4. /\ files' \in DiskType /\ UNCHANGED <<sums, mirror, withdrawn>>
      /\ \A g \in Names : g # "asset" => files'[r][g] = files[r][g]
      /\ \A t \in Repos : t # r => files'[t] = files[t]
  <2>1. <<upstream[r], 1>> \in Contents
    BY <1>2, Packed DEF Known
  <2> QED
    BY <1>2, <2>1, Putting DEF Asset, Known, Names, Pieces
<1>5. Confined(p, r)
  BY <1>1, <1>2, <1>3, <1>4 DEF Asset, Confined, Becomes, Known, Later, manifestVars, history
<1>6. InScope(p, r)' /\ SumsInScope(r)'
  BY <1>1, <1>2, <1>3, <1>4 DEF Asset, Known, InScope, SumsInScope, Offered, Becomes, Summed
<1>7. Alone(p) => Archived(p, r)'
  BY <1>1, <1>2, <1>3, <1>4 DEF Known, Archived, At, Becomes, Later, Names, Pieces
<1>8. p = "run" /\ ~disturbed' /\ ~silent' /\ Clean(work[p][r])' => Saving(r)'
  <2> SUFFICES ASSUME p = "run", ~disturbed', ~silent', Clean(work[p][r])' PROVE Saving(r)'
    OBVIOUS
  <2>1. Saving(r)
    BY <1>2, <1>3 DEF Asset, Known, Clean, Becomes, history
  <2> QED
    BY <1>1, <1>3, <1>4, <2>1 DEF Saving, Settled, Matches, SidecarMatches, Becomes,
       PastPackage, PastArtifact, Names, Pieces, Summed
<1> QED
  BY <1>5, <1>6, <1>7, <1>8 DEF Local

LEMMA AssetFailsLocal ==
  ASSUME BackupInv, NEW p \in Who, NEW r \in Repos, AssetFails(p, r)
  PROVE  Local(p, r)
<1> DEFINE w == work[p][r]
<1>1. ~Free(p, r) /\ w.at = "asset"
  BY DEF AssetFails, At, Free
<1>2. Known(p, r)
  BY <1>1, Begins
<1>3. Becomes(p, r, After(2), w.ok, TRUE, w.lfs, w.bundle, w.asset, w.inode) /\ After(2) \in Later
  BY <1>2, Moving, AfterIn DEF AssetFails, Known
<1>4. /\ sums' \in SumsType /\ UNCHANGED <<files, mirror, withdrawn>> /\ sums'[r].asset = None
      /\ \A g \in Summed : g # "asset" => sums'[r][g] = sums[r][g]
      /\ \A t \in Repos : t # r => sums'[t] = sums[t]
  BY <1>2, Summing, Packed DEF AssetFails, Known, Summed
<1>5. Confined(p, r)
  BY <1>1, <1>2, <1>3, <1>4 DEF AssetFails, Confined, Becomes, Known, Later, manifestVars, history
<1>6. InScope(p, r)' /\ SumsInScope(r)'
  BY <1>1, <1>2, <1>3, <1>4, AfterStages
     DEF AssetFails, Known, InScope, SumsInScope, Offered, Becomes, Later, Summed
<1>7. Alone(p) => Archived(p, r)'
  BY <1>1, <1>2, <1>3, <1>4 DEF Known, Archived, At, Becomes, Later, Names, Pieces
<1>8. ~Clean(work[p][r])'
  BY <1>3 DEF Becomes, Clean
<1> QED
  BY <1>5, <1>6, <1>7, <1>8 DEF Local

LEMMA PlatformWarnsLocal ==
  ASSUME BackupInv, NEW p \in Who, NEW r \in Repos, PlatformWarns(p, r)
  PROVE  Local(p, r)
<1> DEFINE w == work[p][r]
<1>1. ~Free(p, r) /\ w.at = "package"
  BY DEF PlatformWarns, At, Free
<1>2. Known(p, r)
  BY <1>1, Begins
<1>3. Becomes(p, r, "package", w.ok, TRUE, w.lfs, w.bundle, w.asset, w.inode)
  BY <1>2, Moving DEF PlatformWarns, Known, Stages
<1>4. UNCHANGED <<files, sums, mirror, withdrawn>>
  BY DEF PlatformWarns
<1>5. Confined(p, r)
  BY <1>1, <1>2, <1>3, <1>4 DEF PlatformWarns, Confined, Becomes, Known, Later, manifestVars, history
<1>6. InScope(p, r)' /\ SumsInScope(r)'
  BY <1>1, <1>2, <1>3, <1>4 DEF PlatformWarns, Known, InScope, SumsInScope, Offered, Becomes, Summed
<1>7. Alone(p) => Archived(p, r)'
  BY <1>1, <1>2, <1>3, <1>4 DEF Known, Archived, At, Becomes, Later, Names, Pieces
<1>8. ~Clean(work[p][r])'
  BY <1>3 DEF Becomes, Clean
<1> QED
  BY <1>5, <1>6, <1>7, <1>8 DEF Local

LEMMA PackageStartLocal ==
  ASSUME BackupInv, NEW p \in Who, NEW r \in Repos, PackageStart(p, r)
  PROVE  Local(p, r)
<1> DEFINE w == work[p][r]
<1>1. ~Free(p, r) /\ w.at = "package"
  BY DEF PackageStart, At, Free
<1>2. Known(p, r)
  BY <1>1, Begins
<1>3. Becomes(p, r, "package.write", w.ok, w.warned, w.lfs, w.bundle, w.asset, w.inode)
  BY <1>2, Moving DEF PackageStart, Known, Stages
<1>4. /\ files' \in DiskType /\ UNCHANGED <<sums, mirror, withdrawn>>
      /\ \A g \in Names : g # "package" => files'[r][g] = files[r][g]
      /\ \A t \in Repos : t # r => files'[t] = files[t]
  BY <1>2, Putting, Packed DEF PackageStart, Known, Names, Pieces
<1>5. Confined(p, r)
  BY <1>1, <1>2, <1>3, <1>4 DEF PackageStart, Confined, Becomes, Known, Later, manifestVars, history
<1>6. InScope(p, r)' /\ SumsInScope(r)'
  BY <1>1, <1>2, <1>3, <1>4 DEF PackageStart, Known, InScope, SumsInScope, Offered, Becomes, Summed
<1>7. Alone(p) => Archived(p, r)'
  BY <1>1, <1>2, <1>3, <1>4 DEF Known, Archived, At, Becomes, Later, Names, Pieces
<1>8. p = "run" /\ ~disturbed' /\ ~silent' /\ Clean(work[p][r])' => Saving(r)'
  <2> SUFFICES ASSUME p = "run", ~disturbed', ~silent', Clean(work[p][r])' PROVE Saving(r)'
    OBVIOUS
  <2>1. Saving(r)
    BY <1>2, <1>3 DEF PackageStart, Known, Clean, Becomes, history
  <2> QED
    BY <1>1, <1>3, <1>4, <2>1 DEF Saving, Settled, Matches, SidecarMatches, Becomes,
       PastPackage, PastArtifact, Names, Pieces, Summed
<1> QED
  BY <1>5, <1>6, <1>7, <1>8 DEF Local

LEMMA PackageFetchedLocal ==
  ASSUME BackupInv, NEW p \in Who, NEW r \in Repos, PackageFetched(p, r)
  PROVE  Local(p, r)
<1> DEFINE w == work[p][r]
<1>1. ~Free(p, r) /\ w.at = "package"
  BY DEF PackageFetched, At, Free
<1>2. Known(p, r)
  BY <1>1, Begins
<1>3. Becomes(p, r, "package.fetched", w.ok, w.warned, w.lfs, w.bundle, w.asset, w.inode)
  BY <1>2, Moving DEF PackageFetched, Known, Stages
<1>4. /\ files' \in DiskType /\ UNCHANGED <<sums, mirror, withdrawn>>
      /\ \A g \in Names : g # "package" => files'[r][g] = files[r][g]
      /\ \A t \in Repos : t # r => files'[t] = files[t]
  <2>1. <<upstream[r], 1>> \in Contents
    BY <1>2, Packed DEF Known
  <2> QED
    BY <1>2, <2>1, Putting DEF PackageFetched, Known, Names, Pieces
<1>5. Confined(p, r)
  BY <1>1, <1>2, <1>3, <1>4 DEF PackageFetched, Confined, Becomes, Known, Later, manifestVars, history
<1>6. InScope(p, r)' /\ SumsInScope(r)'
  BY <1>1, <1>2, <1>3, <1>4 DEF PackageFetched, Known, InScope, SumsInScope, Offered, Becomes, Summed
<1>7. Alone(p) => Archived(p, r)'
  BY <1>1, <1>2, <1>3, <1>4 DEF Known, Archived, At, Becomes, Later, Names, Pieces
<1>8. p = "run" /\ ~disturbed' /\ ~silent' /\ Clean(work[p][r])' => Saving(r)'
  <2> SUFFICES ASSUME p = "run", ~disturbed', ~silent', Clean(work[p][r])' PROVE Saving(r)'
    OBVIOUS
  <2>1. Saving(r)
    BY <1>2, <1>3 DEF PackageFetched, Known, Clean, Becomes, history
  <2> QED
    BY <1>1, <1>3, <1>4, <2>1 DEF Saving, Settled, Matches, SidecarMatches, Becomes,
       PastPackage, PastArtifact, Names, Pieces, Summed
<1> QED
  BY <1>5, <1>6, <1>7, <1>8 DEF Local

LEMMA PackageFailsLocal ==
  ASSUME BackupInv, NEW p \in Who, NEW r \in Repos, PackageFails(p, r)
  PROVE  Local(p, r)
<1> DEFINE w == work[p][r]
<1>1. ~Free(p, r) /\ w.at = "package"
  BY DEF PackageFails, At, Free
<1>2. Known(p, r)
  BY <1>1, Begins
<1>3. Becomes(p, r, After(3), w.ok, TRUE, w.lfs, w.bundle, w.asset, w.inode) /\ After(3) \in Later
  BY <1>2, Moving, AfterIn DEF PackageFails, Known
<1>4. UNCHANGED <<files, sums, mirror, withdrawn>>
  BY DEF PackageFails
<1>5. Confined(p, r)
  BY <1>1, <1>2, <1>3, <1>4 DEF PackageFails, Confined, Becomes, Known, Later, manifestVars, history
<1>6. InScope(p, r)' /\ SumsInScope(r)'
  BY <1>1, <1>2, <1>3, <1>4, AfterStages
     DEF PackageFails, Known, InScope, SumsInScope, Offered, Becomes, Later, Summed
<1>7. Alone(p) => Archived(p, r)'
  BY <1>1, <1>2, <1>3, <1>4 DEF Known, Archived, At, Becomes, Later, Names, Pieces
<1>8. ~Clean(work[p][r])'
  BY <1>3 DEF Becomes, Clean
<1> QED
  BY <1>5, <1>6, <1>7, <1>8 DEF Local

LEMMA PackageEndLocal ==
  ASSUME BackupInv, NEW p \in Who, NEW r \in Repos, PackageEnd(p, r)
  PROVE  Local(p, r)
<1> DEFINE w == work[p][r]
<1>1. ~Free(p, r) /\ w.at = "package.write"
  BY DEF PackageEnd, At, Free
<1>2. Known(p, r)
  BY <1>1, Begins
<1>3. Becomes(p, r, "package.sum", w.ok, w.warned, w.lfs, w.bundle, w.asset, w.inode)
  BY <1>2, Moving DEF PackageEnd, Known, Stages
<1>4. /\ files' \in DiskType /\ UNCHANGED <<sums, mirror, withdrawn>>
      /\ \A g \in Names : g # "package" => files'[r][g] = files[r][g]
      /\ \A t \in Repos : t # r => files'[t] = files[t]
  <2>1. <<upstream[r], 1>> \in Contents
    BY <1>2, Packed DEF Known
  <2> QED
    BY <1>2, <2>1, Putting DEF PackageEnd, Known, Names, Pieces
<1>5. Confined(p, r)
  BY <1>1, <1>2, <1>3, <1>4 DEF PackageEnd, Confined, Becomes, Known, Later, manifestVars, history
<1>6. InScope(p, r)' /\ SumsInScope(r)'
  BY <1>1, <1>2, <1>3, <1>4 DEF PackageEnd, Known, InScope, SumsInScope, Offered, Becomes, Summed
<1>7. Alone(p) => Archived(p, r)'
  BY <1>1, <1>2, <1>3, <1>4 DEF Known, Archived, At, Becomes, Later, Names, Pieces
<1>8. p = "run" /\ ~disturbed' /\ ~silent' /\ Clean(work[p][r])' => Saving(r)'
  <2> SUFFICES ASSUME p = "run", ~disturbed', ~silent', Clean(work[p][r])' PROVE Saving(r)'
    OBVIOUS
  <2>1. Saving(r)
    BY <1>2, <1>3 DEF PackageEnd, Known, Clean, Becomes, history
  <2> QED
    BY <1>1, <1>3, <1>4, <2>1 DEF Saving, Settled, Matches, SidecarMatches, Becomes,
       PastPackage, PastArtifact, Names, Pieces, Summed
<1> QED
  BY <1>5, <1>6, <1>7, <1>8 DEF Local

LEMMA PackageBreaksLocal ==
  ASSUME BackupInv, NEW p \in Who, NEW r \in Repos, PackageBreaks(p, r)
  PROVE  Local(p, r)
<1> DEFINE w == work[p][r]
<1>1. ~Free(p, r) /\ w.at = "package.write"
  BY DEF PackageBreaks, At, Free
<1>2. Known(p, r)
  BY <1>1, Begins
<1>3. Becomes(p, r, After(3), w.ok, w.warned, w.lfs, w.bundle, w.asset, w.inode) /\ After(3) \in Later
  BY <1>2, Moving, AfterIn DEF PackageBreaks, Known
<1>4. UNCHANGED <<files, sums, mirror, withdrawn>>
  BY DEF PackageBreaks
<1>5. Confined(p, r)
  BY <1>1, <1>2, <1>3, <1>4 DEF PackageBreaks, Confined, Becomes, Known, Later, manifestVars, history
<1>6. InScope(p, r)' /\ SumsInScope(r)'
  BY <1>1, <1>2, <1>3, <1>4, AfterStages
     DEF PackageBreaks, Known, InScope, SumsInScope, Offered, Becomes, Later, Summed
<1>7. Alone(p) => Archived(p, r)'
  BY <1>1, <1>2, <1>3, <1>4 DEF Known, Archived, At, Becomes, Later, Names, Pieces
<1>8. p = "run" /\ ~disturbed' /\ ~silent' /\ Clean(work[p][r])' => Saving(r)'
  BY DEF PackageBreaks
<1> QED
  BY <1>5, <1>6, <1>7, <1>8 DEF Local

LEMMA PackageSumLocal ==
  ASSUME BackupInv, NEW p \in Who, NEW r \in Repos, PackageSum(p, r)
  PROVE  Local(p, r)
<1> DEFINE w == work[p][r]
<1>1. ~Free(p, r) /\ w.at \in {"package.sum", "package.fetched"}
  BY DEF PackageSum, At, Free
<1>2. Known(p, r)
  BY <1>1, Begins
<1>3. Becomes(p, r, After(3), w.ok, w.warned, w.lfs, w.bundle, w.asset, w.inode) /\ After(3) \in Later
  BY <1>2, Moving, AfterIn DEF PackageSum, Known
<1>4. /\ sums' \in SumsType /\ UNCHANGED <<files, mirror, withdrawn>> /\ sums'[r].package = files[r].package
      /\ \A g \in Summed : g # "package" => sums'[r][g] = sums[r][g]
      /\ \A t \in Repos : t # r => sums'[t] = sums[t]
  <2>1. files[r].package \in Contents
    BY <1>2 DEF Known, DiskType, Names, Pieces
  <2> QED
    BY <1>2, <2>1, Summing DEF PackageSum, Known, Summed
<1>5. Confined(p, r)
  BY <1>1, <1>2, <1>3, <1>4 DEF PackageSum, Confined, Becomes, Known, Later, manifestVars, history
<1>6. InScope(p, r)' /\ SumsInScope(r)'
  BY <1>1, <1>2, <1>3, <1>4, AfterStages
     DEF PackageSum, Known, InScope, SumsInScope, Offered, Becomes, Later, Summed
<1>7. Alone(p) => Archived(p, r)'
  BY <1>1, <1>2, <1>3, <1>4 DEF Known, Archived, At, Becomes, Later, Names, Pieces
<1>8. p = "run" /\ ~disturbed' /\ ~silent' /\ Clean(work[p][r])' => Saving(r)'
  <2> SUFFICES ASSUME p = "run", ~disturbed', ~silent', Clean(work[p][r])' PROVE Saving(r)'
    OBVIOUS
  <2>1. Saving(r)
    BY <1>2, <1>3 DEF PackageSum, Known, Clean, Becomes, history
  <2>2. \A f \in {"package", "artifact"} : f \notin config.pieces => SidecarMatches(r, f)'
    BY <1>5, <1>6 DEF Confined, SumsInScope, SidecarMatches, Offered
  <2> QED
    BY <1>1, <1>3, <1>4, <2>1, <2>2, AfterStages DEF Saving, Settled, Matches, SidecarMatches, Becomes,
       Later, AfterPackage, AfterArtifact, PastPackage, PastArtifact, Names, Pieces, Summed
<1> QED
  BY <1>5, <1>6, <1>7, <1>8 DEF Local

LEMMA PackageTooLargeLocal ==
  ASSUME BackupInv, NEW p \in Who, NEW r \in Repos, PackageTooLarge(p, r)
  PROVE  Local(p, r)
<1> DEFINE w == work[p][r]
<1>1. ~Free(p, r) /\ w.at = "package.sum"
  BY DEF PackageTooLarge, At, Free
<1>2. Known(p, r)
  BY <1>1, Begins
<1>3. Becomes(p, r, After(3), w.ok, w.warned, w.lfs, w.bundle, w.asset, w.inode) /\ After(3) \in Later
  BY <1>2, Moving, AfterIn DEF PackageTooLarge, Known
<1>4. /\ files' \in DiskType /\ sums' \in SumsType /\ UNCHANGED <<mirror, withdrawn>>
      /\ sums'[r].package = None /\ sums'[r].asset = sums[r].asset /\ sums'[r].artifact = sums[r].artifact
      /\ \A g \in Names : g # "package" => files'[r][g] = files[r][g]
      /\ \A t \in Repos : t # r => files'[t] = files[t] /\ sums'[t] = sums[t]
  <2>1. sums' = [sums EXCEPT ![r]["package"] = None]
    BY DEF PackageTooLarge
  <2>2. /\ sums' \in SumsType /\ sums'[r].package = None /\ sums'[r].asset = sums[r].asset
        /\ sums'[r].artifact = sums[r].artifact /\ \A t \in Repos : t # r => sums'[t] = sums[t]
    BY <1>2, <2>1, Summing, Packed DEF Known, Summed
  <2> QED
    BY <1>2, <2>2, Putting, Packed DEF PackageTooLarge, Known, Names, Pieces
<1>5. Confined(p, r)
  BY <1>1, <1>2, <1>3, <1>4 DEF PackageTooLarge, Confined, Becomes, Known, Later, manifestVars, history
<1>6. InScope(p, r)' /\ SumsInScope(r)'
  BY <1>1, <1>2, <1>3, <1>4, AfterStages
     DEF PackageTooLarge, Known, InScope, SumsInScope, Offered, Becomes, Later, Summed
<1>7. Alone(p) => Archived(p, r)'
  BY <1>1, <1>2, <1>3, <1>4 DEF Known, Archived, At, Becomes, Later, Names, Pieces
<1>8. p = "run" /\ ~disturbed' /\ ~silent' /\ Clean(work[p][r])' => Saving(r)'
  <2> SUFFICES ASSUME p = "run", ~disturbed', ~silent', Clean(work[p][r])' PROVE Saving(r)'
    OBVIOUS
  <2>1. Saving(r)
    BY <1>2, <1>3 DEF PackageTooLarge, Known, Clean, Becomes, history
  <2>2. \A f \in {"package", "artifact"} : f \notin config.pieces => SidecarMatches(r, f)'
    BY <1>5, <1>6 DEF Confined, SumsInScope, SidecarMatches, Offered
  <2> QED
    BY <1>1, <1>3, <1>4, <2>1, <2>2, AfterStages DEF Saving, Settled, Matches, SidecarMatches, Becomes,
       Later, AfterPackage, AfterArtifact, PastPackage, PastArtifact, Names, Pieces, Summed
<1> QED
  BY <1>5, <1>6, <1>7, <1>8 DEF Local

LEMMA ArtifactSumLocal ==
  ASSUME BackupInv, NEW p \in Who, NEW r \in Repos, ArtifactSum(p, r)
  PROVE  Local(p, r)
<1> DEFINE w == work[p][r]
<1>1. ~Free(p, r) /\ w.at = "artifact.sum"
  BY DEF ArtifactSum, At, Free
<1>2. Known(p, r)
  BY <1>1, Begins
<1>3. Becomes(p, r, After(4), w.ok, w.warned, w.lfs, w.bundle, w.asset, w.inode) /\ After(4) \in Later
  BY <1>2, Moving, AfterIn DEF ArtifactSum, Known
<1>4. /\ sums' \in SumsType /\ UNCHANGED <<files, mirror, withdrawn>> /\ sums'[r].artifact = files[r].artifact
      /\ \A g \in Summed : g # "artifact" => sums'[r][g] = sums[r][g]
      /\ \A t \in Repos : t # r => sums'[t] = sums[t]
  <2>1. files[r].artifact \in Contents
    BY <1>2 DEF Known, DiskType, Names, Pieces
  <2> QED
    BY <1>2, <2>1, Summing DEF ArtifactSum, Known, Summed
<1>5. Confined(p, r)
  BY <1>1, <1>2, <1>3, <1>4 DEF ArtifactSum, Confined, Becomes, Known, Later, manifestVars, history
<1>6. InScope(p, r)' /\ SumsInScope(r)'
  BY <1>1, <1>2, <1>3, <1>4, AfterStages
     DEF ArtifactSum, Known, InScope, SumsInScope, Offered, Becomes, Later, Summed
<1>7. Alone(p) => Archived(p, r)'
  BY <1>1, <1>2, <1>3, <1>4 DEF Known, Archived, At, Becomes, Later, Names, Pieces
<1>8. p = "run" /\ ~disturbed' /\ ~silent' /\ Clean(work[p][r])' => Saving(r)'
  <2> SUFFICES ASSUME p = "run", ~disturbed', ~silent', Clean(work[p][r])' PROVE Saving(r)'
    OBVIOUS
  <2>1. Saving(r)
    BY <1>2, <1>3 DEF ArtifactSum, Known, Clean, Becomes, history
  <2>2. \A f \in {"package", "artifact"} : f \notin config.pieces => SidecarMatches(r, f)'
    BY <1>5, <1>6 DEF Confined, SumsInScope, SidecarMatches, Offered
  <2> QED
    BY <1>1, <1>3, <1>4, <2>1, <2>2, AfterStages DEF Saving, Settled, Matches, SidecarMatches, Becomes,
       Later, AfterPackage, AfterArtifact, PastPackage, PastArtifact, Names, Pieces, Summed
<1> QED
  BY <1>5, <1>6, <1>7, <1>8 DEF Local

LEMMA BundleCreateLocal ==
  ASSUME BackupInv, NEW p \in Who, NEW r \in Repos, BundleCreate(p, r)
  PROVE  Local(p, r)
<1> DEFINE w == work[p][r]
<1>0. config.packings \subseteq {1, 2}
  BY BackupAssumption DEF BackupInv, BackupTypeOK
<1>1. ~Free(p, r) /\ w.at = "bundle"
  BY DEF BundleCreate, At, Free
<1>2. Known(p, r)
  BY <1>1, Begins
<1>3. Becomes(p, r, "bundle.rename", w.ok, w.warned, w.lfs, w.bundle, w.asset, w.inode)
  BY <1>2, Moving DEF BundleCreate, Known, Stages
<1>4. /\ files' \in DiskType /\ UNCHANGED <<sums, mirror, withdrawn>>
      /\ \A g \in Names : g # "bundle.tmp" => files'[r][g] = files[r][g]
      /\ \A t \in Repos : t # r => files'[t] = files[t]
      /\ files'[r]["bundle.tmp"] \in {mirror[r]} \X {1, 2}
  <2>1. PICK k \in {1, 2} : Put(r, "bundle.tmp", <<mirror[r], k>>)
    BY <1>0 DEF BundleCreate
  <2>2. <<mirror[r], k>> \in Contents /\ <<mirror[r], k>> \in {mirror[r]} \X {1, 2}
    BY <1>2, Packed DEF Known
  <2> QED
    BY <1>2, <2>1, <2>2, Putting DEF BundleCreate, Known, Names
<1>5. Confined(p, r)
  BY <1>1, <1>2, <1>3, <1>4 DEF BundleCreate, Confined, Becomes, Known, Later, manifestVars, history
<1>6. InScope(p, r)' /\ SumsInScope(r)'
  BY <1>1, <1>2, <1>3, <1>4 DEF BundleCreate, Known, InScope, SumsInScope, Offered, Becomes, Summed
<1>7. Alone(p) => Archived(p, r)'
  BY <1>1, <1>2, <1>3, <1>4 DEF Known, Archived, At, Becomes, Later, Names, Pieces
<1>8. p = "run" /\ ~disturbed' /\ ~silent' /\ Clean(work[p][r])' => Saving(r)'
  <2> SUFFICES ASSUME p = "run", ~disturbed', ~silent', Clean(work[p][r])' PROVE Saving(r)'
    OBVIOUS
  <2>1. Saving(r)
    BY <1>2, <1>3 DEF BundleCreate, Known, Clean, Becomes, history
  <2> QED
    BY <1>1, <1>3, <1>4, <2>1 DEF Saving, Settled, Matches, SidecarMatches, Becomes,
       PastPackage, PastArtifact, Names, Pieces, Summed
<1> QED
  BY <1>5, <1>6, <1>7, <1>8 DEF Local

\* A result with an error is of no further interest to the run.
LEMMA FailedLocal ==
  ASSUME BackupInv, NEW p \in Who, NEW r \in Repos, ~Free(p, r), Failed(p, r),
         UNCHANGED <<config, withdrawn, upstream, mirror, files, sums, run, manifestVars, report, history>>
  PROVE  Local(p, r)
<1> DEFINE w == work[p][r]
<1>1. Known(p, r)
  BY Begins
<1>2. Becomes(p, r, "done", FALSE, w.warned, w.lfs, w.bundle, w.asset, "none")
  BY <1>1, Moving DEF Known, Stages
<1>3. Confined(p, r)
  BY <1>1, <1>2 DEF Confined, Becomes, Known, manifestVars, history
<1>4. InScope(p, r)' /\ SumsInScope(r)'
  BY <1>1, <1>2 DEF Known, InScope, SumsInScope, Offered, Becomes
<1>5. Alone(p) => Archived(p, r)'
  BY <1>1, <1>2 DEF Known, Archived, At, Becomes
<1>6. ~Clean(work[p][r])'
  BY <1>2 DEF Becomes, Clean
<1> QED
  BY <1>3, <1>4, <1>5, <1>6 DEF Local

\* A step that takes the inode away from the other writer.
LEMMA Taking ==
  ASSUME work \in WorkType, NEW p \in Who, NEW r \in Repos, NEW v \in Work, NEW u \in [Who -> Work],
         \A q \in Who : q # p => OnlyInode(u[q], work[q][r]),
         work' = [q \in Who |-> work'[q]],
         \A q \in Who : work'[q] = [work[q] EXCEPT ![r] = IF q = p THEN v ELSE u[q]]
  PROVE  Becomes(p, r, v.at, v.ok, v.warned, v.lfs, v.bundle, v.asset, v.inode)
<1>1. \A q \in Who : /\ work'[q] \in [Repos -> Work]
                     /\ work'[q][r] = (IF q = p THEN v ELSE u[q])
                     /\ \A t \in Repos : t # r => work'[q][t] = work[q][t]
  BY DEF WorkType
<1>2. work' \in WorkType
  BY <1>1 DEF WorkType
<1> QED
  BY <1>1, <1>2 DEF Becomes

LEMMA InodeLost ==
  ASSUME NEW w \in Work, NEW i \in {"none", "tmp", "dst"}, w.inode = "none" => i = "none"
  PROVE  [w EXCEPT !.inode = i] \in Work /\ OnlyInode([w EXCEPT !.inode = i], w)
BY DEF Work, OnlyInode

LEMMA ArchiveStartLocal ==
  ASSUME BackupInv, NEW p \in Who, NEW r \in Repos, ArchiveStart(p, r)
  PROVE  Local(p, r)
<1> DEFINE w == work[p][r]
<1>1. ~Free(p, r) /\ w.at = "lfs"
  BY DEF ArchiveStart, At, Free
<1>2. Known(p, r)
  BY <1>1, Begins
<1>3. Becomes(p, r, "lfs.write", w.ok, w.warned, w.lfs, w.bundle, w.asset, "tmp")
  <2> DEFINE v == [w EXCEPT !.at = "lfs.write", !.inode = "tmp"]
             u == [q \in Who |-> [work[q][r] EXCEPT !.inode =
                                    Unlinked(work[q][r].inode)]]
  <2>0. \A q \in Who : work[q] \in [Repos -> Work] /\ work[q][r] \in Work
    BY <1>2 DEF Known, WorkType
  <2>1. /\ v \in Work /\ v.at = "lfs.write" /\ v.ok = w.ok /\ v.warned = w.warned /\ v.lfs = w.lfs
        /\ v.bundle = w.bundle /\ v.asset = w.asset /\ v.inode = "tmp"
    BY <2>0 DEF Work, Stages
  <2>2. \A q \in Who : u[q] \in Work /\ OnlyInode(u[q], work[q][r])
    <3> SUFFICES ASSUME NEW q \in Who PROVE u[q] \in Work /\ OnlyInode(u[q], work[q][r])
      OBVIOUS
    <3>1. work[q][r] \in Work /\ work[q][r].inode \in {"none", "tmp", "dst"}
      BY <2>0 DEF Work
    <3>2. /\ Unlinked(work[q][r].inode) \in {"none", "tmp", "dst"}
          /\ work[q][r].inode = "none" => Unlinked(work[q][r].inode) = "none"
      BY <3>1 DEF Unlinked
    <3>3. u[q] = [work[q][r] EXCEPT !.inode = Unlinked(work[q][r].inode)]
      OBVIOUS
    <3> HIDE DEF u
    <3> QED
      BY <3>1, <3>2, <3>3, InodeLost
  <2>3. u \in [Who -> Work]
    BY <2>2
  <2>4. work' = [q \in Who |-> [work[q] EXCEPT ![r] =
           IF q = p THEN [work[q][r] EXCEPT !.at = "lfs.write", !.inode = "tmp"]
           ELSE [work[q][r] EXCEPT !.inode = Unlinked(work[q][r].inode)]]]
    BY DEF ArchiveStart
  <2>6. work' = [q \in Who |-> work'[q]]
    BY <2>4
  <2>7. \A q \in Who : work'[q] = [work[q] EXCEPT ![r] = IF q = p THEN v ELSE u[q]]
    BY <2>4
  <2> HIDE DEF u, v
  <2>5. Becomes(p, r, v.at, v.ok, v.warned, v.lfs, v.bundle, v.asset, v.inode)
    BY <1>2, <2>1, <2>2, <2>3, <2>6, <2>7, Taking DEF Known
  <2> QED
    BY <2>1, <2>5
<1>4. /\ files' \in DiskType /\ UNCHANGED <<sums, mirror, withdrawn>>
      /\ \A g \in Names : g # "lfs.tmp" => files'[r][g] = files[r][g]
      /\ \A t \in Repos : t # r => files'[t] = files[t]
  <2>1. Put(r, "lfs.tmp", Torn) /\ UNCHANGED <<sums, mirror, withdrawn>>
    BY DEF ArchiveStart
  <2>2. "lfs.tmp" \in Names /\ Torn \in Contents /\ files \in DiskType
    BY <1>2, Packed DEF Known, Names
  <2> QED
    BY <2>1, <2>2, Putting
<1>5. Confined(p, r)
  BY <1>1, <1>2, <1>3, <1>4 DEF ArchiveStart, Confined, Becomes, Known, Later, manifestVars, history
<1>6. InScope(p, r)' /\ SumsInScope(r)'
  BY <1>1, <1>2, <1>3, <1>4 DEF ArchiveStart, Known, InScope, SumsInScope, Offered, Becomes, Summed
<1>7. Alone(p) => Archived(p, r)'
  BY <1>1, <1>2, <1>3, <1>4 DEF Known, Archived, At, Becomes, Later, Names, Pieces
<1>8. p = "run" /\ ~disturbed' /\ ~silent' /\ Clean(work[p][r])' => Saving(r)'
  <2> SUFFICES ASSUME p = "run", ~disturbed', ~silent', Clean(work[p][r])' PROVE Saving(r)'
    OBVIOUS
  <2>1. Saving(r)
    BY <1>2, <1>3 DEF ArchiveStart, Known, Clean, Becomes, history
  <2> QED
    BY <1>1, <1>3, <1>4, <2>1 DEF Saving, Settled, Matches, SidecarMatches, Becomes,
       PastPackage, PastArtifact, Names, Pieces, Summed
<1> QED
  BY <1>5, <1>6, <1>7, <1>8 DEF Local

LEMMA ArchiveEndLocal ==
  ASSUME BackupInv, NEW p \in Who, NEW r \in Repos, ArchiveEnd(p, r)
  PROVE  Local(p, r)
<1> DEFINE w == work[p][r]
<1>1. ~Free(p, r) /\ w.at = "lfs.write"
  BY DEF ArchiveEnd, At, Free
<1>2. Known(p, r)
  BY <1>1, Begins
<1>3. Becomes(p, r, "lfs.rename", w.ok, w.warned, w.lfs, w.bundle, w.asset, w.inode)
  <2>1. Goes(p, r, "lfs.rename")
    BY DEF ArchiveEnd, Goes
  <2> QED
    BY <1>2, <2>1, Moving DEF Known, Stages
<1>4. /\ files' \in DiskType /\ UNCHANGED <<sums, mirror, withdrawn>>
      /\ w.inode = "tmp" => files'[r]["lfs.tmp"] \notin {None, Torn}
      /\ \A g \in Names : g \notin {"lfs", "lfs.tmp"} => files'[r][g] = files[r][g]
      /\ \A t \in Repos : t # r => files'[t] = files[t]
  <2> DEFINE x == IF w.inode = "tmp" THEN <<mirror[r], 1>> ELSE files[r]["lfs.tmp"]
             y == IF w.inode = "dst" THEN <<mirror[r], 1>> ELSE files[r]["lfs"]
  <2>1. "lfs" \in Names /\ "lfs.tmp" \in Names /\ "lfs" # "lfs.tmp"
    BY DEF Names, Pieces
  <2>2. <<mirror[r], 1>> \in Contents /\ <<mirror[r], 1>> \notin {None, Torn}
    BY <1>2, Packed DEF Known
  <2>3. x \in Contents /\ y \in Contents /\ (w.inode = "tmp" => x \notin {None, Torn})
    BY <1>2, <2>1, <2>2 DEF Known, DiskType
  <2>4. files' = [files EXCEPT ![r]["lfs.tmp"] = x, ![r]["lfs"] = y]
    BY <1>2, <2>1 DEF ArchiveEnd, Known, DiskType
  <2> HIDE DEF x, y
  <2>5. UNCHANGED <<sums, mirror, withdrawn>>
    BY DEF ArchiveEnd
  <2> QED
    BY <1>2, <2>1, <2>3, <2>4, <2>5 DEF Known, DiskType
<1>5. Confined(p, r)
  BY <1>1, <1>2, <1>3, <1>4 DEF ArchiveEnd, Confined, Becomes, Known, Later, manifestVars, history
<1>6. InScope(p, r)' /\ SumsInScope(r)'
  BY <1>1, <1>2, <1>3, <1>4 DEF ArchiveEnd, Known, InScope, SumsInScope, Offered, Becomes, Summed
<1>7. Alone(p) => Archived(p, r)'
  BY <1>1, <1>2, <1>3, <1>4 DEF Known, Archived, At, Becomes, Later, Names, Pieces
<1>8. p = "run" /\ ~disturbed' /\ ~silent' /\ Clean(work[p][r])' => Saving(r)'
  <2> SUFFICES ASSUME p = "run", ~disturbed', ~silent', Clean(work[p][r])' PROVE Saving(r)'
    OBVIOUS
  <2>1. Saving(r)
    BY <1>2, <1>3 DEF ArchiveEnd, Known, Clean, Becomes, history
  <2> QED
    BY <1>1, <1>3, <1>4, <2>1 DEF Saving, Settled, Matches, SidecarMatches, Becomes,
       PastPackage, PastArtifact, Names, Pieces, Summed
<1> QED
  BY <1>5, <1>6, <1>7, <1>8 DEF Local

LEMMA ArchiveRenameLocal ==
  ASSUME BackupInv, NEW p \in Who, NEW r \in Repos, ArchiveRename(p, r), files[r]["lfs.tmp"] # None
  PROVE  Local(p, r)
<1> DEFINE w == work[p][r]
<1>1. ~Free(p, r) /\ w.at = "lfs.rename"
  BY DEF ArchiveRename, At, Free
<1>2. Known(p, r)
  BY <1>1, Begins
<1>3. Becomes(p, r, "lfs.hash", w.ok, w.warned, w.lfs, w.bundle, w.asset, "none")
  <2> DEFINE v == [w EXCEPT !.at = "lfs.hash", !.inode = "none"]
             u == [q \in Who |-> [work[q][r] EXCEPT !.inode =
                                    Replaced(work[q][r].inode)]]
  <2>0. \A q \in Who : work[q] \in [Repos -> Work] /\ work[q][r] \in Work
    BY <1>2 DEF Known, WorkType
  <2>1. /\ v \in Work /\ v.at = "lfs.hash" /\ v.ok = w.ok /\ v.warned = w.warned /\ v.lfs = w.lfs
        /\ v.bundle = w.bundle /\ v.asset = w.asset /\ v.inode = "none"
    BY <2>0 DEF Work, Stages
  <2>2. \A q \in Who : u[q] \in Work /\ OnlyInode(u[q], work[q][r])
    BY <2>0, InodeLost DEF Work, Unlinked, Replaced
  <2>3. u \in [Who -> Work]
    BY <2>2
  <2>5. work' = [q \in Who |-> [work[q] EXCEPT ![r] =
           IF q = p THEN [work[q][r] EXCEPT !.at = "lfs.hash", !.inode = "none"]
           ELSE [work[q][r] EXCEPT !.inode = Replaced(work[q][r].inode)]]]
    BY DEF ArchiveRename
  <2>7. work' = [q \in Who |-> work'[q]]
    BY <2>5
  <2>8. \A q \in Who : work'[q] = [work[q] EXCEPT ![r] = IF q = p THEN v ELSE u[q]]
    BY <2>5
  <2> HIDE DEF u, v
  <2>6. Becomes(p, r, v.at, v.ok, v.warned, v.lfs, v.bundle, v.asset, v.inode)
    BY <1>2, <2>1, <2>2, <2>3, <2>7, <2>8, Taking DEF Known
  <2> QED
    BY <2>1, <2>6
<1>4. /\ files' \in DiskType /\ UNCHANGED <<sums, mirror, withdrawn>>
      /\ files'[r]["lfs"] = files[r]["lfs.tmp"]
      /\ \A g \in Names : g \notin {"lfs", "lfs.tmp"} => files'[r][g] = files[r][g]
      /\ \A t \in Repos : t # r => files'[t] = files[t]
  <2>1. files' = [files EXCEPT ![r]["lfs"] = files[r]["lfs.tmp"], ![r]["lfs.tmp"] = None]
    BY DEF ArchiveRename
  <2>2. UNCHANGED <<sums, mirror, withdrawn>>
    BY DEF ArchiveRename
  <2>3. "lfs" \in Names /\ "lfs.tmp" \in Names /\ "lfs" # "lfs.tmp"
    BY DEF Names, Pieces
  <2> QED
    BY <1>2, <2>1, <2>2, <2>3, Packed DEF Known, DiskType
<1>5. Confined(p, r)
  BY <1>1, <1>2, <1>3, <1>4 DEF ArchiveRename, Confined, Becomes, Known, Later, manifestVars, history
<1>6. InScope(p, r)' /\ SumsInScope(r)'
  BY <1>1, <1>2, <1>3, <1>4 DEF ArchiveRename, Known, InScope, SumsInScope, Offered, Becomes, Summed
<1>7. Alone(p) => Archived(p, r)'
  BY <1>1, <1>2, <1>3, <1>4 DEF Known, Archived, At, Becomes, Later, Names, Pieces
<1>8. p = "run" /\ ~disturbed' /\ ~silent' /\ Clean(work[p][r])' => Saving(r)'
  <2> SUFFICES ASSUME p = "run", ~disturbed', ~silent', Clean(work[p][r])' PROVE Saving(r)'
    OBVIOUS
  <2>1. Saving(r)
    BY <1>2, <1>3 DEF ArchiveRename, Known, Clean, Becomes, history
  <2> QED
    BY <1>1, <1>3, <1>4, <2>1 DEF Saving, Settled, Matches, SidecarMatches, Becomes,
       PastPackage, PastArtifact, Names, Pieces, Summed
<1> QED
  BY <1>5, <1>6, <1>7, <1>8 DEF Local

LEMMA ArchiveHashLocal ==
  ASSUME BackupInv, NEW p \in Who, NEW r \in Repos, ArchiveHash(p, r)
  PROVE  Local(p, r)
<1> DEFINE w == work[p][r]
<1>1. ~Free(p, r) /\ w.at = "lfs.hash"
  BY DEF ArchiveHash, At, Free
<1>2. Known(p, r)
  BY <1>1, Begins
<1>3. Becomes(p, r, After(1), w.ok, w.warned, files[r]["lfs"], w.bundle, w.asset, w.inode) /\ After(1) \in Later
  <2> DEFINE v == [w EXCEPT !.at = After(1), !.lfs = files[r]["lfs"]]
  <2>1. After(1) \in Later /\ After(1) \in Stages
    BY AfterIn
  <2>2. w \in Work /\ work[p] \in [Repos -> Work] /\ files[r]["lfs"] \in Contents
    BY <1>2 DEF Known, WorkType, DiskType, Names, Pieces
  <2>3. /\ v \in Work /\ v.at = After(1) /\ v.ok = w.ok /\ v.warned = w.warned /\ v.lfs = files[r]["lfs"]
        /\ v.bundle = w.bundle /\ v.asset = w.asset /\ v.inode = w.inode
    BY <2>1, <2>2 DEF Work
  <2>4. work' = [work EXCEPT ![p][r] = v]
    BY <1>2, <2>2 DEF ArchiveHash, Known, WorkType
  <2> HIDE DEF v
  <2>5. Becomes(p, r, v.at, v.ok, v.warned, v.lfs, v.bundle, v.asset, v.inode)
    BY <1>2, <2>3, <2>4, Setting DEF Known
  <2> QED
    BY <2>1, <2>3, <2>5
<1>4. UNCHANGED <<files, sums, mirror, withdrawn>>
  BY DEF ArchiveHash
<1>5. Confined(p, r)
  BY <1>1, <1>2, <1>3, <1>4 DEF ArchiveHash, Confined, Becomes, Known, Later, manifestVars, history
<1>6. InScope(p, r)' /\ SumsInScope(r)'
  BY <1>1, <1>2, <1>3, <1>4, AfterStages
     DEF ArchiveHash, Known, InScope, SumsInScope, Offered, Becomes, Later, Summed
<1>7. Alone(p) => Archived(p, r)'
  BY <1>1, <1>2, <1>3, AfterStages DEF Known, Archived, At, Becomes, Later
<1>8. p = "run" /\ ~disturbed' /\ ~silent' /\ Clean(work[p][r])' => Saving(r)'
  <2> SUFFICES ASSUME p = "run", ~disturbed', ~silent', Clean(work[p][r])' PROVE Saving(r)'
    OBVIOUS
  <2>1. Saving(r)
    BY <1>2, <1>3 DEF ArchiveHash, Known, Clean, Becomes, history
  <2>2. \A f \in {"package", "artifact"} : f \notin config.pieces => SidecarMatches(r, f)'
    BY <1>5, <1>6 DEF Confined, SumsInScope, SidecarMatches, Offered
  <2> QED
    BY <1>1, <1>3, <1>4, <2>1, <2>2, AfterStages DEF Saving, Settled, Matches, SidecarMatches, Becomes,
       Later, AfterPackage, AfterArtifact, PastPackage, PastArtifact, Names, Pieces, Summed
<1> QED
  BY <1>5, <1>6, <1>7, <1>8 DEF Local

LEMMA AssetIndexLocal ==
  ASSUME BackupInv, NEW p \in Who, NEW r \in Repos, AssetIndex(p, r)
  PROVE  Local(p, r)
<1> DEFINE w == work[p][r]
<1>1. ~Free(p, r) /\ w.at = "asset.index"
  BY DEF AssetIndex, At, Free
<1>2. Known(p, r)
  BY <1>1, Begins
<1>3. Becomes(p, r, After(2), w.ok, w.warned, w.lfs, w.bundle, TRUE, w.inode) /\ After(2) \in Later
  <2> DEFINE v == [w EXCEPT !.at = After(2), !.asset = TRUE]
  <2>1. After(2) \in Later /\ After(2) \in Stages
    BY AfterIn
  <2>2. w \in Work /\ work[p] \in [Repos -> Work]
    BY <1>2 DEF Known, WorkType
  <2>3. /\ v \in Work /\ v.at = After(2) /\ v.ok = w.ok /\ v.warned = w.warned /\ v.lfs = w.lfs
        /\ v.bundle = w.bundle /\ v.inode = w.inode
    BY <2>1, <2>2 DEF Work
  <2>4. v.asset = TRUE
    BY <2>2 DEF Work
  <2>5. work' = [work EXCEPT ![p][r] = v]
    BY <1>2, <2>2 DEF AssetIndex, Known, WorkType
  <2> HIDE DEF v
  <2>6. Becomes(p, r, v.at, v.ok, v.warned, v.lfs, v.bundle, v.asset, v.inode)
    BY <1>2, <2>3, <2>5, Setting DEF Known
  <2> QED
    BY <2>1, <2>3, <2>4, <2>6, Zenon
<1>4. /\ sums' \in SumsType /\ UNCHANGED <<files, mirror, withdrawn>> /\ sums'[r].asset = files[r].asset
      /\ \A g \in Summed : g # "asset" => sums'[r][g] = sums[r][g]
      /\ \A t \in Repos : t # r => sums'[t] = sums[t]
  <2>1. files[r].asset \in Contents
    BY <1>2 DEF Known, DiskType, Names, Pieces
  <2> QED
    BY <1>2, <2>1, Summing DEF AssetIndex, Known, Summed
<1>5. Confined(p, r)
  BY <1>1, <1>2, <1>3, <1>4 DEF AssetIndex, Confined, Becomes, Known, Later, manifestVars, history
<1>6. InScope(p, r)' /\ SumsInScope(r)'
  BY <1>1, <1>2, <1>3, <1>4, AfterStages
     DEF AssetIndex, Known, InScope, SumsInScope, Offered, Becomes, Later, Summed
<1>7. Alone(p) => Archived(p, r)'
  BY <1>1, <1>2, <1>3, <1>4 DEF Known, Archived, At, Becomes, Later, Names, Pieces
<1>8. p = "run" /\ ~disturbed' /\ ~silent' /\ Clean(work[p][r])' => Saving(r)'
  <2> SUFFICES ASSUME p = "run", ~disturbed', ~silent', Clean(work[p][r])' PROVE Saving(r)'
    OBVIOUS
  <2>1. Saving(r)
    BY <1>2, <1>3 DEF AssetIndex, Known, Clean, Becomes, history
  <2>2. \A f \in {"package", "artifact"} : f \notin config.pieces => SidecarMatches(r, f)'
    BY <1>5, <1>6 DEF Confined, SumsInScope, SidecarMatches, Offered
  <2> QED
    BY <1>1, <1>3, <1>4, <2>1, <2>2, AfterStages DEF Saving, Settled, Matches, SidecarMatches, Becomes,
       Later, AfterPackage, AfterArtifact, PastPackage, PastArtifact, Names, Pieces, Summed
<1> QED
  BY <1>5, <1>6, <1>7, <1>8 DEF Local

\* The two things that can become of an artifact.
ArtifactKept(p, r) ==
  ("artifact" \in withdrawn[r] \/ Reusable(r)) /\ Goes(p, r, After(4)) /\ UNCHANGED files
ArtifactFetched(p, r) == Put(r, "artifact", <<1, 1>>) /\ Goes(p, r, "artifact.sum")

LEMMA ArtifactBranches ==
  ASSUME NEW p, NEW r, Artifact(p, r)
  PROVE  ArtifactKept(p, r) \/ ArtifactFetched(p, r)
BY DEF Artifact, ArtifactKept, ArtifactFetched

LEMMA ArtifactKeptLocal ==
  ASSUME BackupInv, NEW p \in Who, NEW r \in Repos, Artifact(p, r), ArtifactKept(p, r)
  PROVE  Local(p, r)
<1> DEFINE w == work[p][r]
<1>1. ~Free(p, r) /\ w.at = "artifact"
  BY DEF Artifact, At, Free
<1>2. Known(p, r)
  BY <1>1, Begins
<1>3. Becomes(p, r, After(4), w.ok, w.warned, w.lfs, w.bundle, w.asset, w.inode) /\ After(4) \in Later
  BY <1>2, Moving, AfterIn DEF ArtifactKept, Known
<1>4. UNCHANGED <<files, sums, mirror, withdrawn>>
  BY DEF Artifact, ArtifactKept
<1>5. Confined(p, r)
  BY <1>1, <1>2, <1>3, <1>4 DEF Artifact, Confined, Becomes, Known, Later, manifestVars, history
<1>6. InScope(p, r)' /\ SumsInScope(r)'
  BY <1>1, <1>2, <1>3, <1>4, AfterStages
     DEF Artifact, Known, InScope, SumsInScope, Offered, Becomes, Later, Summed
<1>7. Alone(p) => Archived(p, r)'
  BY <1>1, <1>2, <1>3, <1>4 DEF Known, Archived, At, Becomes, Later, Names, Pieces
<1>8. p = "run" /\ ~disturbed' /\ ~silent' /\ Clean(work[p][r])' => Saving(r)'
  <2> SUFFICES ASSUME p = "run", ~disturbed', ~silent', Clean(work[p][r])' PROVE Saving(r)'
    OBVIOUS
  <2>1. Saving(r)
    BY <1>2, <1>3 DEF Artifact, Known, Clean, Becomes, history
  <2>2. \A f \in {"package", "artifact"} : f \notin config.pieces => SidecarMatches(r, f)'
    BY <1>5, <1>6 DEF Confined, SumsInScope, SidecarMatches, Offered
  <2> QED
    BY <1>1, <1>3, <1>4, <2>1, <2>2, AfterStages DEF Saving, Settled, Matches, SidecarMatches, Becomes,
       Later, AfterPackage, AfterArtifact, PastPackage, PastArtifact, Names, Pieces, Summed, ArtifactKept, Reusable
<1> QED
  BY <1>5, <1>6, <1>7, <1>8 DEF Local

LEMMA ArtifactFetchedLocal ==
  ASSUME BackupInv, NEW p \in Who, NEW r \in Repos, Artifact(p, r), ArtifactFetched(p, r)
  PROVE  Local(p, r)
<1> DEFINE w == work[p][r]
<1>1. ~Free(p, r) /\ w.at = "artifact"
  BY DEF Artifact, At, Free
<1>2. Known(p, r)
  BY <1>1, Begins
<1>3. Becomes(p, r, "artifact.sum", w.ok, w.warned, w.lfs, w.bundle, w.asset, w.inode)
  BY <1>2, Moving DEF ArtifactFetched, Known, Stages
<1>4. /\ files' \in DiskType /\ UNCHANGED <<sums, mirror, withdrawn>>
      /\ \A g \in Names : g # "artifact" => files'[r][g] = files[r][g]
      /\ \A t \in Repos : t # r => files'[t] = files[t]
  <2>1. <<1, 1>> \in Contents
    BY Packed
  <2> QED
    BY <1>2, <2>1, Putting DEF Artifact, ArtifactFetched, Known, Names, Pieces
<1>5. Confined(p, r)
  BY <1>1, <1>2, <1>3, <1>4 DEF Artifact, Confined, Becomes, Known, Later, manifestVars, history
<1>6. InScope(p, r)' /\ SumsInScope(r)'
  BY <1>1, <1>2, <1>3, <1>4 DEF Artifact, Known, InScope, SumsInScope, Offered, Becomes, Summed
<1>7. Alone(p) => Archived(p, r)'
  BY <1>1, <1>2, <1>3, <1>4 DEF Known, Archived, At, Becomes, Later, Names, Pieces
<1>8. p = "run" /\ ~disturbed' /\ ~silent' /\ Clean(work[p][r])' => Saving(r)'
  <2> SUFFICES ASSUME p = "run", ~disturbed', ~silent', Clean(work[p][r])' PROVE Saving(r)'
    OBVIOUS
  <2>1. Saving(r)
    BY <1>2, <1>3 DEF Artifact, Known, Clean, Becomes, history
  <2> QED
    BY <1>1, <1>3, <1>4, <2>1 DEF Saving, Settled, Matches, SidecarMatches, Becomes,
       PastPackage, PastArtifact, Names, Pieces, Summed
<1> QED
  BY <1>5, <1>6, <1>7, <1>8 DEF Local

LEMMA ArtifactFailsLocal ==
  ASSUME BackupInv, NEW p \in Who, NEW r \in Repos, ArtifactFails(p, r)
  PROVE  Local(p, r)
<1> DEFINE w == work[p][r]
<1>1. ~Free(p, r) /\ w.at = "artifact"
  BY DEF ArtifactFails, At, Free
<1>2. Known(p, r)
  BY <1>1, Begins
<1>3. Becomes(p, r, After(4), w.ok, TRUE, w.lfs, w.bundle, w.asset, w.inode) /\ After(4) \in Later
  BY <1>2, Moving, AfterIn DEF ArtifactFails, Known
<1>4. UNCHANGED <<files, sums, mirror, withdrawn>>
  BY DEF ArtifactFails
<1>5. Confined(p, r)
  BY <1>1, <1>2, <1>3, <1>4 DEF ArtifactFails, Confined, Becomes, Known, Later, manifestVars, history
<1>6. InScope(p, r)' /\ SumsInScope(r)'
  BY <1>1, <1>2, <1>3, <1>4, AfterStages
     DEF ArtifactFails, Known, InScope, SumsInScope, Offered, Becomes, Later, Summed
<1>7. Alone(p) => Archived(p, r)'
  BY <1>1, <1>2, <1>3, <1>4 DEF Known, Archived, At, Becomes, Later, Names, Pieces
<1>8. ~Clean(work[p][r])'
  BY <1>3 DEF Becomes, Clean
<1> QED
  BY <1>5, <1>6, <1>7, <1>8 DEF Local

LEMMA PackageSkippedLocal ==
  ASSUME BackupInv, NEW p \in Who, NEW r \in Repos, PackageSkipped(p, r)
  PROVE  Local(p, r)
<1> DEFINE w == work[p][r]
<1>1. ~Free(p, r) /\ w.at = "package"
  BY DEF PackageSkipped, At, Free
<1>2. Known(p, r)
  BY <1>1, Begins
<1>3. Becomes(p, r, After(3), w.ok, w.warned, w.lfs, w.bundle, w.asset, w.inode) /\ After(3) \in Later
  BY <1>2, Moving, AfterIn DEF PackageSkipped, Known
<1>4. UNCHANGED <<files, sums, mirror, withdrawn>>
  BY DEF PackageSkipped
<1>5. Confined(p, r)
  BY <1>1, <1>2, <1>3, <1>4 DEF PackageSkipped, Confined, Becomes, Known, Later, manifestVars, history
<1>6. InScope(p, r)' /\ SumsInScope(r)'
  BY <1>1, <1>2, <1>3, <1>4, AfterStages
     DEF PackageSkipped, Known, InScope, SumsInScope, Offered, Becomes, Later, Summed
<1>7. Alone(p) => Archived(p, r)'
  BY <1>2, <1>3, <1>4, AfterStages DEF Known, Archived, At, Becomes, Later
<1>8. p = "run" /\ ~disturbed' /\ ~silent' /\ Clean(work[p][r])' => Saving(r)'
  <2> SUFFICES ASSUME p = "run", ~disturbed', ~silent', Clean(work[p][r])' PROVE Saving(r)'
    OBVIOUS
  <2>1. Saving(r)
    BY <1>2, <1>3 DEF PackageSkipped, Known, Clean, Becomes, history
  <2>2. \A f \in {"package", "artifact"} : f \notin config.pieces => SidecarMatches(r, f)'
    BY <1>5, <1>6 DEF Confined, SumsInScope, SidecarMatches, Offered
  <2> QED
    BY <1>1, <1>3, <1>4, <2>1, <2>2, AfterStages DEF PackageSkipped, Saving, Settled, Matches,
       SidecarMatches, Becomes,
       Later, AfterPackage, AfterArtifact, PastPackage, PastArtifact, Names, Pieces, Summed
<1> QED
  BY <1>5, <1>6, <1>7, <1>8 DEF Local

\* A digest whose write is lost is one of two.
LEMMA Losing ==
  ASSUME sums \in SumsType, NEW r \in Repos, NEW f \in Summed, WriteLost(r, f)
  PROVE  /\ sums' \in SumsType
         /\ \A g \in Summed : g # f => sums'[r][g] = sums[r][g]
         /\ \A t \in Repos : t # r => sums'[t] = sums[t]
<1>1. NoDigest \in Contents /\ sums[r][f] \in Contents
  BY DEF Contents, NoDigest, SumsType, Summed
<1>2. PICK d \in {sums[r][f], NoDigest} : sums' = [sums EXCEPT ![r][f] = d]
  BY DEF WriteLost
<1> QED
  BY <1>1, <1>2, Summing DEF SumsType, Summed

LEMMA PackageSumLostLocal ==
  ASSUME BackupInv, NEW p \in Who, NEW r \in Repos, PackageSumLost(p, r)
  PROVE  Local(p, r)
<1> DEFINE w == work[p][r]
<1>1. ~Free(p, r) /\ w.at \in {"package.sum", "package.fetched"}
  BY DEF PackageSumLost, At, Free
<1>2. Known(p, r)
  BY <1>1, Begins
<1>3. Becomes(p, r, After(3), w.ok, w.warned, w.lfs, w.bundle, w.asset, w.inode)
      /\ After(3) \in Later
  BY <1>2, Moving, AfterIn DEF PackageSumLost, Known
<1>4. /\ sums' \in SumsType /\ UNCHANGED <<files, mirror>>
      /\ \A g \in Summed : g # "package" => sums'[r][g] = sums[r][g]
      /\ \A t \in Repos : t # r => sums'[t] = sums[t]
  BY <1>2, Losing DEF PackageSumLost, Known, Summed
<1>5. Confined(p, r)
  BY <1>1, <1>2, <1>3, <1>4 DEF PackageSumLost, WriteLost, Confined, Becomes, Known, Later, manifestVars
<1>6. InScope(p, r)' /\ SumsInScope(r)'
  BY <1>1, <1>2, <1>3, <1>4, AfterStages
     DEF PackageSumLost, Known, InScope, SumsInScope, Becomes, Later, Summed, Offered
<1>7. Alone(p) => Archived(p, r)'
  BY <1>1, <1>2, <1>3, <1>4 DEF Known, Archived, At, Becomes, Later, Names, Pieces
<1>8. silent' = TRUE
  BY DEF PackageSumLost, WriteLost
<1> QED
  BY <1>5, <1>6, <1>7, <1>8 DEF Local

LEMMA ArtifactSumLostLocal ==
  ASSUME BackupInv, NEW p \in Who, NEW r \in Repos, ArtifactSumLost(p, r)
  PROVE  Local(p, r)
<1> DEFINE w == work[p][r]
<1>1. ~Free(p, r) /\ w.at = "artifact.sum"
  BY DEF ArtifactSumLost, At, Free
<1>2. Known(p, r)
  BY <1>1, Begins
<1>3. Becomes(p, r, After(4), w.ok, w.warned, w.lfs, w.bundle, w.asset, w.inode)
      /\ After(4) \in Later
  BY <1>2, Moving, AfterIn DEF ArtifactSumLost, Known
<1>4. /\ sums' \in SumsType /\ UNCHANGED <<files, mirror>>
      /\ \A g \in Summed : g # "artifact" => sums'[r][g] = sums[r][g]
      /\ \A t \in Repos : t # r => sums'[t] = sums[t]
  BY <1>2, Losing DEF ArtifactSumLost, Known, Summed
<1>5. Confined(p, r)
  BY <1>1, <1>2, <1>3, <1>4 DEF ArtifactSumLost, WriteLost, Confined, Becomes, Known, Later, manifestVars
<1>6. InScope(p, r)' /\ SumsInScope(r)'
  BY <1>1, <1>2, <1>3, <1>4, AfterStages
     DEF ArtifactSumLost, Known, InScope, SumsInScope, Becomes, Later, Summed, Offered
<1>7. Alone(p) => Archived(p, r)'
  BY <1>1, <1>2, <1>3, <1>4 DEF Known, Archived, At, Becomes, Later, Names, Pieces
<1>8. silent' = TRUE
  BY DEF ArtifactSumLost, WriteLost
<1> QED
  BY <1>5, <1>6, <1>7, <1>8 DEF Local

LEMMA AssetIndexLostLocal ==
  ASSUME BackupInv, NEW p \in Who, NEW r \in Repos, AssetIndexLost(p, r)
  PROVE  Local(p, r)
<1> DEFINE w == work[p][r]
<1>1. ~Free(p, r) /\ w.at = "asset.index"
  BY DEF AssetIndexLost, At, Free
<1>2. Known(p, r)
  BY <1>1, Begins
<1>3. Becomes(p, r, After(2), w.ok, w.warned, w.lfs, w.bundle, TRUE, w.inode)
      /\ After(2) \in Later
  <2> DEFINE v == [w EXCEPT !.at = After(2), !.asset = TRUE]
  <2>1. After(2) \in Later /\ After(2) \in Stages
    BY AfterIn
  <2>2. w \in Work /\ work[p] \in [Repos -> Work]
    BY <1>2 DEF Known, WorkType
  <2>3. /\ v \in Work /\ v.at = After(2) /\ v.ok = w.ok /\ v.warned = w.warned /\ v.lfs = w.lfs
        /\ v.bundle = w.bundle /\ v.inode = w.inode
    BY <2>1, <2>2 DEF Work
  <2>4. v.asset = TRUE
    BY <2>2 DEF Work
  <2>5. work' = [work EXCEPT ![p][r] = v]
    BY <1>2, <2>2 DEF AssetIndexLost, Known, WorkType
  <2> HIDE DEF v
  <2>6. Becomes(p, r, v.at, v.ok, v.warned, v.lfs, v.bundle, v.asset, v.inode)
    BY <1>2, <2>3, <2>5, Setting DEF Known
  <2> QED
    BY <2>1, <2>3, <2>4, <2>6, Zenon
<1>4. /\ sums' \in SumsType /\ UNCHANGED <<files, mirror>>
      /\ \A g \in Summed : g # "asset" => sums'[r][g] = sums[r][g]
      /\ \A t \in Repos : t # r => sums'[t] = sums[t]
  BY <1>2, Losing DEF AssetIndexLost, Known, Summed
<1>5. Confined(p, r)
  BY <1>1, <1>2, <1>3, <1>4 DEF AssetIndexLost, WriteLost, Confined, Becomes, Known, Later, manifestVars
<1>6. InScope(p, r)' /\ SumsInScope(r)'
  BY <1>1, <1>2, <1>3, <1>4, AfterStages
     DEF AssetIndexLost, Known, InScope, SumsInScope, Becomes, Later, Summed, Offered
<1>7. Alone(p) => Archived(p, r)'
  BY <1>1, <1>2, <1>3, <1>4 DEF Known, Archived, At, Becomes, Later, Names, Pieces
<1>8. silent' = TRUE
  BY DEF AssetIndexLost, WriteLost
<1> QED
  BY <1>5, <1>6, <1>7, <1>8 DEF Local

LEMMA BundleRenameLocal ==
  ASSUME BackupInv, NEW p \in Who, NEW r \in Repos, BundleRename(p, r), files[r]["bundle.tmp"] # None
  PROVE  Local(p, r)
<1> DEFINE w == work[p][r]
<1>1. ~Free(p, r) /\ w.at = "bundle.rename"
  BY DEF BundleRename, At, Free
<1>2. Known(p, r)
  BY <1>1, Begins
<1>3. Becomes(p, r, "bundle.hash", w.ok, w.warned, w.lfs, w.bundle, w.asset, w.inode)
  BY <1>2, Moving DEF BundleRename, Known, Stages
<1>4. /\ files' \in DiskType /\ UNCHANGED <<sums, mirror, withdrawn>>
      /\ files'[r]["bundle"] = files[r]["bundle.tmp"]
      /\ \A g \in Names : g \notin {"bundle", "bundle.tmp"} => files'[r][g] = files[r][g]
      /\ \A t \in Repos : t # r => files'[t] = files[t]
  <2>1. files' = [files EXCEPT ![r]["bundle"] = files[r]["bundle.tmp"], ![r]["bundle.tmp"] = None]
    BY DEF BundleRename
  <2>2. UNCHANGED <<sums, mirror, withdrawn>>
    BY DEF BundleRename
  <2>3. "bundle" \in Names /\ "bundle.tmp" \in Names /\ "bundle" # "bundle.tmp"
    BY DEF Names, Pieces
  <2> QED
    BY <1>2, <2>1, <2>2, <2>3, Packed DEF Known, DiskType
<1>5. Confined(p, r)
  BY <1>1, <1>2, <1>3, <1>4 DEF BundleRename, Confined, Becomes, Known, Later, manifestVars, history
<1>6. InScope(p, r)' /\ SumsInScope(r)'
  BY <1>1, <1>2, <1>3, <1>4 DEF BundleRename, Known, InScope, SumsInScope, Offered, Becomes, Summed
<1>7. Alone(p) => Archived(p, r)'
  BY <1>1, <1>2, <1>3, <1>4 DEF Known, Archived, At, Becomes, Later, Names, Pieces
<1>8. p = "run" /\ ~disturbed' /\ ~silent' /\ Clean(work[p][r])' => Saving(r)'
  <2> SUFFICES ASSUME p = "run", ~disturbed', ~silent', Clean(work[p][r])' PROVE Saving(r)'
    OBVIOUS
  <2>1. Saving(r)
    BY <1>2, <1>3 DEF BundleRename, Known, Clean, Becomes, history
  <2> QED
    BY <1>1, <1>3, <1>4, <2>1 DEF Saving, Settled, Matches, SidecarMatches, Becomes,
       PastPackage, PastArtifact, Names, Pieces, Summed
<1> QED
  BY <1>5, <1>6, <1>7, <1>8 DEF Local

LEMMA BundleHashLocal ==
  ASSUME BackupInv, NEW p \in Who, NEW r \in Repos, BundleHash(p, r)
  PROVE  Local(p, r)
<1> DEFINE w == work[p][r]
<1>1. ~Free(p, r) /\ w.at = "bundle.hash"
  BY DEF BundleHash, At, Free
<1>2. Known(p, r)
  BY <1>1, Begins
<1>3. Becomes(p, r, "check", w.ok, w.warned, w.lfs, files[r].bundle, w.asset, w.inode)
  <2> DEFINE v == [w EXCEPT !.at = "check", !.bundle = files[r].bundle]
  <2>1. w \in Work /\ work[p] \in [Repos -> Work] /\ files[r].bundle \in Contents
    BY <1>2 DEF Known, WorkType, DiskType, Names, Pieces
  <2>2. /\ v \in Work /\ v.at = "check" /\ v.ok = w.ok /\ v.warned = w.warned /\ v.lfs = w.lfs
        /\ v.bundle = files[r].bundle /\ v.asset = w.asset /\ v.inode = w.inode
    BY <2>1 DEF Work, Stages
  <2>3. work' = [work EXCEPT ![p][r] = v]
    BY <1>2, <2>1 DEF BundleHash, Known, WorkType
  <2> HIDE DEF v
  <2>4. Becomes(p, r, v.at, v.ok, v.warned, v.lfs, v.bundle, v.asset, v.inode)
    BY <1>2, <2>2, <2>3, Setting DEF Known
  <2> QED
    BY <2>2, <2>4
<1>4. UNCHANGED <<files, sums, mirror, withdrawn>>
  BY DEF BundleHash
<1>5. Confined(p, r)
  BY <1>1, <1>2, <1>3, <1>4 DEF BundleHash, Confined, Becomes, Known, Later, manifestVars, history
<1>6. InScope(p, r)' /\ SumsInScope(r)'
  BY <1>1, <1>2, <1>3, <1>4 DEF BundleHash, Known, InScope, SumsInScope, Offered, Becomes, Summed
<1>7. Alone(p) => Archived(p, r)'
  BY <1>1, <1>2, <1>3, <1>4 DEF Known, Archived, At, Becomes, Later, Names, Pieces
<1>8. p = "run" /\ ~disturbed' /\ ~silent' /\ Clean(work[p][r])' => Saving(r)'
  <2> SUFFICES ASSUME p = "run", ~disturbed', ~silent', Clean(work[p][r])' PROVE Saving(r)'
    OBVIOUS
  <2>1. Saving(r)
    BY <1>2, <1>3 DEF BundleHash, Known, Clean, Becomes, history
  <2> QED
    BY <1>1, <1>3, <1>4, <2>1 DEF Saving, Settled, Matches, SidecarMatches, Becomes,
       PastPackage, PastArtifact, Names, Pieces, Summed
<1> QED
  BY <1>5, <1>6, <1>7, <1>8 DEF Local

LEMMA CheckLocal ==
  ASSUME BackupInv, NEW p \in Who, NEW r \in Repos, Check(p, r),
         ~(work[p][r].bundle # None /\ files[r].bundle = Torn)
  PROVE  Local(p, r)
<1> DEFINE w == work[p][r]
<1>1. ~Free(p, r) /\ w.at = "check"
  BY DEF Check, At, Free
<1>2. Known(p, r)
  BY <1>1, Begins
<1>3. Becomes(p, r, "done", w.ok, w.warned, w.lfs, w.bundle, w.asset, w.inode)
  BY <1>2, Moving DEF Check, Known, Stages
<1>4. UNCHANGED <<files, sums, mirror, withdrawn>>
  BY DEF Check
<1>5. Confined(p, r)
  BY <1>1, <1>2, <1>3, <1>4 DEF Check, Confined, Becomes, Known, Later, manifestVars, history
<1>6. InScope(p, r)' /\ SumsInScope(r)'
  BY <1>1, <1>2, <1>3, <1>4 DEF Check, Known, InScope, SumsInScope, Offered, Becomes, Summed
<1>7. Alone(p) => Archived(p, r)'
  BY <1>1, <1>2, <1>3, <1>4 DEF Known, Archived, At, Becomes, Later, Names, Pieces
<1>8. p = "run" /\ ~disturbed' /\ ~silent' /\ Clean(work[p][r])' => Saving(r)'
  <2> SUFFICES ASSUME p = "run", ~disturbed', ~silent', Clean(work[p][r])' PROVE Saving(r)'
    OBVIOUS
  <2>1. Saving(r)
    BY <1>2, <1>3 DEF Check, Known, Clean, Becomes, history
  <2> QED
    BY <1>1, <1>3, <1>4, <2>1 DEF Saving, Settled, Matches, SidecarMatches, Becomes,
       PastPackage, PastArtifact, Names, Pieces, Summed
<1> QED
  BY <1>5, <1>6, <1>7, <1>8 DEF Local

\* The 29 steps of backupRepo together.
LEMMA RepoLocal ==
  ASSUME BackupInv, NEW p \in Who, NEW r \in Repos, BackupRepo(p, r) \/ RepoFails(p, r)
  PROVE  Local(p, r)
<1>1. CASE ArchiveRename(p, r) /\ files[r]["lfs.tmp"] = None
  <2>1. ~Free(p, r) /\ Failed(p, r)
        /\ UNCHANGED <<config, withdrawn, upstream, mirror, files, sums, run, manifestVars, report, history>>
    BY <1>1 DEF ArchiveRename, Free, At
  <2> QED
    BY <2>1, FailedLocal
<1>2. CASE BundleRename(p, r) /\ files[r]["bundle.tmp"] = None
  <2>1. ~Free(p, r) /\ Failed(p, r)
        /\ UNCHANGED <<config, withdrawn, upstream, mirror, files, sums, run, manifestVars, report, history>>
    BY <1>2 DEF BundleRename, Free, At
  <2> QED
    BY <2>1, FailedLocal
<1>3. CASE Check(p, r) /\ work[p][r].bundle # None /\ files[r].bundle = Torn
  <2>1. ~Free(p, r) /\ Failed(p, r)
        /\ UNCHANGED <<config, withdrawn, upstream, mirror, files, sums, run, manifestVars, report, history>>
    BY <1>3 DEF Check, Free, At
  <2> QED
    BY <2>1, FailedLocal
<1>4. CASE CommandFails(p, r)
  <2>1. ~Free(p, r) /\ Failed(p, r)
        /\ UNCHANGED <<config, withdrawn, upstream, mirror, files, sums, run, manifestVars, report, history>>
    BY <1>4 DEF CommandFails, Free, At
  <2> QED
    BY <2>1, FailedLocal
<1>5. CASE Artifact(p, r)
  BY <1>5, ArtifactBranches, ArtifactKeptLocal, ArtifactFetchedLocal
<1>6. CASE BackupRepo(p, r)
  BY <1>1, <1>2, <1>3, <1>5, <1>6, SyncLocal, ArchiveStartLocal, ArchiveEndLocal, ArchiveRenameLocal,
     ArchiveHashLocal, AssetLocal, AssetIndexLocal, PackageSkippedLocal, PackageStartLocal, PackageFetchedLocal,
     PackageEndLocal, PackageSumLocal, ArtifactSumLocal, BundleCreateLocal, BundleRenameLocal,
     BundleHashLocal, CheckLocal DEF BackupRepo
<1>7. CASE RepoFails(p, r)
  BY <1>4, <1>7, FetchFailsLocal, AssetFailsLocal, PackageFailsLocal, PackageBreaksLocal,
     PackageTooLargeLocal, PlatformWarnsLocal, ArtifactFailsLocal, AssetIndexLostLocal,
     PackageSumLostLocal, ArtifactSumLostLocal DEF RepoFails
<1> QED
  BY <1>6, <1>7

\* What is in order in one repository stays so in all.
LEMMA RepoInv ==
  ASSUME BackupInv, NEW p \in Who, NEW r \in Repos, Local(p, r)
  PROVE  BackupInv'
<1> USE DEF BackupInv
<1>1. Confined(p, r) /\ work \in WorkType
  BY DEF Local, BackupTypeOK, WorkType
<1>2. ~Free(p, r) /\ disturbed' = disturbed /\ (~silent' => ~silent) /\ silent' \in BOOLEAN
  <2>1. silent \in BOOLEAN
    BY DEF BackupTypeOK
  <2>2. silent' = silent \/ silent' = TRUE
    BY <1>1 DEF Confined
  <2>3. ~Free(p, r) /\ disturbed' = disturbed
    BY <1>1 DEF Confined
  <2> QED
    BY <2>1, <2>2, <2>3, Zenon
<1>3. BackupTypeOK'
  BY <1>1, <1>2 DEF BackupTypeOK, Confined, WorkType, DiskType, SumsType, IsManifest
<1>4. ~disturbed' => p = "run" /\ run.phase = "repos"
  BY <1>2 DEF Apart, Fed, Free, At, Who
<1>5. \A q \in Who, t \in Repos : q # p \/ t # r => OnlyInode(work'[q][t], work[q][t])
  BY <1>1 DEF Confined, OnlyInode
<1>6. \A q \in Who, t \in Repos : q # p \/ t # r => InScope(q, t)'
  <2> SUFFICES ASSUME NEW q \in Who, NEW t \in Repos, q # p \/ t # r PROVE InScope(q, t)'
    OBVIOUS
  <2>1. InScope(q, t) /\ OnlyInode(work'[q][t], work[q][t])
    BY <1>5 DEF Scoped
  <2>2. work'[q][t].at = "idle" => work'[q][t] = Idle
    <3> SUFFICES ASSUME work'[q][t].at = "idle" PROVE work'[q][t] = Idle
      OBVIOUS
    <3>1. work[q][t] = Idle /\ work'[q][t] \in Work
      BY <1>1, <2>1 DEF InScope, OnlyInode, Confined, WorkType
    <3>2. work[q][t].inode = "none"
      BY <3>1 DEF Idle
    <3>3. work'[q][t].inode = "none"
      BY <2>1, <3>2 DEF OnlyInode
    <3> QED
      BY <2>1, <3>1, <3>2, <3>3, IdleTyped DEF OnlyInode, Work
  <2> QED
    BY <1>1, <2>1, <2>2 DEF InScope, OnlyInode, Confined
<1>7. \A t \in Repos : SumsInScope(t)'
  BY <1>1 DEF Local, Confined, Scoped, SumsInScope
<1>8. Scoped'
  BY <1>6, <1>7 DEF Scoped, Local
<1>9. Apart'
  BY <1>1, <1>2, <1>5 DEF Apart, Free, Confined, OnlyInode, Who
<1>10. Archives'
  <2> SUFFICES ASSUME NEW q \in Who, NEW t \in Repos, Alone(q)' PROVE Archived(q, t)'
    BY DEF Archives
  <2>1. Alone(q)
    BY <1>1, <1>2 DEF Alone, Confined
  <2>2. CASE q = p /\ t = r
    BY <2>1, <2>2 DEF Local
  <2>3. CASE t # r
    BY <1>1, <2>1, <2>3 DEF Archives, Archived, At, Confined
  <2>4. CASE q # p /\ t = r
    <3>1. Free(q, r)
      BY <1>2, <2>1, <2>4 DEF Alone, Apart, Who
    <3> QED
      BY <1>5, <2>1, <2>4, <3>1 DEF Archives, Archived, At, Free, OnlyInode
  <2> QED
    BY <2>2, <2>3, <2>4
<1>11. Saved'
  <2> SUFFICES ASSUME ~disturbed', ~silent', run'.phase = "repos", NEW t \in Repos,
                      ~At("run", t, "idle")', Clean(work["run"][t])'
               PROVE  Saving(t)'
    BY DEF Saved
  <2>1. CASE t = r
    BY <1>4, <2>1 DEF Local
  <2>2. CASE t # r
    BY <1>1, <1>2, <1>4, <2>2 DEF Saved, Saving, Settled, Matches, SidecarMatches, Clean, At, Confined, Who
  <2> QED
    BY <2>1, <2>2
<1>12. Fed'
  BY <1>1, <1>2, <1>5 DEF Fed, Free, At, Confined, OnlyInode, Who
<1>13. Written'
  BY <1>1, <1>4 DEF Written, Listed, IsManifest, Confined, Writing, Genuine
<1>14. Reported'
  BY <1>1, <1>4 DEF Reported, Confined, Attested
<1> QED
  BY <1>3, <1>8, <1>9, <1>10, <1>11, <1>12, <1>13, <1>14

-----------------------------------------------------------------------------
(* The job, and what happens to the root from outside                      *)

LEMMA ConfigTyped ==
  ASSUME BackupTypeOK
  PROVE  config.repos \subseteq Repos /\ config.packings \subseteq {1, 2} /\ config.kms \in BOOLEAN
BY BackupAssumption DEF BackupTypeOK

\* An idle record has nothing to say.
LEMMA IdleFields ==
  /\ Idle.at = "idle" /\ Idle.lfs = None /\ Idle.bundle = None /\ Idle.inode = "none"
  /\ ~Idle.asset /\ Idle \in Work
<1>1. Idle \in Work
  BY IdleTyped
<1> QED
  BY <1>1 DEF Idle

LEMMA StartFields ==
  LET v == [Idle EXCEPT !.at = "sync"] IN
  /\ v \in Work /\ v.at = "sync" /\ v.lfs = None /\ v.bundle = None /\ v.inode = "none" /\ ~v.asset
<1> DEFINE v == [Idle EXCEPT !.at = "sync"]
<1>1. Idle \in [at : Stages, ok : BOOLEAN, warned : BOOLEAN, lfs : Contents, bundle : Contents,
                asset : BOOLEAN, inode : {"none", "tmp", "dst"}]
  BY IdleTyped DEF Work
<1>2. /\ v \in Work /\ v.at = "sync" /\ v.lfs = Idle.lfs /\ v.bundle = Idle.bundle
      /\ v.inode = Idle.inode
  BY <1>1 DEF Work, Stages
<1>3. v.asset = Idle.asset
  BY <1>1
<1> QED
  BY <1>2, <1>3, IdleFields

LEMMA PushInv ==
  ASSUME BackupInv, NEW r \in Repos, Push(r)
  PROVE  BackupInv'
<1> USE DEF BackupInv
<1>1. upstream' \in [Repos -> Nat \ {0}]
  BY DEF Push, BackupTypeOK
<1>2. BackupTypeOK'
  BY <1>1 DEF Push, BackupTypeOK, manifestVars, history, IsManifest
<1>3. Scoped' /\ Apart' /\ Archives'
  BY DEF Push, Scoped, InScope, SumsInScope, Apart, Free, Archives, Alone, Archived, At, history
<1>4. Saved' /\ Fed'
  BY DEF Push, Saved, Saving, Settled, Matches, SidecarMatches, Clean, Fed, At, history
<1>5. Written'
  BY DEF Push, Written, Listed, IsManifest, Sound, Settled, Matches, SidecarMatches, Clean, Genuine,
         manifestVars, history
<1>6. Reported'
  BY DEF Push, Reported, Sound, Settled, Matches, SidecarMatches, Genuine, Attested, manifestVars, history
<1> QED
  BY <1>2, <1>3, <1>4, <1>5, <1>6

LEMMA WithdrawInv ==
  ASSUME BackupInv, NEW r \in Repos, NEW f \in Offered, Withdraw(r, f)
  PROVE  BackupInv'
<1> USE DEF BackupInv
<1>1. UNCHANGED <<config, upstream, mirror, files, sums, work, run, latest, sig, attest, dated, report,
                  disturbed, silent, beside>>
  BY DEF Withdraw, rootVars, manifestVars, history
<1>2. withdrawn' \in [Repos -> SUBSET Offered] /\ \A t \in Repos : withdrawn[t] \subseteq withdrawn'[t]
  BY DEF Withdraw, BackupTypeOK
<1>3. BackupTypeOK'
  BY <1>1, <1>2 DEF BackupTypeOK, IsManifest
<1>4. Scoped' /\ Apart' /\ Archives'
  BY <1>1 DEF Scoped, InScope, SumsInScope, Apart, Free, Archives, Alone, Archived, At
<1>5. \A t \in Repos, g \in Offered : Settled(t, g) => Settled(t, g)'
  BY <1>1, <1>2 DEF Settled, SidecarMatches
<1>6. \A t \in Repos : \A e : Sound(t, e) => Sound(t, e)'
  BY <1>1, <1>5 DEF Sound, Matches, Offered
<1>7. Saved' /\ Fed'
  BY <1>1, <1>5 DEF Saved, Saving, Matches, Clean, Fed, At, Offered
<1>8. Written'
  <2>1. config.repos \subseteq Repos
    BY ConfigTyped
  <2> QED
    BY <1>1, <1>6, <2>1 DEF Written, Writing, Listed, IsManifest, Clean, Genuine
<1>9. Reported'
  <2>1. config.repos \subseteq Repos
    BY ConfigTyped
  <2> QED
    BY <1>1, <1>6, <2>1 DEF Reported, Genuine, Attested
<1> QED
  BY <1>3, <1>4, <1>7, <1>8, <1>9

LEMMA JobStartsInv ==
  ASSUME BackupInv, NEW r \in Repos, JobStarts(r)
  PROVE  BackupInv'
<1> USE DEF BackupInv
<1> DEFINE v == [Idle EXCEPT !.at = "sync"]
<1>1. v \in Work /\ v.at = "sync" /\ v.lfs = None
  BY StartFields
<1> HIDE DEF v
<1>2. work' = [work EXCEPT !["job"][r] = v] /\ work \in WorkType /\ "job" \in Who
  BY DEF JobStarts, v, BackupTypeOK, WorkType, Who
<1>3. /\ work' \in WorkType /\ work'["job"][r] = v
      /\ \A q \in Who, t \in Repos : q # "job" \/ t # r => work'[q][t] = work[q][t]
  BY <1>1, <1>2 DEF WorkType
<1>4. disturbed' = TRUE /\ beside' \in BOOLEAN
  BY DEF JobStarts, BackupTypeOK
<1>5. ~beside' => ~beside /\ Free("run", r)
  BY DEF JobStarts, Busy, Free
<1>6. \A t \in Repos : Free("job", t)
  BY DEF JobStarts, Busy, Free
<1>7. BackupTypeOK'
  BY <1>3, <1>4 DEF JobStarts, BackupTypeOK, WorkType, manifestVars, IsManifest
<1>8. Scoped'
  BY <1>1, <1>3 DEF JobStarts, Scoped, InScope, SumsInScope
<1>9. Apart'
  BY <1>3, <1>4, <1>5, <1>6 DEF Apart, Free, Who
<1>10. Archives'
  <2> SUFFICES ASSUME NEW q \in Who, NEW t \in Repos, Alone(q)' PROVE Archived(q, t)'
    BY DEF Archives
  <2>1. Alone(q)
    BY <1>4, <1>5 DEF Alone
  <2>2. CASE q = "job" /\ t = r
    BY <1>1, <1>3, <2>2, Packed DEF Archived, At
  <2>3. CASE q # "job" \/ t # r
    BY <1>3, <2>1, <2>3 DEF JobStarts, Archives, Archived, At
  <2> QED
    BY <2>2, <2>3
<1>11. Saved'
  BY <1>4 DEF Saved
<1>12. Fed'
  BY <1>3 DEF JobStarts, Fed, At, Who
<1>13. Written'
  BY <1>4, <1>5 DEF JobStarts, Written, Listed, IsManifest, Genuine, manifestVars
<1>14. Reported'
  BY <1>4 DEF JobStarts, Reported, Attested, manifestVars
<1> QED
  BY <1>7, <1>8, <1>9, <1>10, <1>11, <1>12, <1>13, <1>14

LEMMA JobEndsInv ==
  ASSUME BackupInv, NEW r \in Repos, JobEnds(r)
  PROVE  BackupInv'
<1> USE DEF BackupInv
<1>1. work' = [work EXCEPT !["job"][r] = Idle] /\ work \in WorkType /\ "job" \in Who
  BY DEF JobEnds, BackupTypeOK, WorkType, Who
<1>2. /\ work' \in WorkType /\ work'["job"][r] = Idle
      /\ \A q \in Who, t \in Repos : q # "job" \/ t # r => work'[q][t] = work[q][t]
  BY <1>1, IdleTyped DEF WorkType
<1>3. UNCHANGED <<config, withdrawn, upstream, mirror, files, sums, run, latest, sig, attest, dated, report,
                  disturbed, silent, beside>>
  BY DEF JobEnds, manifestVars, history
<1>4. BackupTypeOK'
  BY <1>2, <1>3 DEF BackupTypeOK, WorkType, IsManifest
<1>5. Scoped'
  BY <1>2, <1>3, IdleFields DEF Scoped, InScope, SumsInScope
<1>6. Apart'
  BY <1>2, <1>3, IdleFields DEF Apart, Free, Who
<1>7. Archives'
  <2> SUFFICES ASSUME NEW q \in Who, NEW t \in Repos, Alone(q)' PROVE Archived(q, t)'
    BY DEF Archives
  <2>1. Alone(q)
    BY <1>3 DEF Alone
  <2>2. CASE q = "job" /\ t = r
    BY <1>2, <2>2, Packed, IdleFields DEF Archived, At
  <2>3. CASE q # "job" \/ t # r
    BY <1>2, <1>3, <2>1, <2>3 DEF Archives, Archived, At
  <2> QED
    BY <2>2, <2>3
<1>8. Saved' /\ Fed'
  BY <1>2, <1>3 DEF Saved, Saving, Settled, Matches, SidecarMatches, Clean, Fed, At, Who
<1>9. Written'
  BY <1>3 DEF Written, Listed, IsManifest, Sound, Settled, Matches, SidecarMatches, Clean, Genuine
<1>10. Reported'
  BY <1>3 DEF Reported, Sound, Settled, Matches, SidecarMatches, Genuine, Attested
<1> QED
  BY <1>4, <1>5, <1>6, <1>7, <1>8, <1>9, <1>10

LEMMA RotInv ==
  ASSUME BackupInv, NEW r \in Repos, NEW f \in Pieces, Rot(r, f)
  PROVE  BackupInv'
<1> USE DEF BackupInv
<1>1. /\ files' \in DiskType
      /\ \A t \in Repos : t # r => files'[t] = files[t]
  BY Putting, Packed DEF Rot, BackupTypeOK, DiskType, Names
<1>2. UNCHANGED <<config, withdrawn, upstream, mirror, sums, work, run, latest, sig, attest, dated, report,
                  silent, beside>>
  BY DEF Rot, manifestVars
<1>3. disturbed' = TRUE
  BY DEF Rot
<1>4. Free("run", r) /\ Free("job", r)
  BY DEF Rot, Busy, Free
<1>5. BackupTypeOK'
  BY <1>1, <1>2, <1>3 DEF BackupTypeOK, DiskType, IsManifest
<1>6. Scoped' /\ Apart'
  BY <1>2, <1>3 DEF Scoped, InScope, SumsInScope, Apart, Free
<1>7. Archives'
  <2> SUFFICES ASSUME NEW q \in Who, NEW t \in Repos, Alone(q)' PROVE Archived(q, t)'
    BY DEF Archives
  <2>1. Alone(q) /\ Archived(q, t)
    BY <1>2, <1>3 DEF Alone, Archives
  <2>2. t = r => work[q][t].at \in {"idle", "done"}
    BY <1>4 DEF Free, Who
  <2> QED
    BY <1>1, <1>2, <2>1, <2>2 DEF Archived, At
<1>8. Saved'
  BY <1>3 DEF Saved
<1>9. Fed'
  BY <1>2 DEF Fed, At
<1>10. Written'
  BY <1>2, <1>3 DEF Written, Listed, IsManifest, Genuine
<1>11. Reported'
  BY <1>2, <1>3 DEF Reported, Attested
<1> QED
  BY <1>5, <1>6, <1>7, <1>8, <1>9, <1>10, <1>11

LEMMA DiesInv ==
  ASSUME BackupInv, NEW p \in Who, Dies(p)
  PROVE  BackupInv'
<1> USE DEF BackupInv
<1>1. work' = [work EXCEPT ![p] = [r \in Repos |-> Idle]] /\ work \in WorkType
  BY DEF Dies, BackupTypeOK, WorkType
<1>2. /\ work' \in WorkType
      /\ \A t \in Repos : work'[p][t] = Idle
      /\ \A q \in Who, t \in Repos : q # p => work'[q][t] = work[q][t]
  BY <1>1, IdleTyped DEF WorkType
<1>3. UNCHANGED <<config, withdrawn, upstream, mirror, files, sums, latest, sig, attest, dated, report,
                  silent, beside>>
  BY DEF Dies, manifestVars
<1>4. disturbed' = TRUE
  BY DEF Dies
<1>5. /\ run' = [phase |-> run'.phase, cancelled |-> run'.cancelled, left |-> run'.left, man |-> run'.man]
      /\ run'.phase \in Phases /\ run'.left \subseteq config.repos
  BY DEF Dies, NotRunning, BackupTypeOK, Phases
<1>6. run'.cancelled \in BOOLEAN
  BY DEF Dies, NotRunning, BackupTypeOK
<1>7. p = "run" => run'.phase = "idle"
  BY DEF Dies, NotRunning
<1>8. p # "run" => run' = run
  BY DEF Dies
<1>9. BackupTypeOK'
  BY <1>2, <1>3, <1>4, <1>5, <1>6 DEF BackupTypeOK, WorkType, IsManifest
<1>10. Scoped'
  BY <1>2, <1>3, IdleFields DEF Scoped, InScope, SumsInScope
<1>11. Apart'
  BY <1>2, <1>3, <1>4, IdleFields DEF Apart, Free, Who
<1>12. Archives'
  <2> SUFFICES ASSUME NEW q \in Who, NEW t \in Repos, Alone(q)' PROVE Archived(q, t)'
    BY DEF Archives
  <2>1. Alone(q)
    BY <1>3, <1>4 DEF Alone
  <2>2. CASE q = p
    BY <1>2, <2>2, Packed, IdleFields DEF Archived, At
  <2>3. CASE q # p
    BY <1>2, <1>3, <2>1, <2>3 DEF Archives, Archived, At
  <2> QED
    BY <2>2, <2>3
<1>13. Saved'
  BY <1>4 DEF Saved
<1>14. Fed'
  BY <1>2, <1>3, <1>7, <1>8, IdleFields DEF Fed, At, Who
<1>15. Written'
  BY <1>3, <1>4, <1>7, <1>8 DEF Written, Writing, Listed, IsManifest, Genuine
<1>16. Reported'
  BY <1>3, <1>4, <1>7, <1>8 DEF Reported, Attested
<1> QED
  BY <1>9, <1>10, <1>11, <1>12, <1>13, <1>14, <1>15, <1>16

-----------------------------------------------------------------------------
(* The run                                                                 *)

RunBecomes(phase, cancelled, left, man) ==
  /\ run' = [phase |-> run'.phase, cancelled |-> run'.cancelled, left |-> run'.left, man |-> run'.man]
  /\ run'.phase = phase /\ run'.cancelled = cancelled /\ run'.left = left /\ run'.man = man

LEMMA RunMoves ==
  ASSUME BackupTypeOK
  PROVE  /\ \A x : run' = [run EXCEPT !.phase = x] => RunBecomes(x, run.cancelled, run.left, run.man)
         /\ run' = NotRunning => RunBecomes("idle", FALSE, {}, None)
         /\ \A x, m : run' = [run EXCEPT !.phase = x, !.man = m] => RunBecomes(x, run.cancelled, run.left, m)
         /\ \A l : run' = [run EXCEPT !.left = l] => RunBecomes(run.phase, run.cancelled, l, run.man)
         /\ \A x : run' = [NotRunning EXCEPT !.phase = x] => RunBecomes(x, FALSE, {}, None)
<1>1. run = [phase |-> run.phase, cancelled |-> run.cancelled, left |-> run.left, man |-> run.man]
  BY DEF BackupTypeOK
<1>2. \A x : run' = [run EXCEPT !.phase = x] => RunBecomes(x, run.cancelled, run.left, run.man)
  BY <1>1 DEF RunBecomes
<1>3. run' = NotRunning => RunBecomes("idle", FALSE, {}, None)
  BY DEF RunBecomes, NotRunning
<1>4. \A x, m : run' = [run EXCEPT !.phase = x, !.man = m] => RunBecomes(x, run.cancelled, run.left, m)
  BY <1>1 DEF RunBecomes
<1>5. \A l : run' = [run EXCEPT !.left = l] => RunBecomes(run.phase, run.cancelled, l, run.man)
  BY <1>1 DEF RunBecomes
<1>6. \A x : run' = [NotRunning EXCEPT !.phase = x] => RunBecomes(x, FALSE, {}, None)
  BY DEF RunBecomes, NotRunning
<1> QED
  BY <1>2, <1>3, <1>4, <1>5, <1>6

LEMMA RunStartsInv ==
  ASSUME BackupInv, RunStarts
  PROVE  BackupInv'
<1> USE DEF BackupInv
<1>1. /\ run' = [phase |-> run'.phase, cancelled |-> run'.cancelled, left |-> run'.left, man |-> run'.man]
      /\ run'.phase = "repos" /\ run'.left = config.repos
  BY DEF RunStarts, NotRunning
<1>2. run'.cancelled \in BOOLEAN
  BY DEF RunStarts, NotRunning
<1>3. UNCHANGED <<config, withdrawn, upstream, mirror, files, sums, work, latest, sig, attest, dated, beside>>
  BY DEF RunStarts, rootVars, manifestVars
<1>4. disturbed' \in BOOLEAN /\ (~disturbed' => \A r \in Repos : Free("job", r))
  BY DEF RunStarts, Busy, Free
<1>5. \A r \in Repos : work["run"][r] = Idle
  BY DEF RunStarts, Fed, At, Scoped, InScope, Who
<1>6. report' = "none" /\ silent' \in BOOLEAN
  BY DEF RunStarts
<1>7. BackupTypeOK'
  BY <1>1, <1>2, <1>3, <1>4, <1>6 DEF BackupTypeOK, Phases, IsManifest
<1>8. Scoped'
  BY <1>3 DEF Scoped, InScope, SumsInScope
<1>9. Apart'
  BY <1>3, <1>4 DEF Apart, Free
<1>10. Archives'
  <2> SUFFICES ASSUME NEW q \in Who, NEW t \in Repos, Alone(q)' PROVE Archived(q, t)'
    BY DEF Archives
  <2>1. CASE q = "run"
    BY <1>3, <1>5, <2>1, Packed, IdleFields DEF Archived, At
  <2>2. CASE q # "run"
    <3>1. Alone(q)
      BY <1>3, <2>2 DEF Alone
    <3> QED
      BY <1>3, <3>1 DEF Archives, Archived, At
  <2> QED
    BY <2>1, <2>2
<1>11. Saved'
  BY <1>3, <1>5, IdleFields DEF Saved, At
<1>12. Fed'
  BY <1>1, <1>3, <1>5, IdleFields DEF Fed, At
<1>13. Written'
  BY <1>1, <1>3 DEF Written, Writing, Listed, IsManifest
<1>14. Reported'
  BY <1>1 DEF Reported
<1> QED
  BY <1>7, <1>8, <1>9, <1>10, <1>11, <1>12, <1>13, <1>14

LEMMA FeedInv ==
  ASSUME BackupInv, NEW r \in Repos, Feed(r)
  PROVE  BackupInv'
<1> USE DEF BackupInv
<1>1. RunBecomes("repos", run.cancelled, run.left \ {r}, run.man) /\ run.phase = "repos" /\ r \in run.left
  BY RunMoves DEF Feed
<1>2. UNCHANGED <<config, withdrawn, upstream, mirror, files, sums, latest, sig, attest, dated, report,
                  disturbed, silent>>
  BY DEF Feed, manifestVars
<1>3. work["run"][r] = Idle
  BY <1>1 DEF Fed, At, Scoped, InScope, Who
<1>4. /\ work' \in WorkType
      /\ work'["run"][r] = [Idle EXCEPT !.at = "sync"]
      /\ \A q \in Who, t \in Repos : q # "run" \/ t # r => work'[q][t] = work[q][t]
  <2> DEFINE v == [Idle EXCEPT !.at = "sync"]
  <2>1. work' = [work EXCEPT !["run"][r] = v]
    BY <1>3 DEF Feed, Goes
  <2>2. v \in Work
    BY StartFields
  <2> HIDE DEF v
  <2>3. /\ work' \in WorkType /\ work'["run"][r] = v
        /\ \A q \in Who, t \in Repos : q # "run" \/ t # r => work'[q][t] = work[q][t]
    BY <2>1, <2>2 DEF BackupTypeOK, WorkType, Who
  <2> QED
    BY <2>3 DEF v
<1>5. /\ work'["run"][r].at = "sync" /\ work'["run"][r].lfs = None /\ work'["run"][r].bundle = None
      /\ ~work'["run"][r].asset
  BY <1>4, StartFields
<1>6. beside' \in BOOLEAN /\ (~beside' => ~beside /\ Free("job", r))
  BY DEF Feed, Busy, Free, BackupTypeOK
<1>7. r \in config.repos
  BY <1>1 DEF BackupTypeOK
<1>8. BackupTypeOK'
  BY <1>1, <1>2, <1>4, <1>6 DEF BackupTypeOK, RunBecomes, Phases, IsManifest, WorkType
<1>9. Scoped'
  <2>1. InScope("run", r)'
    BY <1>2, <1>5, <1>7 DEF InScope
  <2>2. \A q \in Who, t \in Repos : q # "run" \/ t # r => InScope(q, t)'
    BY <1>2, <1>4 DEF Scoped, InScope
  <2>3. \A t \in Repos : SumsInScope(t)'
    BY <1>2 DEF Scoped, SumsInScope
  <2> QED
    BY <2>1, <2>2, <2>3 DEF Scoped
<1>10. Apart'
  BY <1>2, <1>4, <1>5, <1>6 DEF Apart, Free, Who
<1>11. Archives'
  <2> SUFFICES ASSUME NEW q \in Who, NEW t \in Repos, Alone(q)' PROVE Archived(q, t)'
    BY DEF Archives
  <2>1. Alone(q)
    BY <1>2, <1>6 DEF Alone
  <2>2. CASE q = "run" /\ t = r
    BY <1>5, <2>2, Packed DEF Archived, At
  <2>3. CASE q # "run" \/ t # r
    BY <1>2, <1>4, <2>1, <2>3 DEF Archives, Archived, At
  <2> QED
    BY <2>2, <2>3
<1>12. Saved'
  <2> SUFFICES ASSUME ~disturbed', ~silent', NEW t \in Repos, ~At("run", t, "idle")', Clean(work["run"][t])'
               PROVE  Saving(t)'
    BY DEF Saved
  <2>1. CASE t = r
    BY <1>5, <2>1 DEF Saving, Settled, Matches, PastPackage, PastArtifact
  <2>2. CASE t # r
    BY <1>1, <1>2, <1>4, <2>2 DEF Saved, Saving, Settled, Matches, SidecarMatches, Clean, At, Who
  <2> QED
    BY <2>1, <2>2
<1>13. Fed'
  BY <1>1, <1>2, <1>4, <1>5, <1>7 DEF Fed, At, RunBecomes, Who
<1>14. Written'
  BY <1>1, <1>2, <1>6 DEF Written, Writing, Listed, IsManifest, RunBecomes
<1>15. Reported'
  BY <1>1, <1>2 DEF Reported, RunBecomes
<1> QED
  BY <1>8, <1>9, <1>10, <1>11, <1>12, <1>13, <1>14, <1>15

LEMMA CancelInv ==
  ASSUME BackupInv, Cancel
  PROVE  BackupInv'
<1> USE DEF BackupInv
<1>1. /\ run' = [phase |-> run'.phase, cancelled |-> run'.cancelled, left |-> run'.left, man |-> run'.man]
      /\ run'.phase = "repos" /\ run'.left = run.left /\ run.phase = "repos"
  BY DEF Cancel, BackupTypeOK
<1>2. run'.cancelled \in BOOLEAN
  BY DEF Cancel, BackupTypeOK
<1>3. UNCHANGED <<config, withdrawn, upstream, mirror, files, sums, work, latest, sig, attest, dated, report,
                  disturbed, silent, beside>>
  BY DEF Cancel, rootVars, manifestVars, history
<1>4. BackupTypeOK'
  BY <1>1, <1>2, <1>3 DEF BackupTypeOK, IsManifest
<1>5. Scoped' /\ Apart' /\ Archives'
  BY <1>3 DEF Scoped, InScope, SumsInScope, Apart, Free, Archives, Alone, Archived, At
<1>6. Saved' /\ Fed'
  BY <1>1, <1>3 DEF Saved, Saving, Settled, Matches, SidecarMatches, Clean, Fed, At
<1>7. Written'
  BY <1>1, <1>3 DEF Written, Writing, Listed, IsManifest
<1>8. Reported'
  BY <1>1, <1>3 DEF Reported
<1> QED
  BY <1>4, <1>5, <1>6, <1>7, <1>8

\* The results of the workers make a manifest of the repositories they did.
LEMMA ResultsListed ==
  ASSUME BackupInv, run.phase = "repos"
  PROVE  /\ IsManifest(Results)
         /\ DOMAIN Results = {r \in Repos : At("run", r, "done")}
         /\ \A r \in DOMAIN Results :
              /\ Results[r].ok = work["run"][r].ok /\ Results[r].warned = work["run"][r].warned
              /\ Results[r].lfs = work["run"][r].lfs /\ Results[r].bundle = work["run"][r].bundle
              /\ Results[r].asset = work["run"][r].asset
<1> DEFINE S == {r \in Repos : At("run", r, "done")}
           E(r) == [ok |-> work["run"][r].ok, warned |-> work["run"][r].warned, lfs |-> work["run"][r].lfs,
                    bundle |-> work["run"][r].bundle, asset |-> work["run"][r].asset]
<1>1. Results = [r \in S |-> E(r)]
  BY DEF Results
<1>2. \A r \in S : work["run"][r] \in Work
  BY DEF BackupInv, BackupTypeOK, Who
<1>3. \A r \in S : E(r) \in Entry
  BY <1>2 DEF Work, Entry
<1>4. \A r \in S : /\ E(r).ok = work["run"][r].ok /\ E(r).warned = work["run"][r].warned
                   /\ E(r).lfs = work["run"][r].lfs /\ E(r).bundle = work["run"][r].bundle
                   /\ E(r).asset = work["run"][r].asset
  OBVIOUS
<1> HIDE DEF E
<1>5. Results \in [S -> Entry] /\ S \in SUBSET Repos
  BY <1>1, <1>3
<1> QED
  BY <1>1, <1>4, <1>5 DEF IsManifest

LEMMA CollectInv ==
  ASSUME BackupInv, Collect
  PROVE  BackupInv'
<1> USE DEF BackupInv
<1>1. RunBecomes("latest", run.cancelled, run.left, Results) /\ run.phase = "repos"
  BY RunMoves DEF Collect
<1>2. UNCHANGED <<config, withdrawn, upstream, mirror, files, sums, latest, sig, attest, report,
                  disturbed, silent, beside>>
  BY DEF Collect, history
<1>3. dated' \in Seq({"manifest", "attest"})
  BY DEF Collect, BackupTypeOK
<1>4. /\ work' \in WorkType
      /\ \A t \in Repos : work'["run"][t] = Idle /\ work'["job"][t] = work["job"][t]
  BY IdleTyped DEF Collect, BackupTypeOK, WorkType, Who
<1>5. \A t \in Repos : Free("run", t)
  BY DEF Collect, Busy, Free
<1>6. /\ IsManifest(Results) /\ DOMAIN Results = {r \in Repos : At("run", r, "done")}
      /\ \A r \in DOMAIN Results :
              /\ Results[r].ok = work["run"][r].ok /\ Results[r].warned = work["run"][r].warned
              /\ Results[r].lfs = work["run"][r].lfs /\ Results[r].bundle = work["run"][r].bundle
              /\ Results[r].asset = work["run"][r].asset
  BY <1>1, ResultsListed
<1>7. PICK m : m = Results
  OBVIOUS
<1>8. /\ IsManifest(m) /\ DOMAIN m = {r \in Repos : At("run", r, "done")} /\ run'.man = m
      /\ \A r \in DOMAIN m :
              /\ m[r].ok = work["run"][r].ok /\ m[r].warned = work["run"][r].warned
              /\ m[r].lfs = work["run"][r].lfs /\ m[r].bundle = work["run"][r].bundle
              /\ m[r].asset = work["run"][r].asset
  BY <1>1, <1>6, <1>7 DEF RunBecomes
<1>9. DOMAIN m \subseteq config.repos /\ (run.cancelled \/ DOMAIN m = config.repos)
  <2>1. \A r \in Repos : At("run", r, "idle") <=> r \in run.left \/ r \notin config.repos
    BY <1>1 DEF Fed
  <2>2. \A r \in Repos : At("run", r, "done") <=> ~At("run", r, "idle")
    BY <1>5 DEF At, Free
  <2>3. run.cancelled \/ run.left = {}
    BY DEF Collect
  <2> QED
    BY <1>8, <2>1, <2>2, <2>3, ConfigTyped
<1>10. Alone("run") => \A r \in DOMAIN m : m[r].lfs # Torn
  BY <1>8 DEF Archives, Archived, Who
<1>11. ~disturbed /\ ~silent => \A r \in DOMAIN m : Clean(m[r]) => Sound(r, m[r])
  <2> SUFFICES ASSUME ~disturbed, ~silent, NEW r \in DOMAIN m, Clean(m[r]) PROVE Sound(r, m[r])
    OBVIOUS
  <2>1. r \in Repos /\ work["run"][r].at = "done"
    BY <1>8 DEF At
  <2>2. Saving(r)
    BY <1>1, <1>8, <2>1 DEF Saved, Clean, At
  <2>3. m[r].lfs # Torn
    BY <1>10 DEF Alone
  <2>4. Matches(r, m[r])
    BY <1>8, <2>2 DEF Saving, Settled, Matches
  <2> QED
    BY <2>1, <2>2, <2>3, <2>4 DEF Saving, Settled, Sound, Settled, PastPackage, PastArtifact
<1>12. BackupTypeOK'
  BY <1>1, <1>2, <1>3, <1>4 DEF BackupTypeOK, RunBecomes, Phases, WorkType, IsManifest
<1>13. Scoped'
  BY <1>2, <1>4, IdleFields DEF Scoped, InScope, SumsInScope, Who
<1>14. Apart'
  BY <1>2, <1>4, IdleFields DEF Apart, Free
<1>15. Archives'
  <2> SUFFICES ASSUME NEW q \in Who, NEW t \in Repos, Alone(q)' PROVE Archived(q, t)'
    BY DEF Archives
  <2>1. CASE q = "run"
    BY <1>4, <2>1, Packed, IdleFields DEF Archived, At
  <2>2. CASE q = "job"
    <3>1. Alone(q)
      BY <1>2 DEF Alone
    <3> QED
      BY <1>2, <1>4, <2>2, <3>1 DEF Archives, Archived, At
  <2> QED
    BY <2>1, <2>2 DEF Who
<1>16. Saved' /\ Fed'
  BY <1>1, <1>4, IdleFields DEF Saved, Fed, At, RunBecomes
<1>17. Written'
  <2>1. Listed(m)'
    BY <1>2, <1>8, <1>9, <1>10 DEF Listed, IsManifest, Alone
  <2>2. ~disturbed' /\ ~silent' => \A r \in DOMAIN m : Clean(m[r]) => Sound(r, m[r])'
    BY <1>2, <1>11 DEF Sound, Settled, Matches, SidecarMatches
  <2>3. latest # None => Listed(latest)'
    BY <1>2 DEF Written, Listed, IsManifest
  <2> QED
    BY <1>1, <1>2, <1>8, <1>9, <2>1, <2>2, <2>3 DEF Written, Writing, RunBecomes
<1>18. Reported'
  BY <1>1 DEF Reported, RunBecomes
<1> QED
  BY <1>12, <1>13, <1>14, <1>15, <1>16, <1>17, <1>18

\* Past its workers the run leaves the root alone.
LEMMA CalmInv ==
  ASSUME BackupInv, UNCHANGED <<config, withdrawn, rootVars, history>>, run.phase # "repos",
                                run'.phase # "repos"
  PROVE  /\ Scoped' /\ Apart' /\ Archives' /\ Saved' /\ Fed'
         /\ \A r, e : Sound(r, e)' <=> Sound(r, e)
         /\ \A m : Listed(m)' <=> Listed(m)
<1>1. UNCHANGED <<config, withdrawn, upstream, mirror, files, sums, work, disturbed, silent, beside>>
  BY DEF rootVars, history
<1>2. Scoped' /\ Apart' /\ Archives'
  BY <1>1 DEF BackupInv, Scoped, InScope, SumsInScope, Apart, Free, Archives, Alone, Archived, At
<1>3. Saved' /\ Fed'
  BY <1>1 DEF BackupInv, Saved, Fed, At
<1>4. \A r, e : Sound(r, e)' <=> Sound(r, e)
  BY <1>1 DEF Sound, Settled, Matches, SidecarMatches
<1>5. \A m : Listed(m)' <=> Listed(m)
  BY <1>1 DEF Listed, IsManifest
<1> QED
  BY <1>2, <1>3, <1>4, <1>5

LEMMA WriteLatestInv ==
  ASSUME BackupInv, WriteLatest
  PROVE  BackupInv'
<1> USE DEF BackupInv
<1>1. PICK x \in {"sig", "prune"} : RunBecomes(x, run.cancelled, run.left, run.man)
                                  /\ (Sign => x = "sig") /\ (~Sign => x = "prune")
  BY RunMoves DEF WriteLatest
<1>2. PICK m : m = run.man
  OBVIOUS
<1>3. UNCHANGED <<config, withdrawn, rootVars, dated, report, history>> /\ run.phase = "latest" /\ latest' = m
  BY <1>2 DEF WriteLatest
<1>4. run'.man = m /\ run'.phase = x /\ run'.cancelled = run.cancelled /\ run'.left = run.left
  BY <1>1, <1>2 DEF RunBecomes
<1>5. /\ Scoped' /\ Apart' /\ Archives' /\ Saved' /\ Fed'
      /\ \A r, e : Sound(r, e)' <=> Sound(r, e)
      /\ Listed(m)' <=> Listed(m)
  BY <1>3, <1>4, CalmInv
<1>6. /\ Listed(m) /\ (run.cancelled \/ DOMAIN m = config.repos)
      /\ ~disturbed /\ ~silent => \A r \in DOMAIN m : Clean(m[r]) => Sound(r, m[r])
  BY <1>2, <1>3 DEF Written, Writing
<1>7. sig' \in {"none", "stale"} /\ attest' \in {"none", "stale"} /\ (sig = "none" => sig' = "none")
  BY DEF WriteLatest, Outdated
<1>8. BackupTypeOK'
  BY <1>1, <1>3, <1>4, <1>6, <1>7 DEF BackupTypeOK, RunBecomes, Phases, IsManifest, rootVars, history, Listed
<1>9. Written'
  <2>1. x = "prune" => Genuine'
    BY <1>1, <1>7 DEF Written, Genuine
  <2>2. ~Sign => sig' = "none" /\ run'.phase # "sig"
    BY <1>1, <1>4, <1>7 DEF Written
  <2>3. config' = config /\ disturbed' = disturbed /\ silent' = silent
    BY <1>3 DEF history
  <2> QED
    BY <1>3, <1>4, <1>5, <1>6, <2>1, <2>2, <2>3 DEF Written, Writing
<1>10. Reported'
  BY <1>4 DEF Reported
<1> QED
  BY <1>5, <1>8, <1>9, <1>10

\* What Written says of the manifest survives the steps that follow it.
LEMMA StillWritten ==
  ASSUME BackupInv, UNCHANGED <<config, withdrawn, rootVars, history, latest>>,
         run.phase \in Writing \ {"latest"}, run'.phase \in Writing \ {"latest"},
         run'.man = run.man, run'.cancelled = run.cancelled
  PROVE  /\ run'.phase \in Writing =>
             /\ Listed(run.man)'
             /\ run'.cancelled \/ DOMAIN run'.man = config'.repos
             /\ ~disturbed' /\ ~silent' => \A r \in DOMAIN run'.man : Clean(run'.man[r]) => Sound(r, run.man[r])'
         /\ latest' = run'.man
         /\ latest' # None => Listed(latest)'
<1> USE DEF BackupInv
<1>1. PICK m : m = run.man
  OBVIOUS
<1>2. run'.man = m /\ latest' = m /\ latest = m
  BY <1>1 DEF Written
<1>3. /\ \A r, e : Sound(r, e)' <=> Sound(r, e)
      /\ Listed(m)' <=> Listed(m)
  BY CalmInv DEF Writing
<1>4. /\ Listed(m) /\ (run.cancelled \/ DOMAIN m = config.repos)
      /\ ~disturbed /\ ~silent => \A r \in DOMAIN m : Clean(m[r]) => Sound(r, m[r])
  BY <1>1 DEF Written
<1>5. config' = config /\ disturbed' = disturbed /\ silent' = silent
  BY DEF history
<1> QED
  BY <1>2, <1>3, <1>4, <1>5

LEMMA WriteSigInv ==
  ASSUME BackupInv, WriteSig
  PROVE  BackupInv'
<1> USE DEF BackupInv
<1>1. RunBecomes("prune", run.cancelled, run.left, run.man) /\ run.phase = "sig"
  BY RunMoves DEF WriteSig
<1>2. UNCHANGED <<config, withdrawn, rootVars, latest, attest, dated, report, history>> /\ sig' = "match"
  BY DEF WriteSig
<1>3. Scoped' /\ Apart' /\ Archives' /\ Saved' /\ Fed'
  BY <1>1, <1>2, CalmInv DEF RunBecomes
<1>4. BackupTypeOK'
  BY <1>1, <1>2 DEF BackupTypeOK, RunBecomes, Phases, IsManifest, rootVars, history
<1>5. Written'
  <2>1. Sign
    BY <1>1 DEF Written
  <2> QED
    BY <1>1, <1>2, <2>1, StillWritten DEF Written, Writing, RunBecomes, Genuine
<1>6. Reported'
  BY <1>1 DEF Reported, RunBecomes
<1> QED
  BY <1>3, <1>4, <1>5, <1>6

\* What Prune keeps are the last names.
LEMMA KeptLast ==
  ASSUME BackupTypeOK, KeepManifests # 0
  PROVE  /\ Kept \in Seq({"manifest", "attest"})
         /\ attest = "none" \/ KeepManifests # 1 =>
              (dated # <<>> => Kept # <<>> /\ Kept[Len(Kept)] = dated[Len(dated)])
<1> DEFINE S == {"manifest", "attest"}
<1>1. dated \in Seq(S) /\ Len(dated) \in Nat /\ KeepManifests \in Nat \ {0}
  BY BackupAssumption DEF BackupTypeOK
<1>2. PICK room \in Nat :
        /\ room = KeepManifests - (IF attest = "none" THEN 0 ELSE 1)
        /\ (attest = "none" \/ KeepManifests # 1 => room > 0)
  BY <1>1
<1>3. CASE Len(dated) <= room
  <2>1. Kept = dated
    BY <1>2, <1>3 DEF Kept
  <2> QED
    BY <1>1, <2>1
<1>4. CASE ~(Len(dated) <= room)
  <2> DEFINE k == SubSeq(dated, Len(dated) - room + 1, Len(dated))
  <2>1. Kept = k
    BY <1>2, <1>4 DEF Kept
  <2>2. \A i \in (Len(dated) - room + 1) .. Len(dated) : dated[i] \in S
    BY <1>1, <1>2, <1>4
  <2>3. Len(dated) - room + 1 \in Int /\ Len(dated) \in Int
    BY <1>1
  <2>4. /\ k \in Seq(S)
        /\ Len(k) = IF Len(dated) - room + 1 <= Len(dated)
                      THEN Len(dated) - (Len(dated) - room + 1) + 1 ELSE 0
        /\ \A i \in 1 .. Len(dated) - (Len(dated) - room + 1) + 1 :
             k[i] = dated[(Len(dated) - room + 1) + i - 1]
    BY <2>2, <2>3, SubSeqProperties
  <2> HIDE DEF k
  <2>5. room > 0 => Len(k) = room /\ k[room] = dated[Len(dated)]
    BY <1>1, <1>2, <2>4
  <2>6. room > 0 => k # <<>>
    BY <2>4, <2>5
  <2> QED
    BY <1>2, <2>1, <2>4, <2>5, <2>6
<1> QED
  BY <1>3, <1>4

LEMMA PruneInv ==
  ASSUME BackupInv, PruneManifests
  PROVE  BackupInv'
<1> USE DEF BackupInv
<1>1. PICK x \in {"attest", "end"} : RunBecomes(x, run.cancelled, run.left, run.man)
  BY RunMoves DEF PruneManifests
<1>2. UNCHANGED <<config, withdrawn, rootVars, latest, sig, attest, report, history>> /\ run.phase = "prune"
  BY DEF PruneManifests
<1>3. Scoped' /\ Apart' /\ Archives' /\ Saved' /\ Fed'
  BY <1>1, <1>2, CalmInv DEF RunBecomes
<1>4. dated' \in Seq({"manifest", "attest"})
  BY KeptLast DEF PruneManifests, BackupTypeOK
<1>5. BackupTypeOK'
  BY <1>1, <1>2, <1>4 DEF BackupTypeOK, RunBecomes, Phases, IsManifest, rootVars, history
<1>6. Written'
  BY <1>1, <1>2, StillWritten DEF Written, Writing, RunBecomes, Genuine
<1>7. Reported'
  BY <1>1 DEF Reported, RunBecomes
<1> QED
  BY <1>3, <1>5, <1>6, <1>7

LEMMA AttestInv ==
  ASSUME BackupInv, Attest
  PROVE  BackupInv'
<1> USE DEF BackupInv
<1>1. RunBecomes("end", run.cancelled, run.left, run.man) /\ run.phase = "attest"
  BY RunMoves DEF Attest
<1>2. UNCHANGED <<config, withdrawn, rootVars, latest, sig, report, history>> /\ attest' = "match"
  BY DEF Attest
<1>3. Scoped' /\ Apart' /\ Archives' /\ Saved' /\ Fed'
  BY <1>1, <1>2, CalmInv DEF RunBecomes
<1>4. dated' \in Seq({"manifest", "attest"})
  BY DEF Attest, BackupTypeOK
<1>5. BackupTypeOK'
  BY <1>1, <1>2, <1>4 DEF BackupTypeOK, RunBecomes, Phases, IsManifest, rootVars, history
<1>6. Written'
  BY <1>1, <1>2, StillWritten DEF Written, Writing, RunBecomes, Genuine
<1>7. Reported'
  BY <1>1 DEF Reported, RunBecomes
<1> QED
  BY <1>3, <1>5, <1>6, <1>7

\* A step after which the run is over, with whatever it returned.
LEMMA OverInv ==
  ASSUME BackupInv, UNCHANGED <<config, withdrawn, rootVars, manifestVars, history>>,
         run.phase # "repos", NEW x \in {"idle", "drill", "ship"}, RunBecomes(x, FALSE, {}, run'.man),
         report' \in {"none", "ok", "warnings", "error"}, Reported'
  PROVE  BackupInv'
<1> USE DEF BackupInv
<1>1. run'.phase = x /\ run'.left = {}
  BY DEF RunBecomes
<1>2. run'.cancelled \in BOOLEAN
  BY DEF RunBecomes
<1>3. /\ Scoped' /\ Apart' /\ Archives' /\ Saved' /\ Fed'
      /\ \A m : Listed(m)' <=> Listed(m)
  BY <1>1, CalmInv
<1>4. UNCHANGED <<latest, sig, attest, dated>>
  BY DEF manifestVars
<1>5. BackupTypeOK'
  BY <1>1, <1>2, <1>4 DEF BackupTypeOK, RunBecomes, Phases, IsManifest, rootVars, history
<1>6. Written'
  BY <1>1, <1>3, <1>4 DEF Written, Writing
<1> QED
  BY <1>3, <1>5, <1>6

LEMMA AttestFailsInv ==
  ASSUME BackupInv, AttestFails
  PROVE  BackupInv'
<1> USE DEF BackupInv
<1>1. run.phase = "attest" /\ UNCHANGED <<config, withdrawn, rootVars, manifestVars, history>>
  BY DEF AttestFails
<1>2. CASE RequireValid
  <2>1. RunBecomes("idle", FALSE, {}, None) /\ report' = "error"
    BY <1>2, RunMoves DEF AttestFails
  <2>2. RunBecomes("idle", FALSE, {}, run'.man)
    BY <2>1 DEF RunBecomes
  <2>3. Reported'
    BY <2>1 DEF Reported, RunBecomes
  <2> QED
    BY <1>1, <2>1, <2>2, <2>3, OverInv
<1>3. CASE ~RequireValid
  <2>1. RunBecomes("end", run.cancelled, run.left, run.man) /\ report' = report
    BY <1>3, RunMoves DEF AttestFails
  <2>2. Scoped' /\ Apart' /\ Archives' /\ Saved' /\ Fed'
    BY <1>1, <2>1, CalmInv DEF RunBecomes
  <2>3. BackupTypeOK'
    BY <1>1, <2>1 DEF BackupTypeOK, RunBecomes, Phases, IsManifest, rootVars, history, manifestVars
  <2>4. Written'
    BY <1>1, <2>1, StillWritten DEF Written, Writing, RunBecomes, Genuine, manifestVars
  <2>5. Reported'
    BY <2>1 DEF Reported, RunBecomes
  <2> QED
    BY <2>2, <2>3, <2>4, <2>5
<1> QED
  BY <1>2, <1>3

LEMMA RunEndsInv ==
  ASSUME BackupInv, RunEnds
  PROVE  BackupInv'
<1> USE DEF BackupInv
<1>1. run.phase = "end" /\ UNCHANGED <<config, withdrawn, rootVars, manifestVars, history>>
  BY DEF RunEnds
<1>2. CASE ~Succeeds
  <2>1. RunBecomes("idle", FALSE, {}, None) /\ report' = "error"
    BY <1>2, RunMoves DEF RunEnds
  <2>2. RunBecomes("idle", FALSE, {}, run'.man)
    BY <2>1 DEF RunBecomes
  <2>3. Reported'
    BY <2>1 DEF Reported, RunBecomes
  <2> QED
    BY <1>1, <2>1, <2>2, <2>3, OverInv
<1>3. CASE Succeeds
  <2>1. RunBecomes("drill", FALSE, {}, None)
    BY <1>3, RunMoves DEF RunEnds
  <2>2. RunBecomes("drill", FALSE, {}, run'.man)
    BY <2>1 DEF RunBecomes
  <2>3. report' \in {"ok", "warnings"}
        /\ (report' = "ok" => \A r \in DOMAIN run.man : ~run.man[r].warned)
    BY <1>3 DEF RunEnds
  <2>4. PICK m : m = run.man
    OBVIOUS
  <2>5. latest = m /\ latest' = m /\ Genuine' /\ config' = config
        /\ disturbed' = disturbed /\ silent' = silent
    BY <1>1, <2>4 DEF Written, Writing, Genuine, manifestVars, history
  <2>6. /\ IsManifest(m) /\ DOMAIN m = config.repos /\ \A r \in DOMAIN m : m[r].ok
        /\ ~disturbed /\ ~silent => \A r \in DOMAIN m : Clean(m[r]) => Sound(r, m[r])
    BY <1>1, <1>3, <2>4 DEF Written, Writing, Listed, Succeeds
  <2>7. m # None
    BY <2>6, NoneAssumption
  <2>8. \A r, e : Sound(r, e)' <=> Sound(r, e)
    BY <1>1, <2>1, CalmInv DEF RunBecomes
  <2>9. report' = "ok" /\ ~disturbed /\ ~silent => \A r \in DOMAIN m : Sound(r, m[r])'
    BY <2>3, <2>4, <2>6, <2>8 DEF Clean
  <2>10. Reported'
    BY <2>1, <2>3, <2>5, <2>6, <2>7, <2>9 DEF Reported, RunBecomes
  <2> QED
    BY <1>1, <2>2, <2>3, <2>10, OverInv
<1> QED
  BY <1>2, <1>3

\* The readers change nothing.
LEMMA ReadersInv ==
  ASSUME BackupInv, Drill \/ Ship
  PROVE  BackupInv'
<1> USE DEF BackupInv
<1>1. run.phase \in {"drill", "ship"} /\ UNCHANGED <<config, withdrawn, rootVars, manifestVars,
                                                     history>> /\ report' = report
  BY DEF Drill, Ship
<1>2. \/ RunBecomes("idle", FALSE, {}, None)
      \/ RunBecomes("ship", run.cancelled, run.left, run.man) /\ Attested
  <2>1. run' = NotRunning \/ (run' = [run EXCEPT !.phase = "ship"] /\ Attested)
    BY DEF Drill, Ship
  <2> QED
    BY <2>1, RunMoves
<1>3. UNCHANGED <<latest, sig, attest, dated, config, disturbed, silent>>
  BY <1>1 DEF manifestVars, history
<1>4. \A r, e : Sound(r, e)' <=> Sound(r, e)
  BY <1>1, <1>2, CalmInv DEF RunBecomes
<1>5. Reported'
  BY <1>1, <1>2, <1>3, <1>4 DEF Reported, RunBecomes, Genuine, Attested
<1>6. Scoped' /\ Apart' /\ Archives' /\ Saved' /\ Fed'
  BY <1>1, <1>2, CalmInv DEF RunBecomes
<1>7. BackupTypeOK'
  <2>1. run'.cancelled \in BOOLEAN
    BY <1>2 DEF RunBecomes, BackupTypeOK
  <2> QED
    BY <1>1, <1>2, <1>3, <2>1 DEF BackupTypeOK, RunBecomes, Phases, IsManifest, rootVars, history
<1>8. Written'
  BY <1>1, <1>2, <1>3, CalmInv DEF Written, Writing, RunBecomes
<1> QED
  BY <1>5, <1>6, <1>7, <1>8

-----------------------------------------------------------------------------
(* The invariant                                                           *)

LEMMA BackupInitInv == BackupInit => BackupInv
<1> SUFFICES ASSUME BackupInit PROVE BackupInv
  OBVIOUS
<1> USE DEF BackupInit
<1>1. BackupTypeOK
  <2>1. work \in [Who -> [Repos -> Work]]
    BY IdleTyped
  <2>2. files \in [Repos -> [Names -> Contents]] /\ sums \in [Repos -> [Summed -> Contents]]
    BY Packed DEF Contents, NoDigest, Summed
  <2>3. /\ run = [phase |-> run.phase, cancelled |-> run.cancelled, left |-> run.left, man |-> run.man]
        /\ run.phase \in Phases /\ run.left \subseteq config.repos
    BY DEF NotRunning, Phases
  <2>4. run.cancelled \in BOOLEAN
    BY DEF NotRunning
  <2>5. config \in Configs /\ upstream \in [Repos -> Nat \ {0}] /\ mirror \in [Repos -> Nat]
    OBVIOUS
  <2>6. /\ latest = None \/ IsManifest(latest)
        /\ {sig, attest} \subseteq {"none", "match", "stale"}
        /\ report \in {"none", "ok", "warnings", "error"}
    OBVIOUS
  <2>7. dated \in Seq({"manifest", "attest"})
    OBVIOUS
  <2>8. {disturbed, silent, beside} \subseteq BOOLEAN
    BY Zenon
  <2>9. withdrawn \in [Repos -> SUBSET Offered]
    OBVIOUS
  <2> HIDE DEF BackupInit
  <2> QED
    BY <2>1, <2>2, <2>3, <2>4, <2>5, <2>6, <2>7, <2>8, <2>9 DEF BackupTypeOK
<1>2. Scoped /\ Apart /\ Archives
  BY Packed, IdleFields DEF Scoped, InScope, SumsInScope, Summed, Offered, Apart, Free, Archives,
     Archived, At, Who
<1>3. run.phase = "idle"
  BY DEF NotRunning
<1>4. Saved /\ Fed
  BY <1>3, IdleFields DEF Saved, Fed, At, Who
<1>5. Written /\ Reported
  BY <1>3 DEF Written, Writing, Reported
<1> QED
  BY <1>1, <1>2, <1>4, <1>5 DEF BackupInv

LEMMA BackupNextInv == BackupInv /\ [BackupNext]_vars => BackupInv'
<1> SUFFICES ASSUME BackupInv, [BackupNext]_vars PROVE BackupInv'
  OBVIOUS
<1>1. ASSUME NEW p \in Who, NEW r \in Repos, BackupRepo(p, r) \/ RepoFails(p, r)
      PROVE  BackupInv'
  BY <1>1, RepoLocal, RepoInv
<1>2. CASE RunStep
  <2>1. ASSUME NEW r \in Repos, Feed(r) \/ BackupRepo("run", r) \/ (run.cancelled /\ RepoFails("run", r))
        PROVE  BackupInv'
    BY <1>1, <2>1, FeedInv DEF Who
  <2> QED
    BY <1>2, <2>1, RunStartsInv, CollectInv, WriteLatestInv, WriteSigInv, PruneInv, AttestInv, RunEndsInv,
       ReadersInv DEF RunStep
<1>3. ASSUME NEW r \in Repos, JobStarts(r) \/ JobEnds(r) \/ BackupRepo("job", r) \/ Push(r)
      PROVE  BackupInv'
  BY <1>1, <1>3, JobStartsInv, JobEndsInv, PushInv DEF Who
<1>4. CASE UNCHANGED vars
  <2>1. UNCHANGED <<config, withdrawn, upstream, mirror, files, sums, work, run, latest, sig, attest,
                    dated, report,
                    disturbed, silent, beside>>
    BY <1>4 DEF vars, rootVars, manifestVars, history
  <2>2. BackupTypeOK' /\ Scoped' /\ Apart' /\ Archives'
    BY <2>1 DEF BackupInv, BackupTypeOK, IsManifest, Scoped, InScope, SumsInScope, Apart, Free, Archives,
                Alone, Archived, At
  <2>3. Saved' /\ Fed'
    BY <2>1 DEF BackupInv, Saved, Saving, Settled, Matches, SidecarMatches, Clean, Fed, At
  <2>4. Written'
    BY <2>1 DEF BackupInv, Written, Listed, IsManifest, Sound, Settled, Matches, SidecarMatches, Clean, Genuine
  <2>5. Reported'
    BY <2>1 DEF BackupInv, Reported, Sound, Settled, Matches, SidecarMatches, Genuine, Attested
  <2> QED
    BY <2>2, <2>3, <2>4, <2>5 DEF BackupInv
<1> QED
  BY <1>1, <1>2, <1>3, <1>4, CancelInv, AttestFailsInv, DiesInv, RotInv, WithdrawInv
     DEF BackupNext

\* Whatever dies, fails, is cancelled, rots or runs beside it: files, digests,
\* results and manifest of Manager.Run keep to BackupInv.
THEOREM BackupInvariant == BackupSpec => []BackupInv
BY BackupInitInv, BackupNextInv, PTL DEF BackupSpec

\* Manager.Verify never vouches for a repository that Manager.Restore would
\* refuse, as long as no job archived a repository while the run did.
THEOREM WhatVerifiesRestores == BackupSpec => []VerifyHonest
<1>1. BackupInv => VerifyHonest
  <2> SUFFICES ASSUME BackupInv, ~beside, Verifies, NEW r \in DOMAIN latest PROVE Restores(r)
    BY DEF VerifyHonest
  <2>1. latest # None /\ EntryVerifies(r)
    BY DEF Verifies
  <2>2. latest[r].lfs # Torn
    BY <2>1 DEF BackupInv, Written, Listed
  <2> QED
    BY <2>1, <2>2 DEF Restores, EntryVerifies
<1> QED
  BY <1>1, BackupInvariant, PTL

\* What a run without error or warning leaves passes every check of the root.
LEMMA SoundVerifies ==
  ASSUME BackupInv, report = "ok", ~disturbed, ~silent, run.phase \in {"idle", "drill", "ship"}
  PROVE  /\ latest # None /\ Genuine /\ DOMAIN latest = config.repos
         /\ \A r \in DOMAIN latest : EntryVerifies(r)
         /\ Abandoned = {} => SidecarsMatch
         /\ \A r \in config.repos : Restores(r) /\ RestoredVersion(r) = mirror[r]
<1>1. /\ latest # None /\ DOMAIN latest = config.repos /\ Genuine
      /\ \A r \in DOMAIN latest : Sound(r, latest[r])
  BY DEF BackupInv, Reported
<1>2. config.repos \subseteq Repos /\ mirror \in [Repos -> Nat]
  BY ConfigTyped DEF BackupInv, BackupTypeOK
<1>3. ASSUME NEW r \in DOMAIN latest
      PROVE  EntryVerifies(r) /\ Restores(r) /\ RestoredVersion(r) = mirror[r]
  <2>1. Sound(r, latest[r]) /\ mirror[r] \in Nat
    BY <1>1, <1>2
  <2>2. latest[r].bundle # None =>
          /\ files[r].bundle = latest[r].bundle /\ latest[r].bundle # Torn
          /\ latest[r].bundle[1] = mirror[r]
    <3> SUFFICES ASSUME latest[r].bundle # None
                 PROVE  /\ files[r].bundle = latest[r].bundle /\ latest[r].bundle # Torn
                        /\ latest[r].bundle[1] = mirror[r]
      OBVIOUS
    <3>1. files[r].bundle = latest[r].bundle /\ latest[r].bundle \in {mirror[r]} \X {1, 2}
      BY <2>1 DEF Sound, Settled, Matches
    <3>2. PICK k \in {1, 2} : latest[r].bundle = <<mirror[r], k>>
      BY <3>1
    <3> QED
      BY <2>1, <3>1, <3>2, Packed
  <2>3. EntryVerifies(r)
    BY <2>1, <2>2 DEF EntryVerifies, Sound, Settled, Matches
  <2>4. Restores(r)
    BY <1>1, <2>1, <2>2 DEF Restores, Sound, Settled, Matches
  <2> QED
    BY <2>2, <2>3, <2>4 DEF RestoredVersion
<1>4. ASSUME Abandoned = {}
      PROVE  SidecarsMatch
  <2> SUFFICES ASSUME NEW r \in Repos, NEW f \in Offered, sums[r][f] # None
               PROVE  SidecarMatches(r, f)
    BY DEF SidecarsMatch, SidecarMatches
  <2>1. r \in config.repos
    BY DEF BackupInv, Scoped, SumsInScope
  <2>2. Sound(r, latest[r])
    BY <1>1, <2>1
  <2>3. Settled(r, f)
    BY <2>2 DEF Sound, Offered
  <2>4. f \in withdrawn[r] /\ ~SidecarMatches(r, f) => <<r, f>> \in Abandoned
    BY DEF Abandoned
  <2> QED
    BY <1>4, <2>3, <2>4 DEF Settled
<1> QED
  BY <1>1, <1>3, <1>4

\* The daemon ships offsite what Verify accepts, unless something touched the
\* root beside the cycle, a write failed without a word, the run warned of a
\* payload it left as it was, or a payload that is no longer offered is bad.
THEOREM ShippedSetsVerify == BackupSpec => []ShippedSound
<1>1. BackupInv => ShippedSound
  <2> SUFFICES ASSUME BackupInv, run.phase = "ship", ~disturbed, ~silent, report # "warnings",
                      Abandoned = {}
               PROVE  Verifies
    BY DEF ShippedSound
  <2>1. report = "ok" /\ Attested
    BY DEF BackupInv, Reported
  <2> QED
    BY <2>1, SoundVerifies DEF Verifies
<1> QED
  BY <1>1, BackupInvariant, PTL

\* A manifest is replaced only by one that lists every repository of the
\* configuration, failed or not, unless the run was cancelled.
LEMMA ForgetsNothing ==
  ASSUME BackupInv, [BackupNext]_vars, latest # None, latest' # latest
  PROVE  DOMAIN latest \subseteq DOMAIN latest' \/ run.cancelled
<1>1. ASSUME NEW p \in Who, NEW r \in Repos, BackupRepo(p, r) \/ RepoFails(p, r)
      PROVE  latest' = latest
  BY <1>1, RepoLocal DEF Local, Confined
<1>2. WriteLatest
  <2>1. ASSUME NEW r \in Repos, \/ Feed(r) \/ JobStarts(r) \/ JobEnds(r) \/ Push(r)
                                \/ \E f \in Pieces : Rot(r, f)
                                \/ \E f \in Offered : Withdraw(r, f)
        PROVE  latest' = latest
    BY <2>1 DEF Feed, JobStarts, JobEnds, Push, Rot, Withdraw, manifestVars
  <2>2. ASSUME \/ RunStarts \/ Collect \/ WriteSig \/ PruneManifests \/ Attest \/ RunEnds
               \/ Drill \/ Ship \/ Cancel \/ AttestFails \/ UNCHANGED vars \/ \E p \in Who : Dies(p)
        PROVE  latest' = latest
    BY <2>2 DEF RunStarts, Collect, WriteSig, PruneManifests, Attest, RunEnds, Drill, Ship, Cancel,
                AttestFails, Dies, vars, manifestVars
  <2> QED
    BY <1>1, <2>1, <2>2 DEF BackupNext, RunStep, Who
<1>3. latest' = run.man /\ (run.cancelled \/ DOMAIN run.man = config.repos)
  BY <1>2 DEF WriteLatest, BackupInv, Written, Writing
<1>4. DOMAIN latest \subseteq config.repos
  BY DEF BackupInv, Written, Listed
<1> QED
  BY <1>3, <1>4

\* Run lists every result: a repository disappears from latest.json only by a
\* cancelled run.
THEOREM FailuresStayListed == BackupSpec => NothingForgotten
<1>1. BackupInv /\ [BackupNext]_vars =>
        [latest # None /\ latest' # latest => DOMAIN latest \subseteq DOMAIN latest' \/ run.cancelled]_vars
  BY ForgetsNothing
<1> QED
  BY <1>1, BackupInvariant, PTL DEF BackupSpec, NothingForgotten

-----------------------------------------------------------------------------
(* The dated manifest and the attestation                                  *)

\* A step that neither writes a manifest nor ends a phase of the run.
LEMMA SameDated ==
  ASSUME DatedInv, UNCHANGED <<config, attest, dated, report>>, run'.phase = run.phase,
         ~disturbed' /\ ~silent' => ~disturbed /\ ~silent
  PROVE  DatedInv'
BY DEF DatedInv, DatedLast, Attested

LEMMA DatedNext ==
  ASSUME Strict, BackupInv, DatedInv, [BackupNext]_vars
  PROVE  DatedInv'
<1>0. /\ dated \in Seq({"manifest", "attest"}) /\ BackupTypeOK /\ config \in Configs
      /\ config.kms => RequireValid /\ KeepManifests # 1
  BY DEF BackupInv, BackupTypeOK, Strict
<1>1. ASSUME NEW p \in Who, NEW r \in Repos, BackupRepo(p, r) \/ RepoFails(p, r)
      PROVE  DatedInv'
  <2>1. Confined(p, r)
    BY <1>1, RepoLocal DEF Local
  <2>2. disturbed' = disturbed /\ (silent' = silent \/ silent' = TRUE)
    BY <2>1 DEF Confined
  <2>3. UNCHANGED <<config, attest, dated, report>> /\ run'.phase = run.phase
    BY <2>1 DEF Confined
  <2> QED
    BY <2>2, <2>3, SameDated
<1>2. ASSUME NEW r \in Repos, \/ Feed(r) \/ JobStarts(r) \/ JobEnds(r) \/ Push(r)
                              \/ \E f \in Pieces : Rot(r, f)
                              \/ \E f \in Offered : Withdraw(r, f)
      PROVE  DatedInv'
  <2>1. UNCHANGED <<config, attest, dated, report, silent>> /\ (disturbed' = disturbed \/ disturbed' = TRUE)
    BY <1>2 DEF Feed, JobStarts, JobEnds, Push, Rot, Withdraw, manifestVars, history
  <2>2. run'.phase = run.phase
    BY <1>0, <1>2, RunMoves DEF Feed, JobStarts, JobEnds, Push, Rot, Withdraw, RunBecomes
  <2> QED
    BY <2>1, <2>2, SameDated
<1>3. CASE Cancel \/ UNCHANGED vars
  <2>1. UNCHANGED <<config, attest, dated, report, disturbed, silent>>
    BY <1>3 DEF Cancel, vars, manifestVars, history
  <2>2. run'.phase = run.phase
    BY <1>0, <1>3 DEF Cancel, vars, BackupTypeOK
  <2> QED
    BY <2>1, <2>2, SameDated
<1>4. CASE RunStarts
  <2>1. run'.phase = "repos"
    BY <1>4 DEF RunStarts, NotRunning
  <2> QED
    BY <1>4, <2>1 DEF RunStarts, DatedInv, manifestVars
<1>5. CASE Collect
  <2>1. run'.phase = "latest"
    BY <1>0, <1>5, RunMoves DEF Collect, RunBecomes
  <2>2. dated' # <<>> /\ dated'[Len(dated')] = "manifest"
    BY <1>0, <1>5 DEF Collect
  <2> QED
    BY <1>5, <2>1, <2>2 DEF Collect, DatedInv
<1>6. CASE WriteLatest \/ WriteSig
  <2>1. run'.phase \in {"sig", "prune"} /\ run.phase \in {"latest", "sig"}
    BY <1>0, <1>6, RunMoves DEF WriteLatest, WriteSig, RunBecomes
  <2>2. attest = "none" => attest' = "none"
    BY <1>6 DEF WriteLatest, WriteSig, Outdated
  <2> QED
    BY <1>6, <2>1, <2>2 DEF WriteLatest, WriteSig, DatedInv
<1>7. CASE PruneManifests
  <2>1. run'.phase = IF config.kms THEN "attest" ELSE "end"
    BY <1>0, <1>7, RunMoves DEF PruneManifests, RunBecomes
  <2>2. dated # <<>> /\ dated[Len(dated)] = "manifest" /\ (~config.kms => attest = "none")
    BY <1>7 DEF PruneManifests, DatedInv
  <2>3. dated' # <<>> /\ dated'[Len(dated')] = "manifest"
    BY <1>0, <1>7, <2>2, KeptLast DEF PruneManifests
  <2>4. dated' \in Seq({"manifest", "attest"})
    BY <1>0, <1>7, KeptLast DEF PruneManifests
  <2>5. DatedLast'
    <3>1. DOMAIN dated' = 1 .. Len(dated') /\ Len(dated') \in Nat /\ Len(dated') # 0
      BY <2>3, <2>4
    <3> QED
      BY <2>3, <3>1 DEF DatedLast
  <2> QED
    BY <1>7, <2>1, <2>2, <2>3, <2>5 DEF PruneManifests, DatedInv, Attested
<1>8. CASE Attest
  <2>1. run'.phase = "end" /\ run.phase = "attest" /\ attest' = "match" /\ config' = config /\ config.kms
    BY <1>0, <1>8, RunMoves DEF Attest, RunBecomes, DatedInv
  <2>2. dated # <<>> /\ dated[Len(dated)] = "manifest" /\ dated' = Append(dated, "attest")
    BY <1>8, <2>1 DEF Attest, DatedInv
  <2>3. /\ Len(dated) \in Nat /\ Len(dated) # 0
        /\ DOMAIN dated' = 1 .. Len(dated) + 1
        /\ dated'[Len(dated)] = "manifest"
        /\ dated'[Len(dated) + 1] = "attest"
    BY <1>0, <2>2
  <2>4. DatedLast'
    BY <2>3 DEF DatedLast
  <2> QED
    BY <2>1, <2>4 DEF DatedInv, Attested
<1>9. CASE AttestFails
  <2>1. config.kms
    BY <1>9 DEF AttestFails, DatedInv
  <2>2. run'.phase = "idle" /\ report' = "error"
    BY <1>0, <1>9, <2>1 DEF AttestFails, NotRunning
  <2> QED
    BY <1>9, <2>1, <2>2 DEF AttestFails, DatedInv, manifestVars
<1>10. CASE RunEnds \/ Drill \/ Ship
  <2>1. run'.phase \in {"idle", "drill", "ship"} /\ run.phase \in {"end", "drill", "ship"}
    BY <1>0, <1>10, RunMoves DEF RunEnds, Drill, Ship, RunBecomes
  <2>2. UNCHANGED <<config, attest, dated, disturbed, silent>> /\ (run.phase # "end" => report' = report)
    BY <1>10 DEF RunEnds, Drill, Ship, manifestVars, history
  <2> QED
    BY <2>1, <2>2 DEF DatedInv, DatedLast, Attested
<1>11. ASSUME NEW p \in Who, Dies(p)
       PROVE  DatedInv'
  <2>1. UNCHANGED <<config, attest, dated, report>> /\ disturbed' = TRUE
    BY <1>11 DEF Dies, manifestVars
  <2>2. run'.phase = run.phase \/ run'.phase = "idle"
    BY <1>11 DEF Dies, NotRunning
  <2> QED
    BY <2>1, <2>2 DEF DatedInv, DatedLast, Attested
<1> QED
  BY <1>1, <1>2, <1>3, <1>4, <1>5, <1>6, <1>7, <1>8, <1>9, <1>10, <1>11 DEF BackupNext, RunStep, Who

LEMMA DatedInit == BackupInit => DatedInv
BY DEF BackupInit, DatedInv, NotRunning

\* A full run that returned neither error nor warning, with nothing beside or
\* after it and no write that failed without a word, left a root from which every
\* repository is restored as it was mirrored, its dated manifest and, but for
\* payloads no longer offered, what Verify accepts: if KMS attestation is required
\* wherever it is configured, and Prune keeps more than one name then.
THEOREM SuccessMeansSaved ==
  ASSUME Strict
  PROVE  BackupSpec => []ReportTrue
<1>1. BackupInv /\ DatedInv => ReportTrue
  BY SoundVerifies DEF ReportTrue, Verifies, DatedInv
<1>2. BackupInv /\ DatedInv /\ [BackupNext]_vars => DatedInv'
  BY DatedNext
<1>3. BackupSpec => []BackupInv
  BY BackupInvariant
<1> QED
  BY <1>1, <1>2, <1>3, DatedInit, PTL DEF BackupSpec
=============================================================================
