-------------------------- MODULE GenerationsProofs --------------------------
(***************************************************************************)
(* Proofs about Generations for any number of captures, faults and kept    *)
(* generations: what the index names is signed, also when backups overlap, *)
(* and a backup that is alone never loses the last good generation.        *)
(***************************************************************************)
EXTENDS Generations, FiniteSetTheorems, WellFoundedInduction, NaturalsInduction, TLAPS

-----------------------------------------------------------------------------
(* Retention                                                               *)

\* Generations and their bounds are numbers.
LEMMA Numbers ==
  /\ MaxGens \in Nat /\ Keep \in Nat \ {0} /\ MaxFaults \in Nat
  /\ \A g \in Gens : g \in Nat /\ 1 <= g /\ g <= MaxGens
  BY GenerationsAssumption DEF Gens

\* A non-empty set of generations has a newest element.
LEMMA NewestOne ==
  ASSUME NEW T \in SUBSET Gens, T # {}
  PROVE  \E x \in T : \A y \in T : y <= x
  <1> DEFINE R == OpToRel(<, Nat)
             U == {MaxGens - y : y \in T}
  <1>1. IsWellFoundedOn(R, Nat)
    BY NatLessThanWellFounded
  <1>2. \A x, y \in Nat : x < y => <<x, y>> \in R
    BY DEF OpToRel
  <1>3. \A y \in T : y \in Nat /\ MaxGens - y \in Nat
    BY Numbers
  <1>4. U \in SUBSET Nat /\ U # {}
    BY <1>3
  <1> HIDE DEF R
  <1>5. PICK u \in U : \A v \in U : <<v, u>> \notin R
    BY <1>1, <1>4, WFMin
  <1>6. PICK x \in T : u = MaxGens - x
    BY <1>5
  <1>7. ASSUME NEW y \in T PROVE y <= x
    <2>1. MaxGens - y \in U /\ MaxGens - x \in Nat /\ MaxGens - y \in Nat
      BY <1>3
    <2>2. ~(MaxGens - y < MaxGens - x)
      BY <1>2, <1>5, <1>6, <2>1
    <2> QED
      BY <1>3, <2>2, Numbers
  <1> QED
    BY <1>7

\* Sets of generations are finite, and smaller sets have fewer elements.
LEMMA Finite ==
  ASSUME NEW S \in SUBSET Gens
  PROVE  /\ IsFiniteSet(S)
         /\ Cardinality(S) \in Nat
         /\ \A T \in SUBSET S : Cardinality(T) \in Nat /\ Cardinality(T) <= Cardinality(S)
  <1>1. IsFiniteSet(Gens)
    BY FS_Interval, GenerationsAssumption DEF Gens
  <1>2. IsFiniteSet(S)
    BY <1>1, FS_Subset
  <1> QED
    BY <1>2, FS_Subset, FS_CardinalityType

\* Retention to n keeps n when there were n.
LEMMA NewestAreEnough ==
  ASSUME NEW S \in SUBSET Gens, NEW n \in Nat, Cardinality(S) >= n
  PROVE  Cardinality(Newest(S, n)) >= n
  <1> DEFINE N == Newest(S, n)
  <1>1. N \in SUBSET S /\ N \in SUBSET Gens
    BY DEF Newest
  <1>2. Cardinality(N) \in Nat /\ Cardinality(S) \in Nat
    BY <1>1, Finite
  <1>3. ASSUME ~(Cardinality(N) >= n) PROVE FALSE
    <2>1. S \ N # {}
      <3> HIDE DEF N
      <3>1. S # N
        BY <1>2, <1>3
      <3> QED
        BY <1>1, <3>1
    <2>2. PICK g \in S \ N : \A y \in S \ N : y <= g
      BY <2>1, NewestOne
    <2>3. {h \in S : h > g} \in SUBSET N
      <3>1. ASSUME NEW h \in S, h > g PROVE h \in N
        <4>1. h \in Nat /\ g \in Nat
          BY <2>2, Numbers
        <4>2. ~(h <= g)
          BY <3>1, <4>1
        <4> QED
          BY <2>2, <4>2
      <3> QED
        BY <3>1
    <2>4. Cardinality({h \in S : h > g}) < n
      <3> HIDE DEF N
      <3>1. /\ Cardinality({h \in S : h > g}) \in Nat
            /\ Cardinality({h \in S : h > g}) <= Cardinality(N)
        BY <1>1, <2>3, Finite
      <3> QED
        BY <1>2, <1>3, <3>1
    <2> QED
      BY <2>2, <2>4 DEF Newest
  <1> QED
    BY <1>3

-----------------------------------------------------------------------------
(* The index, for backups that may overlap                                 *)

\* Three steps look for what they need: it is gone and they give up, or it is
\* there.
GivesUp(r) ==
  /\ run' = [run EXCEPT ![r] = Run("idle", 0)]
  /\ UNCHANGED <<dir, latest, index, replicas, last, faults>>

MetaWritten(r) ==
  /\ run[r].phase = "capturing"
  /\ dir[run[r].gen] # "absent"
  /\ run' = [run EXCEPT ![r] = Run("written", run[r].gen)]
  /\ dir' = [dir EXCEPT ![run[r].gen] = "unsigned"]
  /\ UNCHANGED <<latest, index, replicas, last, faults>>

Signed(r) ==
  /\ run[r].phase = "pruned"
  /\ dir[run[r].gen] # "absent"
  /\ run' = [run EXCEPT ![r] = Run("signed", run[r].gen)]
  /\ dir' = [dir EXCEPT ![run[r].gen] = "signed"]
  /\ UNCHANGED <<latest, index, replicas, last, faults>>

ReplicaRecorded(r) ==
  /\ run[r].phase = "recorded"
  /\ run[r].gen \in index
  /\ run' = [run EXCEPT ![r] = Run("replicated", run[r].gen)]
  /\ replicas' = replicas \cup {run[r].gen}
  /\ UNCHANGED <<dir, latest, index, last, faults>>

\* The branches of these steps.
LEMMA Branches ==
  ASSUME NEW r \in Runs
  PROVE  /\ WriteMeta(r) =>
              \/ GivesUp(r) /\ run[r].phase = "capturing" /\ dir[run[r].gen] = "absent"
              \/ MetaWritten(r)
         /\ Sign(r) =>
              \/ GivesUp(r) /\ run[r].phase = "pruned" /\ dir[run[r].gen] = "absent"
              \/ Signed(r)
         /\ RecordReplica(r) =>
              \/ GivesUp(r) /\ run[r].phase = "recorded" /\ run[r].gen \notin index
              \/ ReplicaRecorded(r)
  BY DEF WriteMeta, Sign, RecordReplica, GivesUp, MetaWritten, Signed, ReplicaRecorded

\* The initial state satisfies the invariant.
LEMMA InitGenInv == Init => GenInv
  BY Numbers DEF Init, GenInv, GenTypeOK, OwnGens, SignedFirst, Run, Working, Early, Late, Gens,
     DirState, Phase

\* Each step keeps the types.
LEMMA NextGenType ==
  ASSUME GenInv, Next
  PROVE  GenTypeOK'
  <1> USE Numbers DEF GenInv, GenTypeOK, Run, Phase, DirState, Gens
  <1>1. ASSUME NEW r \in Runs, BeginCapture(r) PROVE GenTypeOK'
    BY <1>1 DEF BeginCapture
  <1>2. ASSUME NEW r \in Runs, BackupFails(r) PROVE GenTypeOK'
    BY <1>2 DEF BackupFails
  <1>3. ASSUME NEW r \in Runs, CaptureFails(r) PROVE GenTypeOK'
    BY <1>3 DEF CaptureFails
  <1>4. ASSUME NEW r \in Runs, WriteMeta(r) PROVE GenTypeOK'
    <2>1. CASE GivesUp(r)
      BY <2>1 DEF GivesUp
    <2>2. CASE MetaWritten(r)
      BY <2>2 DEF MetaWritten
    <2> QED
      BY <1>4, <2>1, <2>2, Branches
  <1>5. ASSUME NEW r \in Runs, PruneDirs(r) PROVE GenTypeOK'
    BY <1>5 DEF PruneDirs
  <1>6. ASSUME NEW r \in Runs, Sign(r) PROVE GenTypeOK'
    <2>1. CASE GivesUp(r)
      BY <2>1 DEF GivesUp
    <2>2. CASE Signed(r)
      BY <2>2 DEF Signed
    <2> QED
      BY <1>6, <2>1, <2>2, Branches
  <1>7. ASSUME NEW r \in Runs, RecordGeneration(r) PROVE GenTypeOK'
    <2>1. run[r].gen \in Gens
      BY <1>7 DEF RecordGeneration, OwnGens, Working
    <2> QED
      BY <1>7, <2>1 DEF RecordGeneration
  <1>8. ASSUME NEW r \in Runs, RecordReplica(r) PROVE GenTypeOK'
    <2>1. CASE GivesUp(r)
      BY <2>1 DEF GivesUp
    <2>2. CASE ReplicaRecorded(r)
      BY <2>2 DEF ReplicaRecorded
    <2> QED
      BY <1>8, <2>1, <2>2, Branches
  <1>9. ASSUME NEW r \in Runs, PruneGenerationRecords(r) PROVE GenTypeOK'
    BY <1>9 DEF PruneGenerationRecords, Newest
  <1>10. ASSUME NEW r \in Runs, PrunePanics(r) PROVE GenTypeOK'
    BY <1>10 DEF PrunePanics
  <1>11. ASSUME NEW r \in Runs, MarkBackupResult(r) PROVE GenTypeOK'
    BY <1>11 DEF MarkBackupResult
  <1>12. CASE Crash
    BY <1>12 DEF Crash
  <1> QED
    BY <1>1, <1>2, <1>3, <1>4, <1>5, <1>6, <1>7, <1>8, <1>9, <1>10, <1>11, <1>12 DEF Next, Step

\* No two runs get at one generation: a capture begins above all stamps.
LEMMA NextOwnGens ==
  ASSUME GenInv, Next
  PROVE  OwnGens'
  <1> USE Numbers DEF GenInv, GenTypeOK, OwnGens, Working, Run, Gens
  <1>1. ASSUME NEW r \in Runs, BeginCapture(r) PROVE OwnGens'
    BY <1>1 DEF BeginCapture
  <1>2. ASSUME NEW r \in Runs, BackupFails(r) PROVE OwnGens'
    BY <1>2 DEF BackupFails
  <1>3. ASSUME NEW r \in Runs, CaptureFails(r) PROVE OwnGens'
    BY <1>3 DEF CaptureFails
  <1>4. ASSUME NEW r \in Runs, WriteMeta(r) PROVE OwnGens'
    <2>1. CASE GivesUp(r)
      BY <2>1 DEF GivesUp
    <2>2. CASE MetaWritten(r)
      BY <2>2 DEF MetaWritten
    <2> QED
      BY <1>4, <2>1, <2>2, Branches
  <1>5. ASSUME NEW r \in Runs, PruneDirs(r) PROVE OwnGens'
    BY <1>5 DEF PruneDirs
  <1>6. ASSUME NEW r \in Runs, Sign(r) PROVE OwnGens'
    <2>1. CASE GivesUp(r)
      BY <2>1 DEF GivesUp
    <2>2. CASE Signed(r)
      BY <2>2 DEF Signed
    <2> QED
      BY <1>6, <2>1, <2>2, Branches
  <1>7. ASSUME NEW r \in Runs, RecordGeneration(r) PROVE OwnGens'
    BY <1>7 DEF RecordGeneration
  <1>8. ASSUME NEW r \in Runs, RecordReplica(r) PROVE OwnGens'
    <2>1. CASE GivesUp(r)
      BY <2>1 DEF GivesUp
    <2>2. CASE ReplicaRecorded(r)
      BY <2>2 DEF ReplicaRecorded
    <2> QED
      BY <1>8, <2>1, <2>2, Branches
  <1>9. ASSUME NEW r \in Runs, PruneGenerationRecords(r) PROVE OwnGens'
    BY <1>9 DEF PruneGenerationRecords, Newest
  <1>10. ASSUME NEW r \in Runs, PrunePanics(r) PROVE OwnGens'
    BY <1>10 DEF PrunePanics
  <1>11. ASSUME NEW r \in Runs, MarkBackupResult(r) PROVE OwnGens'
    BY <1>11 DEF MarkBackupResult
  <1>12. CASE Crash
    BY <1>12 DEF Crash
  <1> QED
    BY <1>1, <1>2, <1>3, <1>4, <1>5, <1>6, <1>7, <1>8, <1>9, <1>10, <1>11, <1>12 DEF Next, Step

\* CaptureSigned returns before RecordGeneration is called.
LEMMA NextSignedFirst ==
  ASSUME GenInv, Next
  PROVE  SignedFirst'
  <1> USE Numbers DEF GenInv, GenTypeOK, OwnGens, SignedFirst, Working, Run, Gens, Early, Late
  <1>1. ASSUME NEW r \in Runs, BeginCapture(r) PROVE SignedFirst'
    BY <1>1 DEF BeginCapture
  <1>2. ASSUME NEW r \in Runs, BackupFails(r) PROVE SignedFirst'
    BY <1>2 DEF BackupFails
  <1>3. ASSUME NEW r \in Runs, CaptureFails(r) PROVE SignedFirst'
    BY <1>3 DEF CaptureFails
  <1>4. ASSUME NEW r \in Runs, WriteMeta(r) PROVE SignedFirst'
    <2>1. CASE GivesUp(r)
      BY <2>1 DEF GivesUp
    <2>2. CASE MetaWritten(r)
      BY <2>2 DEF MetaWritten
    <2> QED
      BY <1>4, <2>1, <2>2, Branches
  <1>5. ASSUME NEW r \in Runs, PruneDirs(r) PROVE SignedFirst'
    BY <1>5 DEF PruneDirs
  <1>6. ASSUME NEW r \in Runs, Sign(r) PROVE SignedFirst'
    <2>1. CASE GivesUp(r)
      BY <2>1 DEF GivesUp
    <2>2. CASE Signed(r)
      BY <2>2 DEF Signed
    <2> QED
      BY <1>6, <2>1, <2>2, Branches
  <1>7. ASSUME NEW r \in Runs, RecordGeneration(r) PROVE SignedFirst'
    BY <1>7 DEF RecordGeneration
  <1>8. ASSUME NEW r \in Runs, RecordReplica(r) PROVE SignedFirst'
    <2>1. CASE GivesUp(r)
      BY <2>1 DEF GivesUp
    <2>2. CASE ReplicaRecorded(r)
      BY <2>2 DEF ReplicaRecorded
    <2> QED
      BY <1>8, <2>1, <2>2, Branches
  <1>9. ASSUME NEW r \in Runs, PruneGenerationRecords(r) PROVE SignedFirst'
    BY <1>9 DEF PruneGenerationRecords, Newest
  <1>10. ASSUME NEW r \in Runs, PrunePanics(r) PROVE SignedFirst'
    BY <1>10 DEF PrunePanics
  <1>11. ASSUME NEW r \in Runs, MarkBackupResult(r) PROVE SignedFirst'
    BY <1>11 DEF MarkBackupResult
  <1>12. CASE Crash
    BY <1>12 DEF Crash
  <1> QED
    BY <1>1, <1>2, <1>3, <1>4, <1>5, <1>6, <1>7, <1>8, <1>9, <1>10, <1>11, <1>12 DEF Next, Step

\* The inductive invariant of any number of overlapping backups.
THEOREM GenerationsInvariant == Spec => []GenInv
  <1>1. GenInv /\ [Next]_vars => GenInv'
    <2> SUFFICES ASSUME GenInv, [Next]_vars PROVE GenInv'
      OBVIOUS
    <2>1. CASE Next
      BY <2>1, NextGenType, NextOwnGens, NextSignedFirst DEF GenInv
    <2>2. CASE UNCHANGED vars
      BY <2>2 DEF vars, GenInv, GenTypeOK, OwnGens, SignedFirst, Working
    <2> QED
      BY <2>1, <2>2
  <1> QED
    BY <1>1, InitGenInv, PTL DEF Spec

\* Whatever is cut off, fails, is pruned or overlaps, no leftover of a capture
\* is in the index: Runner.backupRepository records what CaptureSigned has
\* signed, and no later capture writes to that directory.
THEOREM OnlySignedIsAdvertised == Spec => []NothingHalfMadeAdvertised
  <1>1. GenInv => NothingHalfMadeAdvertised
    BY DEF GenInv, SignedFirst, NothingHalfMadeAdvertised
  <1> QED
    BY <1>1, GenerationsInvariant, PTL

-----------------------------------------------------------------------------
(* The last good generation, for a backup that is alone                    *)

\* The lease outlasts the backup, so that no second one begins beside it, and
\* the captures that fail, with the one at work, are fewer than keep_per_repo.
Sole ==
  /\ \A r, q \in Runs : r = q
  /\ MaxFaults + 1 < Keep

\* What is on disk beyond the last good generation is a finite number of
\* directories, never more than retention tolerates.
LEMMA FewNewer ==
  ASSUME Sole, SoleInv, last # 0
  PROVE  /\ last \in Gens
         /\ Newer(last) \in SUBSET Gens
         /\ Cardinality(Newer(last)) \in Nat
         /\ Cardinality(Newer(last)) < Keep
  <1>1. last \in Gens
    BY Numbers DEF SoleInv, GenInv, GenTypeOK, Gens
  <1>2. Newer(last) \in SUBSET Gens
    BY DEF Newer, Present
  <1>3. Cardinality(Newer(last)) \in Nat
    BY <1>2, Finite
  <1>4. faults \in Nat /\ faults <= MaxFaults /\ AtWork \in {0, 1}
    BY Numbers DEF SoleInv, GenInv, GenTypeOK, AtWork
  <1>5. Cardinality(Newer(last)) <= faults + AtWork
    BY DEF SoleInv, LastInv
  <1> QED
    BY <1>1, <1>2, <1>3, <1>4, <1>5, Numbers DEF Sole

\* prune spares the directory the run has just written and the last good one.
LEMMA PruneSpares ==
  ASSUME Sole, SoleInv, NEW r \in Runs, PruneDirs(r)
  PROVE  /\ dir'[run[r].gen] = dir[run[r].gen]
         /\ last # 0 => dir'[last] = dir[last]
         /\ Present' \subseteq Present
  <1>1. run[r].gen = latest /\ latest \in Gens /\ dir[latest] # "absent"
    BY Numbers DEF PruneDirs, SoleInv, AloneInv, GenInv, OwnGens, Working, Early, GenTypeOK, Gens
  <1>2. dir' = [g \in Gens |-> IF g \in Newest(Present, Keep) THEN dir[g] ELSE "absent"]
    BY DEF PruneDirs
  <1>3. latest \in Newest(Present, Keep)
    <2>1. {h \in Present : h > latest} = {}
      BY DEF Present, SoleInv, GenInv, OwnGens
    <2> QED
      BY <1>1, <2>1, FS_EmptySet, Numbers DEF Newest, Present
  <1>4. ASSUME last # 0 PROVE last \in Gens /\ last \in Newest(Present, Keep)
    <2>1. last \in Present
      BY <1>4, FewNewer DEF Present, SoleInv, LastInv
    <2> QED
      BY <1>4, <2>1, FewNewer DEF Newest, Newer
  <1>5. Present' \subseteq Present
    BY <1>2 DEF Present, Newest
  <1> QED
    BY <1>1, <1>2, <1>3, <1>4, <1>5

\* The index stays full once it has been.
LEMMA IndexStaysFull ==
  ASSUME GenInv, Next, Cardinality(index) >= Keep
  PROVE  Cardinality(index') >= Keep
  <1>1. index \in SUBSET Gens /\ index' \in SUBSET Gens
    BY NextGenType DEF GenInv, GenTypeOK
  <1>2. Cardinality(index) \in Nat /\ Cardinality(index') \in Nat /\ Keep \in Nat
    BY <1>1, Finite, Numbers
  <1>3. CASE index \subseteq index'
    <2>1. Cardinality(index) <= Cardinality(index')
      BY <1>1, <1>3, Finite
    <2> QED
      BY <1>2, <2>1
  <1>4. CASE index' = Newest(index, Keep)
    BY <1>1, <1>2, <1>4, NewestAreEnough
  <1>5. index \subseteq index' \/ index' = Newest(index, Keep)
    BY DEF Next, Step, BeginCapture, BackupFails, CaptureFails, WriteMeta, PruneDirs, Sign,
       RecordGeneration, RecordReplica, PruneGenerationRecords, PrunePanics, MarkBackupResult, Crash
  <1> QED
    BY <1>3, <1>4, <1>5

\* A run that is alone finds its directory and its row, and never gives up.
LEMMA NoGivingUp ==
  ASSUME SoleInv, NEW r \in Runs
  PROVE  /\ WriteMeta(r) => MetaWritten(r)
         /\ Sign(r) => Signed(r)
         /\ RecordReplica(r) => ReplicaRecorded(r)
  BY Branches DEF SoleInv, AloneInv, Early

\* The run that is alone keeps what it has made.
LEMMA NextAlone ==
  ASSUME Sole, SoleInv, Next
  PROVE  AloneInv'
  <1>a. GenTypeOK /\ OwnGens /\ AloneInv /\ \A q, s \in Runs : q = s
    BY DEF SoleInv, GenInv, Sole
  <1> USE <1>a, Numbers DEF GenTypeOK, OwnGens, AloneInv, Working, Run, Gens, Early, Late
  <1>1. ASSUME NEW r \in Runs, BeginCapture(r) PROVE AloneInv'
    BY <1>1 DEF BeginCapture
  <1>2. ASSUME NEW r \in Runs, BackupFails(r) PROVE AloneInv'
    BY <1>2 DEF BackupFails
  <1>3. ASSUME NEW r \in Runs, CaptureFails(r) PROVE AloneInv'
    BY <1>3 DEF CaptureFails
  <1>4. ASSUME NEW r \in Runs, WriteMeta(r) PROVE AloneInv'
    BY <1>4, NoGivingUp DEF MetaWritten
  <1>5. ASSUME NEW r \in Runs, PruneDirs(r) PROVE AloneInv'
    <2>1. dir'[run[r].gen] = dir[run[r].gen]
      BY <1>5, PruneSpares
    <2>2. /\ run[r].phase = "written" /\ run' = [run EXCEPT ![r] = Run("pruned", run[r].gen)]
          /\ UNCHANGED <<latest, index>>
      BY <1>5 DEF PruneDirs
    <2> QED
      BY <2>1, <2>2
  <1>6. ASSUME NEW r \in Runs, Sign(r) PROVE AloneInv'
    BY <1>6, NoGivingUp DEF Signed
  <1>7. ASSUME NEW r \in Runs, RecordGeneration(r) PROVE AloneInv'
    BY <1>7 DEF RecordGeneration
  <1>8. ASSUME NEW r \in Runs, RecordReplica(r) PROVE AloneInv'
    BY <1>8, NoGivingUp DEF ReplicaRecorded
  <1>9. ASSUME NEW r \in Runs, PruneGenerationRecords(r) PROVE AloneInv'
    <2>1. Cardinality(index') >= Keep
      BY <1>9, IndexStaysFull DEF PruneGenerationRecords, SoleInv
    <2> QED
      BY <1>9, <2>1 DEF PruneGenerationRecords
  <1>10. ASSUME NEW r \in Runs, PrunePanics(r) PROVE AloneInv'
    BY <1>10 DEF PrunePanics
  <1>11. ASSUME NEW r \in Runs, MarkBackupResult(r) PROVE AloneInv'
    BY <1>11 DEF MarkBackupResult
  <1>12. CASE Crash
    BY <1>12 DEF Crash
  <1> QED
    BY <1>1, <1>2, <1>3, <1>4, <1>5, <1>6, <1>7, <1>8, <1>9, <1>10, <1>11, <1>12 DEF Next, Step

\* A step after which no more directories are ahead of the last good one than
\* faults and work account for.
LEMMA LastKept ==
  ASSUME Sole, SoleInv, Next, last' = last, latest' = latest,
         Present' \subseteq Present,
         last # 0 => dir'[last] = dir[last],
         faults + AtWork <= faults' + AtWork'
  PROVE  LastInv'
  <1> SUFFICES ASSUME last # 0 PROVE LastInv'
    BY DEF LastInv
  <1>1. Cardinality(index') >= Keep
    BY IndexStaysFull DEF SoleInv, LastInv
  <1>2. last <= latest /\ dir[last] = "signed" /\ Cardinality(Newer(last)) <= faults + AtWork
    BY DEF SoleInv, LastInv
  <1>3. Newer(last)' \in SUBSET Newer(last)
    BY DEF Newer
  <1>4. /\ Cardinality(Newer(last)) \in Nat
        /\ Cardinality(Newer(last)') \in Nat
        /\ Cardinality(Newer(last)') <= Cardinality(Newer(last))
    BY <1>3, FewNewer, Finite
  <1>5. /\ faults \in Nat /\ AtWork \in Nat
        /\ faults' \in Nat /\ AtWork' \in Nat
    BY NextGenType, Numbers DEF SoleInv, GenInv, GenTypeOK, AtWork
  <1>6. Cardinality(Newer(last)') <= faults' + AtWork'
    <2>1. PICK n \in Nat, m \in Nat, f \in Nat, w \in Nat :
            /\ n = Cardinality(Newer(last)) /\ m = Cardinality(Newer(last)')
            /\ f = faults + AtWork /\ w = faults' + AtWork'
      BY <1>4, <1>5
    <2>2. n <= f /\ m <= n /\ f <= w
      BY <1>2, <1>4, <2>1
    <2>3. m <= w
      BY <2>2
    <2> QED
      BY <2>1, <2>3
  <1> QED
    BY <1>1, <1>2, <1>6 DEF LastInv

\* The run that is alone loses no good generation.
LEMMA NextLast ==
  ASSUME Sole, SoleInv, Next
  PROVE  LastInv'
  <1>a. GenTypeOK /\ \A q, s \in Runs : q = s
    BY DEF SoleInv, GenInv, Sole
  <1>b. faults \in Nat /\ AtWork \in {0, 1}
    BY Numbers DEF SoleInv, GenInv, GenTypeOK, AtWork
  <1>c. ASSUME NEW r \in Runs PROVE /\ AtWork = IF Working(r) THEN 1 ELSE 0
                                    /\ AtWork' = IF Working(r)' THEN 1 ELSE 0
    BY <1>a DEF AtWork
  <1>d. ASSUME NEW r \in Runs, Working(r)', UNCHANGED faults
        PROVE  faults + AtWork <= faults' + AtWork'
    BY <1>b, <1>c, <1>d
  <1>1. ASSUME NEW r \in Runs, BeginCapture(r) PROVE LastInv'
    <2> SUFFICES ASSUME last # 0 PROVE LastInv'
      BY <1>1 DEF BeginCapture, LastInv
    <2>1. /\ ~Working(r) /\ Working(r)' /\ latest \in Nat /\ latest + 1 \in Gens /\ latest' = latest + 1
          /\ UNCHANGED <<index, last, faults>>
          /\ dir' = [dir EXCEPT ![latest + 1] = "partial"]
      BY <1>1, <1>a, Numbers DEF BeginCapture, Working, GenTypeOK, Run, Gens
    <2>2. AtWork = 0 /\ AtWork' = 1
      BY <2>1, <1>c
    <2>3. Newer(last)' \in SUBSET (Newer(last) \cup {latest + 1})
      BY <1>a, <2>1 DEF Newer, Present, GenTypeOK
    <2>4. IsFiniteSet(Newer(last)) /\ Cardinality(Newer(last)) \in Nat
      BY FewNewer, Finite
    <2>5. /\ IsFiniteSet(Newer(last) \cup {latest + 1})
          /\ Cardinality(Newer(last) \cup {latest + 1}) \in Nat
          /\ Cardinality(Newer(last) \cup {latest + 1}) <= Cardinality(Newer(last)) + 1
      <3>1. /\ IsFiniteSet(Newer(last) \cup {latest + 1})
            /\ Cardinality(Newer(last) \cup {latest + 1})
                 = IF latest + 1 \in Newer(last) THEN Cardinality(Newer(last))
                                                 ELSE Cardinality(Newer(last)) + 1
        BY <2>4, FS_AddElement
      <3>2. CASE latest + 1 \in Newer(last)
        BY <2>4, <3>1, <3>2
      <3>3. CASE latest + 1 \notin Newer(last)
        BY <2>4, <3>1, <3>3
      <3> QED
        BY <3>2, <3>3
    <2>6. /\ Cardinality(Newer(last)') \in Nat
          /\ Cardinality(Newer(last)') <= Cardinality(Newer(last) \cup {latest + 1})
      BY <2>3, <2>5, FS_Subset, FS_CardinalityType
    <2>7. /\ last <= latest /\ dir[last] = "signed" /\ Cardinality(index) >= Keep
          /\ Cardinality(Newer(last)) <= faults + AtWork
          /\ last \in Nat /\ last \in Gens
      BY FewNewer, Numbers DEF SoleInv, LastInv
    <2>8. Cardinality(Newer(last)') <= faults' + AtWork'
      BY <1>b, <2>1, <2>2, <2>4, <2>5, <2>6, <2>7
    <2>9. last' <= latest' /\ dir'[last] = "signed"
      BY <1>a, <2>1, <2>7 DEF GenTypeOK
    <2> QED
      BY <2>1, <2>7, <2>8, <2>9 DEF LastInv
  <1>2. ASSUME NEW r \in Runs, BackupFails(r) PROVE LastInv'
    BY <1>2 DEF BackupFails, LastInv
  <1>3. ASSUME NEW r \in Runs, CaptureFails(r) PROVE LastInv'
    <2>1. faults + AtWork <= faults' + AtWork'
      BY <1>3, <1>b, <1>c DEF CaptureFails
    <2> QED
      BY <1>3, <2>1, LastKept DEF CaptureFails, Present
  <1>4. ASSUME NEW r \in Runs, WriteMeta(r) PROVE LastInv'
    <2>1. MetaWritten(r)
      BY <1>4, NoGivingUp
    <2>2. Working(r)' /\ UNCHANGED faults
      BY <2>1, <1>a DEF MetaWritten, Working, Run, GenTypeOK
    <2>3. last # 0 => last # run[r].gen
      BY <2>1 DEF MetaWritten, SoleInv, AloneInv, LastInv, Early
    <2>4. /\ Present' \subseteq Present
          /\ last # 0 => dir'[last] = dir[last]
      BY <2>1, <2>3, <1>a, FewNewer DEF MetaWritten, Present, GenTypeOK
    <2> QED
      BY <2>1, <2>2, <2>4, <1>d, LastKept DEF MetaWritten
  <1>5. ASSUME NEW r \in Runs, PruneDirs(r) PROVE LastInv'
    <2>1. Working(r)' /\ UNCHANGED faults
      BY <1>5, <1>a DEF PruneDirs, Working, Run, GenTypeOK
    <2> QED
      BY <1>5, <2>1, <1>d, LastKept, PruneSpares DEF PruneDirs
  <1>6. ASSUME NEW r \in Runs, Sign(r) PROVE LastInv'
    <2>1. Signed(r)
      BY <1>6, NoGivingUp
    <2>2. Working(r)' /\ UNCHANGED faults
      BY <2>1, <1>a DEF Signed, Working, Run, GenTypeOK
    <2>3. last # 0 => last # run[r].gen
      BY <2>1 DEF Signed, SoleInv, AloneInv, LastInv, Early
    <2>4. /\ Present' \subseteq Present
          /\ last # 0 => dir'[last] = dir[last]
      BY <2>1, <2>3, <1>a, FewNewer DEF Signed, Present, GenTypeOK
    <2> QED
      BY <2>1, <2>2, <2>4, <1>d, LastKept DEF Signed
  <1>7. ASSUME NEW r \in Runs, RecordGeneration(r) PROVE LastInv'
    <2>1. Working(r)' /\ UNCHANGED faults
      BY <1>7, <1>a DEF RecordGeneration, Working, Run, GenTypeOK
    <2> QED
      BY <1>7, <2>1, <1>d, LastKept DEF RecordGeneration, Present
  <1>8. ASSUME NEW r \in Runs, RecordReplica(r) PROVE LastInv'
    <2>1. ReplicaRecorded(r)
      BY <1>8, NoGivingUp
    <2>2. Working(r)' /\ UNCHANGED faults
      BY <2>1, <1>a DEF ReplicaRecorded, Working, Run, GenTypeOK
    <2> QED
      BY <2>1, <2>2, <1>d, LastKept DEF ReplicaRecorded, Present
  <1>9. ASSUME NEW r \in Runs, PruneGenerationRecords(r) PROVE LastInv'
    <2>1. Working(r)' /\ UNCHANGED faults
      BY <1>9, <1>a DEF PruneGenerationRecords, Working, Run, GenTypeOK
    <2> QED
      BY <1>9, <2>1, <1>d, LastKept DEF PruneGenerationRecords, Present
  <1>10. ASSUME NEW r \in Runs, PrunePanics(r) PROVE LastInv'
    <2>1. Cardinality(index) \in Nat /\ Keep \in Nat
      BY <1>a, Finite, Numbers DEF GenTypeOK
    <2>2. last = 0
      BY <1>10, <2>1 DEF PrunePanics, SoleInv, LastInv
    <2> QED
      BY <1>10, <2>2 DEF PrunePanics, LastInv
  <1>11. ASSUME NEW r \in Runs, MarkBackupResult(r) PROVE LastInv'
    <2>1. /\ last' = latest /\ latest' = latest /\ dir' = dir /\ index' = index /\ latest \in Nat
          /\ dir[latest] = "signed" /\ Cardinality(index) >= Keep
      BY <1>11, <1>a, Numbers DEF MarkBackupResult, SoleInv, AloneInv, Working, Late, GenTypeOK
    <2>2. Newer(last)' = {}
      BY <2>1 DEF Newer, Present, SoleInv, GenInv, OwnGens
    <2>3. faults' \in Nat /\ AtWork' \in Nat
      BY <1>11, <1>b DEF MarkBackupResult, AtWork
    <2>4. Cardinality(Newer(last)') <= faults' + AtWork'
      BY <2>2, <2>3, FS_EmptySet
    <2> QED
      BY <2>1, <2>4 DEF LastInv
  <1>12. CASE Crash
    <2>1. faults + AtWork <= faults' + AtWork'
      <3>1. faults' = faults + 1 /\ AtWork' \in {0, 1}
        BY <1>12 DEF Crash, AtWork
      <3>2. PICK v \in {0, 1}, w \in {0, 1} : v = AtWork /\ w = AtWork'
        BY <1>b, <3>1
      <3>3. faults + v <= (faults + 1) + w
        BY <1>b
      <3> QED
        BY <3>1, <3>2, <3>3
    <2> QED
      BY <1>12, <2>1, LastKept DEF Crash, Present
  <1> QED
    BY <1>1, <1>2, <1>3, <1>4, <1>5, <1>6, <1>7, <1>8, <1>9, <1>10, <1>11, <1>12 DEF Next, Step

\* The generation a repository names as its last good one can be restored, for
\* every keep_per_repo above the number of captures that fail or are killed
\* and the one at work, if a second backup never begins beside the first:
\* prune counts directories in whatever state, and never reaches that far.
THEOREM LastGoodIsKept == ASSUME Sole PROVE Spec => []LastResultRestorable
  <1>1. Init => SoleInv
    BY InitGenInv DEF Init, SoleInv, AloneInv, LastInv, Working, Run, Early, Late
  <1>2. SoleInv /\ [Next]_vars => SoleInv'
    <2> SUFFICES ASSUME SoleInv, [Next]_vars PROVE SoleInv'
      OBVIOUS
    <2>1. CASE Next
      BY <2>1, NextGenType, NextOwnGens, NextSignedFirst, NextAlone, NextLast DEF SoleInv, GenInv
    <2>2. CASE UNCHANGED vars
      BY <2>2 DEF vars, SoleInv, GenInv, GenTypeOK, OwnGens, SignedFirst, AloneInv, LastInv,
         Working, Newer, Present, AtWork
    <2> QED
      BY <2>1, <2>2
  <1>3. SoleInv => LastResultRestorable
    BY DEF SoleInv, LastInv, LastResultRestorable, Restorable
  <1> QED
    BY <1>1, <1>2, <1>3, PTL DEF Spec

=============================================================================
