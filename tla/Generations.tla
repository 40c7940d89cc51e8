----------------------------- MODULE Generations -----------------------------
(***************************************************************************)
(* The immutable generations of one repository: the backup-repo job        *)
(* (Runner.backupRepository) captures the latest backup into a new         *)
(* directory (generation.CaptureSigned), removes the directories beyond    *)
(* keep_per_repo, indexes the generation in SQL, prunes the index in turn  *)
(* and marks the result on the repository row.                             *)
(*                                                                         *)
(* A generation is named by its time stamp; here by its place in that      *)
(* order.  Runs are executions of the job on the node: more than one at a  *)
(* time when a lease expires under a backup that is still at work.         *)
(***************************************************************************)
EXTENDS Naturals, FiniteSets

CONSTANTS
  Runs,       \* executions of the backup job that may overlap
  Keep,       \* generations.keep_per_repo
  MaxGens,    \* bound: captures begun
  MaxFaults   \* bound: captures that fail and processes that are killed

ASSUME GenerationsAssumption ==
  /\ Keep \in Nat \ {0}
  /\ MaxGens \in Nat
  /\ MaxFaults \in Nat

VARIABLES
  dir,      \* state of each generation directory
  latest,   \* stamp of the newest capture
  run,      \* phase and generation of each run
  index,    \* the generations table
  replicas, \* generations with a ready replica row of this node
  last,     \* last_generation_id of the repository row, 0 if empty
  faults    \* faults used up (bounded by MaxFaults)

vars == <<dir, latest, run, index, replicas, last, faults>>

Gens == 1 .. MaxGens

\* "partial": no generation.json; "unsigned": without a valid signature.
DirState == {"absent", "partial", "unsigned", "signed"}

Phase == {"idle", "capturing", "written", "pruned", "signed", "recorded", "replicated", "synced"}

GenTypeOK ==
  /\ dir \in [Gens -> DirState]
  /\ latest \in 0 .. MaxGens
  /\ run \in [Runs -> [phase : Phase, gen : 0 .. MaxGens]]
  /\ index \subseteq Gens
  /\ replicas \subseteq index
  /\ last \in 0 .. MaxGens
  /\ faults \in 0 .. MaxFaults

Run(p, g) == [phase |-> p, gen |-> g]

Init ==
  /\ dir = [g \in Gens |-> "absent"]
  /\ latest = 0
  /\ run = [r \in Runs |-> Run("idle", 0)]
  /\ index = {}
  /\ replicas = {}
  /\ last = 0
  /\ faults = 0

\* The members of S with fewer than n newer ones in S.
Newest(S, n) == {g \in S : Cardinality({h \in S : h > g}) < n}

Present == {g \in Gens : dir[g] # "absent"}

Restorable(g) == dir[g] = "signed"

-----------------------------------------------------------------------------
(* generation.CaptureSigned                                                *)

BeginCapture(r) ==
  /\ run[r].phase = "idle"
  /\ latest < MaxGens
  /\ latest' = latest + 1
  /\ dir' = [dir EXCEPT ![latest + 1] = "partial"]
  /\ run' = [run EXCEPT ![r] = Run("capturing", latest + 1)]
  /\ UNCHANGED <<index, replicas, last, faults>>

\* The backup itself fails, before there is anything to capture: the result
\* is marked, and with it the last generation forgotten.
BackupFails(r) ==
  /\ run[r].phase = "idle"
  /\ last # 0
  /\ last' = 0
  /\ UNCHANGED <<dir, latest, run, index, replicas, faults>>

WriteMeta(r) ==
  LET g == run[r].gen IN
  /\ run[r].phase = "capturing"
  /\ IF dir[g] = "absent"
       THEN /\ run' = [run EXCEPT ![r] = Run("idle", 0)]
            /\ UNCHANGED dir
       ELSE /\ run' = [run EXCEPT ![r] = Run("written", g)]
            /\ dir' = [dir EXCEPT ![g] = "unsigned"]
  /\ UNCHANGED <<latest, index, replicas, last, faults>>

\* A checksum that changed during the capture, a full disk: the directory is
\* left behind, and neither index nor result is written.
CaptureFails(r) ==
  /\ run[r].phase = "capturing"
  /\ faults < MaxFaults
  /\ faults' = faults + 1
  /\ run' = [run EXCEPT ![r] = Run("idle", 0)]
  /\ UNCHANGED <<dir, latest, index, replicas, last>>

\* Mutant: off by one.
PruneDirsOneMore(r) ==
  /\ run[r].phase = "written"
  /\ dir' = [g \in Gens |-> IF g \in Newest(Present, Keep - 1) THEN dir[g] ELSE "absent"]
  /\ run' = [run EXCEPT ![r] = Run("pruned", run[r].gen)]
  /\ UNCHANGED <<latest, index, replicas, last, faults>>

\* prune: the newest Keep directories stay, whatever their state.
PruneDirs(r) ==
  /\ run[r].phase = "written"
  /\ dir' = [g \in Gens |-> IF g \in Newest(Present, Keep) THEN dir[g] ELSE "absent"]
  /\ run' = [run EXCEPT ![r] = Run("pruned", run[r].gen)]
  /\ UNCHANGED <<latest, index, replicas, last, faults>>

Sign(r) ==
  LET g == run[r].gen IN
  /\ run[r].phase = "pruned"
  /\ IF dir[g] = "absent"
       THEN /\ run' = [run EXCEPT ![r] = Run("idle", 0)]
            /\ UNCHANGED dir
       ELSE /\ run' = [run EXCEPT ![r] = Run("signed", g)]
            /\ dir' = [dir EXCEPT ![g] = "signed"]
  /\ UNCHANGED <<latest, index, replicas, last, faults>>

-----------------------------------------------------------------------------
(* The index                                                               *)

\* Mutant: the generation is indexed before it is signed.
RecordGenerationEarly(r) ==
  /\ run[r].phase \in {"pruned", "signed"}
  /\ index' = index \cup {run[r].gen}
  /\ run' = [run EXCEPT ![r] = Run("recorded", run[r].gen)]
  /\ UNCHANGED <<dir, latest, replicas, last, faults>>

RecordGeneration(r) ==
  /\ run[r].phase = "signed"
  /\ index' = index \cup {run[r].gen}
  /\ run' = [run EXCEPT ![r] = Run("recorded", run[r].gen)]
  /\ UNCHANGED <<dir, latest, replicas, last, faults>>

\* The foreign key refuses a generation that has been pruned meanwhile.
RecordReplica(r) ==
  /\ run[r].phase = "recorded"
  /\ IF run[r].gen \in index
       THEN /\ replicas' = replicas \cup {run[r].gen}
            /\ run' = [run EXCEPT ![r] = Run("replicated", run[r].gen)]
       ELSE /\ run' = [run EXCEPT ![r] = Run("idle", 0)]
            /\ UNCHANGED replicas
  /\ UNCHANGED <<dir, latest, index, last, faults>>

\* PruneGenerationRecords, with the cascade to the replica rows.
PruneGenerationRecords(r) ==
  /\ run[r].phase = "replicated"
  /\ Cardinality(index) >= Keep
  /\ index' = Newest(index, Keep)
  /\ replicas' = replicas \cap Newest(index, Keep)
  /\ run' = [run EXCEPT ![r] = Run("synced", run[r].gen)]
  /\ UNCHANGED <<dir, latest, last, faults>>

\* ids[keep:] of a shorter list is out of range: the process ends.
PrunePanics(r) ==
  /\ run[r].phase = "replicated"
  /\ Cardinality(index) < Keep
  /\ run' = [q \in Runs |-> Run("idle", 0)]
  /\ UNCHANGED <<dir, latest, index, replicas, last, faults>>

MarkBackupResult(r) ==
  /\ run[r].phase = "synced"
  /\ last' = run[r].gen
  /\ run' = [run EXCEPT ![r] = Run("idle", 0)]
  /\ UNCHANGED <<dir, latest, index, replicas, faults>>

\* The process is killed between any two of these steps.
Crash ==
  /\ \E r \in Runs : run[r].phase # "idle"
  /\ faults < MaxFaults
  /\ faults' = faults + 1
  /\ run' = [q \in Runs |-> Run("idle", 0)]
  /\ UNCHANGED <<dir, latest, index, replicas, last>>

\* The steps of the program itself, without the faults around it.
Step(r) ==
  \/ WriteMeta(r)
  \/ PruneDirs(r)
  \/ Sign(r)
  \/ RecordGeneration(r)
  \/ RecordReplica(r)
  \/ PruneGenerationRecords(r)
  \/ PrunePanics(r)
  \/ MarkBackupResult(r)

Next ==
  \/ \E r \in Runs : BeginCapture(r) \/ BackupFails(r) \/ CaptureFails(r) \/ Step(r)
  \/ Crash

Spec == Init /\ [][Next]_vars

\* Jobs are leased again and again, and a run that has begun goes on until it
\* is done or cut off.
FairSpec == Spec /\ \A r \in Runs : WF_vars(BeginCapture(r)) /\ WF_vars(Step(r))

-----------------------------------------------------------------------------
(* Properties                                                              *)

\* Nothing half made is ever advertised: an indexed generation is whole and
\* signed, or has been removed by retention, but never a leftover of a capture
\* that was cut off.
NothingHalfMadeAdvertised ==
  \A g \in index : dir[g] \in {"signed", "absent"}

\* The generation a repository names as its last good one can be restored,
\* through the failed captures after it, as long as these and the capture at
\* work together are fewer than keep_per_repo: retention counts their
\* directories too, and runs before the new generation is signed.
LastResultRestorable == last # 0 => Restorable(last)

\* A generation that is recorded gets its result recorded too: the run goes
\* on to the end when nothing fails.
RecordedGetsResult ==
  \A r \in Runs, g \in Gens :
    run[r] = Run("recorded", g) ~> run[r] = Run("synced", g)

-----------------------------------------------------------------------------
(* The inductive invariants behind the safety properties                   *)

Early == {"capturing", "written", "pruned"}
Late == {"signed", "recorded", "replicated", "synced"}
Working(r) == run[r].phase # "idle"

\* Every run at work has a generation of its own, the newest when it began.
OwnGens ==
  /\ \A g \in Gens : g > latest => dir[g] = "absent" /\ g \notin index
  /\ \A r \in Runs : Working(r) => run[r].gen \in 1 .. latest
  /\ \A r, q \in Runs : Working(r) /\ Working(q) /\ run[r].gen = run[q].gen => r = q

\* A generation is indexed by a run that has signed it, and nobody touches the
\* directory afterwards but retention.
SignedFirst ==
  /\ \A r \in Runs : run[r].phase \in Early => run[r].gen \notin index
  /\ \A r \in Runs : run[r].phase \in Late => dir[run[r].gen] \in {"signed", "absent"}
  /\ \A g \in index : dir[g] \in {"signed", "absent"}

GenInv == GenTypeOK /\ OwnGens /\ SignedFirst

\* A run that is alone works on the newest generation, which its own retention
\* spares, on disk and in the index.
AloneInv ==
  \A r \in Runs :
    /\ Working(r) => run[r].gen = latest
    /\ run[r].phase \in Early => dir[run[r].gen] \in {"partial", "unsigned"}
    /\ run[r].phase \in Late => dir[run[r].gen] = "signed"
    /\ run[r].phase \in {"recorded", "replicated"} => run[r].gen \in index
    /\ run[r].phase = "synced" => Cardinality(index) >= Keep

\* Directories newer than g: retention removes g when there are Keep of them.
Newer(g) == {h \in Present : h > g}

AtWork == IF \E r \in Runs : Working(r) THEN 1 ELSE 0

\* Since the last result every directory is of a fault or of the run at work,
\* and the index has been full.
LastInv ==
  last # 0 =>
    /\ last <= latest
    /\ dir[last] = "signed"
    /\ Cardinality(index) >= Keep
    /\ Cardinality(Newer(last)) <= faults + AtWork

SoleInv == GenInv /\ AloneInv /\ LastInv

=============================================================================
