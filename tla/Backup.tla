------------------------------- MODULE Backup -------------------------------
(***************************************************************************)
(* The backup root: the full run of the manager (Manager.Run) with its     *)
(* workers, the single-repository backup of a control-plane job            *)
(* (Manager.BackupRepository) that may run beside it in another process,   *)
(* the manifest with its signature and attestation, and what Verify,       *)
(* Restore, Drill, the policy and the daemon's cycle make of the result.   *)
(*                                                                         *)
(* Nothing locks the root, and a backup replaces its files one by one and  *)
(* the manifest last: the module is about what the readers accept when a   *)
(* process dies, is cancelled, fails or is overtaken between those steps.  *)
(*                                                                         *)
(* Contents are <<version, packing>>: git need not pack the same refs into *)
(* the same bytes twice.  A digest is the content it was computed from.    *)
(***************************************************************************)
EXTENDS Naturals, FiniteSets, Sequences

CONSTANTS
  Repos,        \* repositories of the account
  Configs,      \* configurations: listed repositories, those of several branches,
                \* pieces saved, jobs beside the run, KMS; and their bounds: versions
                \* of a repository, packings of a bundle, faults (failures, deaths,
                \* cancellations, rot, jobs)
  Concurrency,  \* backup.concurrency
  Sign,         \* security.sign_manifests
  RequireValid, \* security.kms_attestation.require_valid
  KeepManifests,\* backup.keep_manifests
  None

Pieces == {"lfs", "asset", "package", "artifact", "bundle"}

ASSUME BackupAssumption ==
  /\ Configs \subseteq [repos : SUBSET Repos, branched : SUBSET Repos, pieces : SUBSET Pieces,
                        jobs : BOOLEAN, kms : BOOLEAN,
                        versions : Nat \ {0}, packings : SUBSET {1, 2}, faults : Nat]
  /\ {Sign, RequireValid} \subseteq BOOLEAN
  /\ Concurrency \in Nat \ {0} /\ KeepManifests \in Nat

VARIABLES
  config,    \* the configuration in force
  upstream,  \* version of each repository at the provider
  withdrawn, \* what the provider no longer offers of it: an artifact that expired,
             \* a package version that was deleted
  mirror,    \* version of its mirror, 0 when there is none
  files,     \* its files under the root
  sums,      \* the digests on disk beside them: index entries and sidecars
  work,      \* what the run and the job are doing to each repository
  run,       \* the full run: phase, cancelled, results it will write
  latest,    \* manifests/latest.json
  sig,       \* latest.json.sig: none, over the present manifest, or stale
  attest,    \* latest.json.kms.json likewise
  dated,     \* dated manifests and attestations, oldest first
  report,    \* what the last full run returned
  disturbed, \* history: since the run began something else touched the root
  silent,    \* history: since the run began a write failed without a warning
  beside,    \* history: run and job once worked on one repository together
  faults     \* faults used up (bounded by config.faults)

rootVars == <<upstream, mirror, files, sums, work>>
manifestVars == <<latest, sig, attest, dated>>
history == <<disturbed, silent, beside>>
vars == <<config, withdrawn, rootVars, run, manifestVars, report, history, faults>>

Who == {"run", "job"}
Torn == <<0, 0>>
NoDigest == <<0, 1>> \* in a sidecar cut short, or an index that cannot be read
Contents == {None, Torn} \cup (Nat \X {1, 2})
Summed == {"asset", "package", "artifact"}
Offered == {"package", "artifact"}
Stages == {"idle", "sync", "lfs", "lfs.write", "lfs.rename", "lfs.hash", "asset", "asset.index",
           "package", "package.write", "package.sum", "package.fetched", "artifact", "artifact.sum",
           "bundle", "bundle.rename", "bundle.hash", "check", "done"}

Names == Pieces \cup {"lfs.tmp", "bundle.tmp"}
Entry == [ok : BOOLEAN, warned : BOOLEAN, lfs : Contents, bundle : Contents, asset : BOOLEAN]
Idle == [at |-> "idle", ok |-> TRUE, warned |-> FALSE, lfs |-> None, bundle |-> None,
         asset |-> FALSE, inode |-> "none"]
IsManifest(m) == \E S \in SUBSET Repos : m \in [S -> Entry]

\* What stands for a missing file, digest or manifest is none of these.
ASSUME NoneAssumption ==
  /\ None \notin {Torn} \cup (Nat \X {1, 2})
  /\ ~IsManifest(None)

NotRunning == [phase |-> "idle", cancelled |-> FALSE, left |-> {}, man |-> None]

BackupInit ==
  /\ config \in Configs
  /\ upstream = [r \in Repos |-> 1]
  /\ mirror = [r \in Repos |-> 0]
  /\ files = [r \in Repos |-> [f \in Names |-> None]]
  /\ withdrawn = [r \in Repos |-> {}]
  /\ sums = [r \in Repos |-> [f \in Summed |-> IF f = "asset" THEN NoDigest ELSE None]]
  /\ work = [p \in Who |-> [r \in Repos |-> Idle]]
  /\ run = NotRunning
  /\ latest = None /\ sig = "none" /\ attest = "none"
  /\ dated = <<>>
  /\ report = "none"
  /\ disturbed = FALSE /\ silent = FALSE /\ beside = FALSE
  /\ faults = 0

Fault == faults < config.faults /\ faults' = faults + 1

At(p, r, s) == work[p][r].at = s
Busy(p) == {r \in Repos : work[p][r].at \notin {"idle", "done"}}
Cancelled(p) == p = "run" /\ run.cancelled

\* The stage after piece i of Order that the configuration asks for.
Order == <<"lfs", "asset", "package", "artifact", "bundle", "check">>
After(i) ==
  LET js == {j \in (i + 1) .. Len(Order) : Order[j] \in config.pieces \cup {"check"}}
  IN Order[CHOOSE j \in js : \A k \in js : j <= k]

Goes(p, r, s) == work' = [work EXCEPT ![p][r].at = s]
Warns(p, r, s) == work' = [work EXCEPT ![p][r].at = s, ![p][r].warned = TRUE]
Put(r, f, c) == files' = [files EXCEPT ![r][f] = c]

-----------------------------------------------------------------------------
(* One repository: backupRepo, by a worker of the run or by a job          *)

Push(r) ==
  /\ upstream[r] < config.versions
  /\ upstream' = [upstream EXCEPT ![r] = @ + 1]
  /\ UNCHANGED <<config, withdrawn, mirror, files, sums, work, run, manifestVars, report, history, faults>>

\* An artifact expires, a package version is deleted.
Withdraw(r, f) ==
  /\ f \in config.pieces \cap Offered /\ f \notin withdrawn[r]
  /\ Fault
  /\ withdrawn' = [withdrawn EXCEPT ![r] = @ \cup {f}]
  /\ UNCHANGED <<config, rootVars, run, manifestVars, report, history>>

\* git clone --mirror or remote update.
Sync(p, r) ==
  /\ At(p, r, "sync") /\ ~Cancelled(p)
  /\ mirror' = [mirror EXCEPT ![r] = upstream[r]]
  /\ Goes(p, r, After(0))
  /\ UNCHANGED <<config, withdrawn, upstream, files, sums, run, manifestVars, report, history, faults>>

\* git lfs fetch fails without a word: there is no archive in the result.
FetchFails(p, r) ==
  /\ At(p, r, "lfs")
  /\ IF Cancelled(p) THEN UNCHANGED faults ELSE Fault
  /\ Goes(p, r, After(1))
  /\ UNCHANGED <<config, withdrawn, upstream, mirror, files, sums, run, manifestVars, report, history>>

\* Where an open archive is once the temporary name is removed, or renamed.
Unlinked(inode) == IF inode = "tmp" THEN "none" ELSE inode
Replaced(inode) == IF inode = "tmp" THEN "dst" ELSE "none"

\* A fresh temporary file; another writer's, unlinked, is no longer reachable.
ArchiveStart(p, r) ==
  /\ At(p, r, "lfs") /\ ~Cancelled(p)
  /\ Put(r, "lfs.tmp", Torn)
  /\ work' = [q \in Who |-> [work[q] EXCEPT ![r] =
       IF q = p THEN [@ EXCEPT !.at = "lfs.write", !.inode = "tmp"]
       ELSE [@ EXCEPT !.inode = Unlinked(work[q][r].inode)]]]
  /\ UNCHANGED <<config, withdrawn, upstream, mirror, sums, run, manifestVars, report, history, faults>>

\* The last bytes go to the inode this writer opened, wherever it now is.
ArchiveEnd(p, r) ==
  /\ At(p, r, "lfs.write")
  /\ files' = [files EXCEPT
       ![r]["lfs.tmp"] = IF work[p][r].inode = "tmp" THEN <<mirror[r], 1>> ELSE @,
       ![r]["lfs"] = IF work[p][r].inode = "dst" THEN <<mirror[r], 1>> ELSE @]
  /\ work' = [work EXCEPT ![p][r].at = "lfs.rename"]
  /\ UNCHANGED <<config, withdrawn, upstream, mirror, sums, run, manifestVars, report, history, faults>>

Failed(p, r) == work' = [work EXCEPT ![p][r].at = "done", ![p][r].ok = FALSE, ![p][r].inode = "none"]

ArchiveRename(p, r) ==
  /\ At(p, r, "lfs.rename")
  /\ \/ /\ files[r]["lfs.tmp"] = None
        /\ Failed(p, r)
        /\ UNCHANGED files
     \/ /\ files[r]["lfs.tmp"] # None
        /\ files' = [files EXCEPT ![r]["lfs"] = files[r]["lfs.tmp"], ![r]["lfs.tmp"] = None]
        /\ work' = [q \in Who |-> [work[q] EXCEPT ![r] =
             IF q = p THEN [@ EXCEPT !.at = "lfs.hash", !.inode = "none"]
             ELSE [@ EXCEPT !.inode = Replaced(work[q][r].inode)]]]
  /\ UNCHANGED <<config, withdrawn, upstream, mirror, sums, run, manifestVars, report, history, faults>>

ArchiveHash(p, r) ==
  /\ At(p, r, "lfs.hash")
  /\ work' = [work EXCEPT ![p][r].at = After(1), ![p][r].lfs = files[r]["lfs"]]
  /\ UNCHANGED <<config, withdrawn, upstream, mirror, files, sums, run, manifestVars, report, history, faults>>

\* Release assets and container images: downloaded to a
\* temporary file and renamed; the index is written after the last of them.
Asset(p, r) ==
  /\ At(p, r, "asset") /\ ~Cancelled(p)
  /\ Put(r, "asset", <<upstream[r], 1>>)
  /\ Goes(p, r, "asset.index")
  /\ UNCHANGED <<config, withdrawn, upstream, mirror, sums, run, manifestVars, report, history, faults>>

\* A failed download is a warning and an index entry without a digest.
AssetFails(p, r) ==
  /\ At(p, r, "asset")
  /\ IF Cancelled(p) THEN UNCHANGED faults ELSE Fault
  /\ sums' = [sums EXCEPT ![r].asset = None]
  /\ Warns(p, r, After(2))
  /\ UNCHANGED <<config, withdrawn, upstream, mirror, files, run, manifestVars, report, history>>

AssetIndex(p, r) ==
  /\ At(p, r, "asset.index")
  /\ sums' = [sums EXCEPT ![r].asset = files[r].asset]
  /\ work' = [work EXCEPT ![p][r].at = After(2), ![p][r].asset = TRUE]
  /\ UNCHANGED <<config, withdrawn, upstream, mirror, files, run, manifestVars, report, history, faults>>

\* A write whose error is dropped: what is there stays, or is cut short.
WriteLost(r, f) ==
  /\ Fault
  /\ \E d \in {sums[r][f], NoDigest} : sums' = [sums EXCEPT ![r][f] = d]
  /\ silent' = TRUE

AssetIndexLost(p, r) ==
  /\ At(p, r, "asset.index")
  /\ WriteLost(r, "asset")
  /\ work' = [work EXCEPT ![p][r].at = After(2), ![p][r].asset = TRUE]
  /\ UNCHANGED <<config, withdrawn, upstream, mirror, files, run, manifestVars, report, disturbed, beside>>

\* Discussions, the list of packages or of their versions cannot be had: a
\* warning, and the payloads that are known are saved all the same.
PlatformWarns(p, r) ==
  /\ At(p, r, "package") /\ ~work[p][r].warned
  /\ IF Cancelled(p) THEN UNCHANGED faults ELSE Fault
  /\ Warns(p, r, "package")
  /\ UNCHANGED <<config, withdrawn, upstream, mirror, files, sums, run, manifestVars, report, history>>

\* What is saved of a deleted version is no longer looked at.
PackageSkipped(p, r) ==
  /\ At(p, r, "package")
  /\ "package" \in withdrawn[r]
  /\ Goes(p, r, After(3))
  /\ UNCHANGED <<config, withdrawn, upstream, mirror, files, sums, run, manifestVars, report, history, faults>>

\* Maven and RubyGems payloads are copied over the old file in place.
PackageStart(p, r) ==
  /\ At(p, r, "package") /\ ~Cancelled(p) /\ "package" \notin withdrawn[r]
  /\ Put(r, "package", Torn)
  /\ Goes(p, r, "package.write")
  /\ UNCHANGED <<config, withdrawn, upstream, mirror, sums, run, manifestVars, report, history, faults>>

\* npm and NuGet payloads are downloaded to a temporary file and renamed.
PackageFetched(p, r) ==
  /\ At(p, r, "package") /\ ~Cancelled(p) /\ "package" \notin withdrawn[r]
  /\ Put(r, "package", <<upstream[r], 1>>)
  /\ Goes(p, r, "package.fetched")
  /\ UNCHANGED <<config, withdrawn, upstream, mirror, sums, run, manifestVars, report, history, faults>>

PackageFails(p, r) ==
  /\ At(p, r, "package") /\ "package" \notin withdrawn[r]
  /\ IF Cancelled(p) THEN UNCHANGED faults ELSE Fault
  /\ Warns(p, r, After(3))
  /\ UNCHANGED <<config, withdrawn, upstream, mirror, files, sums, run, manifestVars, report, history>>

PackageEnd(p, r) ==
  /\ At(p, r, "package.write")
  /\ Put(r, "package", <<upstream[r], 1>>)
  /\ Goes(p, r, "package.sum")
  /\ UNCHANGED <<config, withdrawn, upstream, mirror, sums, run, manifestVars, report, history, faults>>

\* copyFile fails, for want of space: the torn payload stays beside its old
\* sidecar, and the error goes to the index only, not to the warnings.
PackageBreaks(p, r) ==
  /\ At(p, r, "package.write")
  /\ Fault
  /\ Goes(p, r, After(3))
  /\ silent' = TRUE
  /\ UNCHANGED <<config, withdrawn, upstream, mirror, files, sums, run, manifestVars, report, disturbed, beside>>

\* Mutant: a sidecar that exists is kept.
PackageSumOnce(p, r) ==
  /\ At(p, r, "package.sum") \/ At(p, r, "package.fetched")
  /\ sums' = [sums EXCEPT ![r].package = IF @ = None THEN files[r].package ELSE @]
  /\ Goes(p, r, After(3))
  /\ UNCHANGED <<config, withdrawn, upstream, mirror, files, run, manifestVars, report, history, faults>>

PackageSum(p, r) ==
  /\ At(p, r, "package.sum") \/ At(p, r, "package.fetched")
  /\ sums' = [sums EXCEPT ![r].package = files[r].package]
  /\ Goes(p, r, After(3))
  /\ UNCHANGED <<config, withdrawn, upstream, mirror, files, run, manifestVars, report, history, faults>>

PackageSumLost(p, r) ==
  /\ At(p, r, "package.sum") \/ At(p, r, "package.fetched")
  /\ WriteLost(r, "package")
  /\ Goes(p, r, After(3))
  /\ UNCHANGED <<config, withdrawn, upstream, mirror, files, run, manifestVars, report, disturbed, beside>>

\* A payload over packages.max_bytes is removed again, with its sidecar.
PackageTooLarge(p, r) ==
  /\ At(p, r, "package.sum")
  /\ Fault
  /\ Put(r, "package", None)
  /\ sums' = [sums EXCEPT ![r].package = None]
  /\ Goes(p, r, After(3))
  /\ UNCHANGED <<config, withdrawn, upstream, mirror, run, manifestVars, report, history>>

\* Mutant: a sidecar is enough to keep the file.
ReusableUnread(r) == sums[r].artifact # None

\* An artifact never changes upstream: one that matches its sidecar is kept.
Reusable(r) == sums[r].artifact # None /\ files[r].artifact = sums[r].artifact

\* An expired artifact is passed over with an error in the index: nothing of it
\* is read, fetched or said.
Artifact(p, r) ==
  /\ At(p, r, "artifact")
  /\ \/ /\ "artifact" \in withdrawn[r] \/ Reusable(r)
        /\ Goes(p, r, After(4))
        /\ UNCHANGED files
     \/ /\ "artifact" \notin withdrawn[r] /\ ~Reusable(r) /\ ~Cancelled(p)
        /\ Put(r, "artifact", <<1, 1>>)
        /\ Goes(p, r, "artifact.sum")
  /\ UNCHANGED <<config, withdrawn, upstream, mirror, sums, run, manifestVars, report, history, faults>>

\* The list of the artifacts, or one of them, cannot be had.
ArtifactFails(p, r) ==
  /\ At(p, r, "artifact")
  /\ IF Cancelled(p) THEN UNCHANGED faults ELSE Fault
  /\ Warns(p, r, After(4))
  /\ UNCHANGED <<config, withdrawn, upstream, mirror, files, sums, run, manifestVars, report, history>>

ArtifactSum(p, r) ==
  /\ At(p, r, "artifact.sum")
  /\ sums' = [sums EXCEPT ![r].artifact = files[r].artifact]
  /\ Goes(p, r, After(4))
  /\ UNCHANGED <<config, withdrawn, upstream, mirror, files, run, manifestVars, report, history, faults>>

ArtifactSumLost(p, r) ==
  /\ At(p, r, "artifact.sum")
  /\ WriteLost(r, "artifact")
  /\ Goes(p, r, After(4))
  /\ UNCHANGED <<config, withdrawn, upstream, mirror, files, run, manifestVars, report, disturbed, beside>>

\* git writes the bundle under a lock file: its name appears complete.
BundleCreate(p, r) ==
  /\ At(p, r, "bundle") /\ ~Cancelled(p)
  /\ \E packing \in config.packings : Put(r, "bundle.tmp", <<mirror[r], packing>>)
  /\ Goes(p, r, "bundle.rename")
  /\ UNCHANGED <<config, withdrawn, upstream, mirror, sums, run, manifestVars, report, history, faults>>

BundleRename(p, r) ==
  /\ At(p, r, "bundle.rename")
  /\ \/ files[r]["bundle.tmp"] = None /\ Failed(p, r) /\ UNCHANGED files
     \/ /\ files[r]["bundle.tmp"] # None
        /\ files' = [files EXCEPT ![r]["bundle"] = files[r]["bundle.tmp"], ![r]["bundle.tmp"] = None]
        /\ Goes(p, r, "bundle.hash")
  /\ UNCHANGED <<config, withdrawn, upstream, mirror, sums, run, manifestVars, report, history, faults>>

BundleHash(p, r) ==
  /\ At(p, r, "bundle.hash")
  /\ work' = [work EXCEPT ![p][r].at = "check", ![p][r].bundle = files[r].bundle]
  /\ UNCHANGED <<config, withdrawn, upstream, mirror, files, sums, run, manifestVars, report, history, faults>>

\* verify_after_backup: git fsck of the mirror, git bundle verify.
Check(p, r) ==
  /\ At(p, r, "check") /\ ~Cancelled(p)
  /\ IF work[p][r].bundle # None /\ files[r].bundle = Torn THEN Failed(p, r) ELSE Goes(p, r, "done")
  /\ UNCHANGED <<config, withdrawn, upstream, mirror, files, sums, run, manifestVars, report, history, faults>>

\* A command fails, or is cut off by the cancelled context: the result has an
\* error.  So it does when the metadata, which precede the assets, cannot be had.
CommandFails(p, r) ==
  /\ \E s \in {"sync", "asset", "bundle", "check"} : At(p, r, s)
  /\ IF Cancelled(p) THEN UNCHANGED faults ELSE Fault
  /\ Failed(p, r)
  /\ UNCHANGED <<config, withdrawn, upstream, mirror, files, sums, run, manifestVars, report, history>>

BackupRepo(p, r) ==
  \/ Sync(p, r)
  \/ ArchiveStart(p, r) \/ ArchiveEnd(p, r) \/ ArchiveRename(p, r) \/ ArchiveHash(p, r)
  \/ Asset(p, r) \/ AssetIndex(p, r)
  \/ PackageSkipped(p, r) \/ PackageStart(p, r) \/ PackageFetched(p, r)
  \/ PackageEnd(p, r) \/ PackageSum(p, r)
  \/ Artifact(p, r) \/ ArtifactSum(p, r)
  \/ BundleCreate(p, r) \/ BundleRename(p, r) \/ BundleHash(p, r)
  \/ Check(p, r)

RepoFails(p, r) ==
  \/ FetchFails(p, r) \/ AssetFails(p, r) \/ PackageFails(p, r) \/ PackageBreaks(p, r)
  \/ PackageTooLarge(p, r) \/ PlatformWarns(p, r) \/ ArtifactFails(p, r) \/ CommandFails(p, r)
  \/ AssetIndexLost(p, r) \/ PackageSumLost(p, r) \/ ArtifactSumLost(p, r)

-----------------------------------------------------------------------------
(* The job: BackupRepository, beside whatever else runs                    *)

\* It writes no manifest: latest.json is left as it was.
JobStarts(r) ==
  /\ config.jobs /\ r \in config.repos
  /\ Busy("job") = {}
  /\ Fault
  /\ work' = [work EXCEPT !["job"][r] = [Idle EXCEPT !.at = "sync"]]
  /\ disturbed' = TRUE
  /\ beside' = (beside \/ r \in Busy("run"))
  /\ UNCHANGED <<config, withdrawn, upstream, mirror, files, sums, run, manifestVars, report, silent>>

JobEnds(r) ==
  /\ At("job", r, "done")
  /\ work' = [work EXCEPT !["job"][r] = Idle]
  /\ UNCHANGED <<config, withdrawn, upstream, mirror, files, sums, run, manifestVars, report, history, faults>>

-----------------------------------------------------------------------------
(* The full run                                                            *)

RunStarts ==
  /\ run.phase = "idle"
  /\ run' = [NotRunning EXCEPT !.phase = "repos", !.left = config.repos]
  /\ report' = "none"
  /\ disturbed' = (Busy("job") # {})
  /\ silent' = FALSE
  /\ UNCHANGED <<config, withdrawn, rootVars, manifestVars, beside, faults>>

\* The feeder hands a repository to a free worker until the context is cancelled.
Feed(r) ==
  /\ run.phase = "repos" /\ r \in run.left /\ ~run.cancelled
  /\ Cardinality(Busy("run")) < Concurrency
  /\ run' = [run EXCEPT !.left = @ \ {r}]
  /\ Goes("run", r, "sync")
  /\ beside' = (beside \/ r \in Busy("job"))
  /\ UNCHANGED <<config, withdrawn, upstream, mirror, files, sums, manifestVars, report, disturbed, silent, faults>>

Cancel ==
  /\ run.phase = "repos" /\ ~run.cancelled
  /\ Fault
  /\ run' = [run EXCEPT !.cancelled = TRUE]
  /\ UNCHANGED <<config, withdrawn, rootVars, manifestVars, report, history>>

Results == [r \in {r \in Repos : At("run", r, "done")} |->
              [ok |-> work["run"][r].ok, warned |-> work["run"][r].warned, lfs |-> work["run"][r].lfs,
               bundle |-> work["run"][r].bundle, asset |-> work["run"][r].asset]]

\* Mutant: only what succeeded is listed.
CollectSuccesses ==
  /\ run.phase = "repos" /\ (run.left = {} \/ run.cancelled) /\ Busy("run") = {}
  /\ run' = [run EXCEPT !.phase = "latest",
                        !.man = [r \in {s \in DOMAIN Results : Results[s].ok} |-> Results[r]]]
  /\ dated' = Append(dated, "manifest")
  /\ work' = [work EXCEPT !["run"] = [r \in Repos |-> Idle]]
  /\ UNCHANGED <<config, withdrawn, upstream, mirror, files, sums, latest, sig, attest, report, history, faults>>

\* Every worker is done: the manifest has what came back, and its dated copy is written.
Collect ==
  /\ run.phase = "repos" /\ (run.left = {} \/ run.cancelled) /\ Busy("run") = {}
  /\ run' = [run EXCEPT !.phase = "latest", !.man = Results]
  /\ dated' = Append(dated, "manifest")
  /\ work' = [work EXCEPT !["run"] = [r \in Repos |-> Idle]]
  /\ UNCHANGED <<config, withdrawn, upstream, mirror, files, sums, latest, sig, attest, report, history, faults>>

Outdated(s) == IF s = "none" THEN "none" ELSE "stale"

WriteLatest ==
  /\ run.phase = "latest"
  /\ latest' = run.man
  /\ sig' = Outdated(sig)
  /\ attest' = Outdated(attest)
  /\ run' = [run EXCEPT !.phase = IF Sign THEN "sig" ELSE "prune"]
  /\ UNCHANGED <<config, withdrawn, rootVars, dated, report, history, faults>>

WriteSig ==
  /\ run.phase = "sig"
  /\ sig' = "match"
  /\ run' = [run EXCEPT !.phase = "prune"]
  /\ UNCHANGED <<config, withdrawn, rootVars, latest, attest, dated, report, history, faults>>

\* Prune keeps the last names; latest.json.kms.json counts as one and sorts last.
Kept ==
  LET room == KeepManifests - (IF attest = "none" THEN 0 ELSE 1)
  IN IF Len(dated) <= room THEN dated ELSE SubSeq(dated, Len(dated) - room + 1, Len(dated))

PruneManifests ==
  /\ run.phase = "prune"
  /\ dated' = IF KeepManifests = 0 THEN dated ELSE Kept
  /\ run' = [run EXCEPT !.phase = IF config.kms THEN "attest" ELSE "end"]
  /\ UNCHANGED <<config, withdrawn, rootVars, latest, sig, attest, report, history, faults>>

\* KMS signs latest.json and then, if it is still there, the dated manifest.
Attest ==
  /\ run.phase = "attest"
  /\ attest' = "match"
  /\ dated' = IF dated # <<>> /\ dated[Len(dated)] = "manifest" THEN Append(dated, "attest") ELSE dated
  /\ run' = [run EXCEPT !.phase = "end"]
  /\ UNCHANGED <<config, withdrawn, rootVars, latest, sig, report, history, faults>>

\* Without require_valid a failed attestation is only logged.
AttestFails ==
  /\ run.phase = "attest"
  /\ Fault
  /\ run' = IF RequireValid THEN NotRunning ELSE [run EXCEPT !.phase = "end"]
  /\ report' = IF RequireValid THEN "error" ELSE report
  /\ UNCHANGED <<config, withdrawn, rootVars, manifestVars, history>>

\* Mutant: the count of failures is not turned into an error.
SucceedsUnlessCancelled == ~run.cancelled

Succeeds == ~run.cancelled /\ \A r \in DOMAIN run.man : run.man[r].ok

RunEnds ==
  /\ run.phase = "end"
  /\ report' = IF ~Succeeds THEN "error"
               ELSE IF \E r \in DOMAIN run.man : run.man[r].warned THEN "warnings" ELSE "ok"
  /\ run' = IF Succeeds THEN [NotRunning EXCEPT !.phase = "drill"] ELSE NotRunning
  /\ UNCHANGED <<config, withdrawn, rootVars, manifestVars, history, faults>>

-----------------------------------------------------------------------------
(* The readers                                                             *)

Genuine == (Sign \/ sig # "none") => sig = "match"
Attested == config.kms => attest = "match"

\* A sidecar is there only beside what it is the digest of.
SidecarMatches(r, f) == sums[r][f] # None => files[r][f] = sums[r][f]

SidecarsMatch == \A r \in Repos, f \in Offered : SidecarMatches(r, f)

\* Mutant: the checksum of an archive is not compared.
EntryVerifiesBundle(r) ==
  LET e == latest[r] IN
  /\ mirror[r] # 0
  /\ e.bundle # None => files[r].bundle = e.bundle /\ e.bundle # Torn
  /\ e.lfs # None => files[r].lfs # None
  /\ e.asset => (sums[r].asset # None => files[r].asset = sums[r].asset)

EntryVerifies(r) ==
  LET e == latest[r] IN
  /\ mirror[r] # 0
  /\ e.bundle # None => files[r].bundle = e.bundle /\ e.bundle # Torn
  /\ e.lfs # None => files[r].lfs = e.lfs
  /\ e.asset => (sums[r].asset # None => files[r].asset = sums[r].asset)

\* Manager.Verify returns no error.
Verifies ==
  /\ latest # None
  /\ Genuine /\ Attested
  /\ \A r \in DOMAIN latest : EntryVerifies(r)
  /\ SidecarsMatch

\* Manager.Restore of a repository into a fresh target returns no error.
Restores(r) ==
  /\ latest # None /\ r \in DOMAIN latest
  /\ LET e == latest[r] IN
     /\ IF e.bundle # None THEN files[r].bundle = e.bundle /\ e.bundle # Torn ELSE mirror[r] # 0
     /\ e.lfs # None => files[r].lfs = e.lfs /\ e.lfs # Torn

\* The version that a restore delivers, and the refs: a plain clone has one
\* branch under refs/heads, that of HEAD.
RestoredVersion(r) == IF latest[r].bundle # None THEN latest[r].bundle[1] ELSE mirror[r]
RestoredRefs(r) == {RestoredVersion(r)} \X {"HEAD"}
MirrorRefs(r) == {mirror[r]} \X (IF r \in config.branched THEN {"HEAD", "branch"} ELSE {"HEAD"})

\* With verify_refs, which is the default.
DrillPasses(r) == Restores(r) /\ RestoredRefs(r) = MirrorRefs(r)

\* The daemon drills after a run without error, and ships offsite after the drill.
\* The sample is any of the repositories the manifest lists without an error.
Drill ==
  /\ run.phase = "drill"
  /\ latest # None
  /\ LET candidates == {r \in DOMAIN latest : latest[r].ok} IN
     \/ /\ candidates # {} /\ (sig # "none" => sig = "match") /\ Attested
        /\ \E r \in candidates :
             run' = IF DrillPasses(r) THEN [run EXCEPT !.phase = "ship"] ELSE NotRunning
     \/ /\ candidates = {} \/ sig = "stale" \/ ~Attested
        /\ run' = NotRunning
  /\ UNCHANGED <<config, withdrawn, rootVars, manifestVars, report, history, faults>>

Ship ==
  /\ run.phase = "ship"
  /\ run' = NotRunning
  /\ UNCHANGED <<config, withdrawn, rootVars, manifestVars, report, history, faults>>

-----------------------------------------------------------------------------
(* Death and decay                                                         *)

Dies(p) ==
  /\ Busy(p) # {} \/ (p = "run" /\ run.phase # "idle")
  /\ Fault
  /\ work' = [work EXCEPT ![p] = [r \in Repos |-> Idle]]
  /\ run' = IF p = "run" THEN NotRunning ELSE run
  /\ disturbed' = TRUE
  /\ UNCHANGED <<config, withdrawn, upstream, mirror, files, sums, manifestVars, report, silent, beside>>

\* Files rot at rest, not between a rename and the digest that follows it.
Rot(r, f) ==
  /\ files[r][f] \notin {None, Torn}
  /\ r \notin Busy("run") \cup Busy("job")
  /\ Fault
  /\ Put(r, f, Torn)
  /\ disturbed' = TRUE
  /\ UNCHANGED <<config, withdrawn, upstream, mirror, sums, work, run, manifestVars, report, silent, beside>>

-----------------------------------------------------------------------------

RunStep ==
  \/ RunStarts \/ Collect \/ WriteLatest \/ WriteSig \/ PruneManifests \/ Attest \/ RunEnds
  \/ Drill \/ Ship
  \/ \E r \in Repos : Feed(r) \/ BackupRepo("run", r) \/ (run.cancelled /\ RepoFails("run", r))

BackupNext ==
  \/ RunStep
  \/ Cancel \/ AttestFails
  \/ \E r \in Repos : JobStarts(r) \/ JobEnds(r) \/ BackupRepo("job", r) \/ Push(r)
  \/ \E p \in Who, r \in Repos : RepoFails(p, r)
  \/ \E p \in Who : Dies(p)
  \/ \E r \in Repos, f \in Offered : Withdraw(r, f)
  \/ \E r \in Repos, f \in Pieces : Rot(r, f)

\* The daemon starts a run at every tick and a run that is not killed goes on.
BackupSpec == BackupInit /\ [][BackupNext]_vars /\ WF_vars(RunStep)

-----------------------------------------------------------------------------
(* Properties                                                              *)

Work == [at : Stages, ok : BOOLEAN, warned : BOOLEAN, lfs : Contents, bundle : Contents,
         asset : BOOLEAN, inode : {"none", "tmp", "dst"}]
Phases == {"idle", "repos", "latest", "sig", "prune", "attest", "end", "drill", "ship"}

\* The root, the manifest and the processes at work on them, as backupRepo,
\* Run and manifest.write leave them.
BackupTypeOK ==
  /\ config \in Configs
  /\ upstream \in [Repos -> Nat \ {0}]
  /\ withdrawn \in [Repos -> SUBSET Offered]
  /\ mirror \in [Repos -> Nat]
  /\ files \in [Repos -> [Names -> Contents]]
  /\ sums \in [Repos -> [Summed -> Contents]]
  /\ work \in [Who -> [Repos -> Work]]
  /\ run = [phase |-> run.phase, cancelled |-> run.cancelled, left |-> run.left, man |-> run.man]
  /\ run.phase \in Phases /\ run.cancelled \in BOOLEAN /\ run.left \subseteq config.repos
  /\ latest = None \/ IsManifest(latest)
  /\ {sig, attest} \subseteq {"none", "match", "stale"}
  /\ dated \in Seq({"manifest", "attest"})
  /\ report \in {"none", "ok", "warnings", "error"}
  /\ {disturbed, silent, beside} \subseteq BOOLEAN

\* The newest name besides attestations is a dated manifest.
DatedLast == \E i \in DOMAIN dated :
  dated[i] = "manifest" /\ \A j \in DOMAIN dated : j > i => dated[j] = "attest"

\* Payloads whose sidecar refuses them and which no run will fetch again.
Abandoned == {x \in Repos \X Offered : x[2] \in withdrawn[x[1]] /\ ~SidecarMatches(x[1], x[2])}

\* A run that returned neither error nor warning, with nothing beside or after
\* it and no write that failed without a word, left a root from which every
\* listed repository is restored at the version mirrored, with its dated
\* manifest; and Verify accepts the root (digests, indexes, sidecars, signature
\* and attestation belong to the files that are there) but for abandoned payloads.
ReportTrue ==
  report = "ok" /\ ~disturbed /\ ~silent /\ run.phase \in {"idle", "drill", "ship"} =>
     /\ Abandoned # {} \/ Verifies
     /\ \A r \in config.repos : Restores(r) /\ RestoredVersion(r) = mirror[r]
     /\ DatedLast

\* The same, whatever failed without a word (BackupUnsaid).
ReportComplete ==
  report = "ok" /\ ~disturbed /\ run.phase \in {"idle", "drill", "ship"} =>
     Abandoned # {} \/ Verifies

\* docs/RECOVERY_DRILLS.md: a drill restores and compares branch and tag refs
\* with the mirror; of what an undisturbed run saved it passes (BackupDrill).
DrillAgrees ==
  report = "ok" /\ ~disturbed /\ ~silent /\ run.phase = "drill" =>
     \A r \in config.repos : DrillPasses(r)

\* What Verify accepts, Restore can deliver, even when runs died, failed,
\* were cancelled or files rotted, as long as no job archived a repository
\* while the run did.
VerifyHonest == ~beside /\ Verifies => \A r \in DOMAIN latest : Restores(r)

\* The daemon ships a set that verifies, unless something changed the root
\* beside the cycle, a write failed without a word, the run left a payload as it
\* was, with a warning, or a payload is abandoned.
ShippedSound ==
  run.phase = "ship" =>
    disturbed \/ silent \/ report = "warnings" \/ Abandoned # {} \/ Verifies

\* A repository leaves the latest manifest only by a cancelled run: a failed
\* one stays listed, with its error (Run's collection of results).
NothingForgotten ==
  [][latest # None /\ latest' # latest => DOMAIN latest \subseteq DOMAIN latest' \/ run.cancelled]_vars

\* A run without error or warning has saved every piece it was asked for:
\* no failure disappears (the LFS fetch, the wiki).
FailuresSurface ==
  report = "ok" /\ ~disturbed /\ run.phase = "drill" /\ "lfs" \in config.pieces =>
     \A r \in config.repos : latest[r].lfs # None

\* Whatever died between bundle, manifest, signature and attestation, whatever
\* write was lost, and whatever rotted beside its digest, is made good: the set
\* verifies again and again, unless a payload that is no longer offered was
\* among it.
VerifiesAgain == []<>(Verifies \/ Abandoned # {})

\* The same of every payload (BackupExpired).
VerifiesAlways == []<>Verifies

-----------------------------------------------------------------------------
(* Why the readers can trust the root: the inductive invariant             *)

Free(p, r) == work[p][r].at \in {"idle", "done"}

\* Only listed repositories are worked on, only the pieces asked for, and a
\* sidecar exists only of such a piece.
InScope(p, r) ==
  /\ work[p][r].at = "idle" => work[p][r] = Idle
  /\ work[p][r].at # "idle" => r \in config.repos
  /\ work[p][r].at \in {"package", "package.write", "package.sum", "package.fetched"}
       => "package" \in config.pieces
  /\ work[p][r].at \in {"artifact", "artifact.sum"} => "artifact" \in config.pieces

SumsInScope(r) ==
  \A f \in Offered : sums[r][f] # None => r \in config.repos /\ f \in config.pieces

Scoped == \A r \in Repos : SumsInScope(r) /\ \A p \in Who : InScope(p, r)

\* What the histories say of the present: no job runs in an undisturbed root,
\* and nobody shares a repository that nobody ever shared.
Apart ==
  \A r \in Repos :
    /\ ~disturbed => Free("job", r)
    /\ ~beside => Free("run", r) \/ Free("job", r)

\* p has its repository's temporary and finished archive to itself.
Alone(p) == ~beside \/ (p = "run" /\ ~disturbed)

\* Then it writes the inode it created, renames it when it is complete and
\* takes the digest of a complete archive.
Archived(p, r) ==
  /\ At(p, r, "lfs.write") => work[p][r].inode = "tmp"
  /\ At(p, r, "lfs.rename") => files[r]["lfs.tmp"] \notin {None, Torn}
  /\ At(p, r, "lfs.hash") => files[r]["lfs"] \notin {None, Torn}
  /\ work[p][r].lfs # Torn

Archives == \A p \in Who, r \in Repos : Alone(p) => Archived(p, r)

\* The digests of a result are those of the files.
Matches(r, e) ==
  /\ e.lfs # None => files[r].lfs = e.lfs
  /\ e.bundle # None => files[r].bundle = e.bundle /\ e.bundle \in {mirror[r]} \X {1, 2}
  /\ e.asset => sums[r].asset = files[r].asset

PastArtifact == {"bundle", "bundle.rename", "bundle.hash", "check", "done"}
PastPackage == {"artifact", "artifact.sum"} \cup PastArtifact

\* A payload that is as its sidecar says, or that is no longer saved.
Settled(r, f) == SidecarMatches(r, f) \/ f \in withdrawn[r]

\* A repository of the run between two steps, while nothing failed or warned.
Saving(r) ==
  LET w == work["run"][r] IN
  /\ Matches(r, w)
  /\ w.at \in {"sync", "lfs", "lfs.write", "lfs.rename", "lfs.hash"} => w.lfs = None
  /\ w.at \notin {"check", "done"} => w.bundle = None
  /\ w.asset => w.at \notin {"sync", "lfs", "lfs.write", "lfs.rename", "lfs.hash", "asset", "asset.index"}
  /\ w.at # "sync" => mirror[r] # 0
  /\ w.at = "bundle.rename" => files[r]["bundle.tmp"] \in {mirror[r]} \X {1, 2}
  /\ w.at = "bundle.hash" => files[r].bundle \in {mirror[r]} \X {1, 2}
  /\ w.at \in PastPackage => Settled(r, "package")
  /\ w.at \in PastArtifact => Settled(r, "artifact")

\* A finished result without error or warning is what is on disk.
Sound(r, e) ==
  /\ Matches(r, e)
  /\ e.lfs # Torn
  /\ mirror[r] # 0
  /\ Settled(r, "package") /\ Settled(r, "artifact")

Clean(e) == e.ok /\ ~e.warned

Saved == ~disturbed /\ ~silent /\ run.phase = "repos" =>
  \A r \in Repos : ~At("run", r, "idle") /\ Clean(work["run"][r]) => Saving(r)

\* The feeder hands out every listed repository once.
Fed ==
  \A r \in Repos : At("run", r, "idle") <=>
    run.phase # "repos" \/ r \in run.left \/ r \notin config.repos

\* m lists what a run was to save, and says of it what is on disk.
Listed(m) ==
  /\ IsManifest(m) /\ DOMAIN m \subseteq config.repos
  /\ ~beside => \A r \in DOMAIN m : m[r].lfs # Torn

Writing == {"latest", "sig", "prune", "attest", "end"}

Written ==
  /\ run.phase \in Writing =>
       /\ Listed(run.man)
       /\ run.cancelled \/ DOMAIN run.man = config.repos
       /\ ~disturbed /\ ~silent => \A r \in DOMAIN run.man : Clean(run.man[r]) => Sound(r, run.man[r])
  /\ run.phase \in Writing \ {"latest"} => latest = run.man
  /\ latest # None => Listed(latest)
  /\ run.phase \in {"prune", "attest", "end"} => Genuine
  /\ ~Sign => sig = "none" /\ run.phase # "sig"

\* What a run without error or warning left, until something touches it.
Reported ==
  /\ report = "ok" /\ ~disturbed /\ ~silent /\ run.phase \in {"idle", "drill", "ship"} =>
       /\ latest # None /\ DOMAIN latest = config.repos /\ Genuine
       /\ \A r \in DOMAIN latest : Sound(r, latest[r])
  /\ run.phase \in {"drill", "ship"} => report \in {"ok", "warnings"}
  /\ run.phase = "ship" => Attested

BackupInv ==
  /\ BackupTypeOK /\ Scoped /\ Apart
  /\ Archives /\ Saved /\ Fed /\ Written /\ Reported

\* Verify demands the attestation whenever KMS is configured, but without
\* require_valid a run whose attestation failed is a success; and Prune, for
\* which the attestation of latest.json is one more manifest, keeps none of
\* the dated ones when it is to keep one.
Strict == \A c \in Configs : c.kms => RequireValid /\ KeepManifests # 1

\* Then, from the write of the dated manifest to the end of the run, Prune keeps
\* that manifest and Attest leaves an attestation of it.
DatedInv ==
  /\ run.phase \in {"latest", "sig", "prune", "attest"} => dated # <<>> /\ dated[Len(dated)] = "manifest"
  /\ run.phase = "end" => DatedLast /\ Attested
  /\ run.phase = "attest" => config.kms
  /\ ~config.kms => attest = "none"
  /\ report = "ok" /\ ~disturbed /\ ~silent /\ run.phase \in {"idle", "drill", "ship"}
       => DatedLast /\ Attested
=============================================================================
