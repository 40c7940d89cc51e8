------------------------------ MODULE MCBackup ------------------------------
(***************************************************************************)
(* Instances of Backup: one repository with bundles and LFS archives; one  *)
(* with the payloads that have sidecars, over two versions or with a job   *)
(* beside the run; and two repositories of one run, one with two branches. *)
(***************************************************************************)
EXTENDS Backup

CONSTANTS r1, r2

Archive == [repos |-> {r1}, branched |-> {}, pieces |-> {"lfs", "bundle"}, jobs |-> TRUE,
            kms |-> FALSE, versions |-> 2, packings |-> {1}, faults |-> 2]
Payloads == [Archive EXCEPT !.pieces = {"asset", "package", "artifact"}, !.jobs = FALSE]
Shared == [Payloads EXCEPT !.jobs = TRUE, !.versions = 1]
Pair == [repos |-> {r1, r2}, branched |-> {r2}, pieces |-> {"bundle"}, jobs |-> FALSE,
         kms |-> TRUE, versions |-> 1, packings |-> {1, 2}, faults |-> 2]

MCConfigs == {Archive, Payloads, Shared, Pair}
=============================================================================
