---------------------------- MODULE MCGenerations ----------------------------
(***************************************************************************)
(* Instances of Generations: one run at a time, that is a lease that       *)
(* outlasts the backup.                                                    *)
(***************************************************************************)
EXTENDS Generations, TLC

CONSTANTS r1, r2
=============================================================================
