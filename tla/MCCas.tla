-------------------------------- MODULE MCCas --------------------------------
(***************************************************************************)
(* Instances of Cas: two payload files that may hold the same object.      *)
(***************************************************************************)
EXTENDS Cas

CONSTANTS p1, p2, o1, o2, c1
=============================================================================
