------------------------------ MODULE MCTransfer ------------------------------
(***************************************************************************)
(* Instances of Transfer: an uploading client with a small number of       *)
(* concurrent requests.                                                    *)
(***************************************************************************)
EXTENDS Transfer, TLC

CONSTANTS h1, h2

SlotSymmetry == Permutations(Slots)
=============================================================================
