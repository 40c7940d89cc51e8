----------------------------- MODULE MCPlacement -----------------------------
(***************************************************************************)
(* Instances of Placement: the control-plane host and two agents of one    *)
(* failure domain.                                                         *)
(***************************************************************************)
EXTENDS Placement, TLC

CONSTANTS loc, a1, a2, dl, d1

MCRank == loc :> 0 @@ a1 :> 1 @@ a2 :> 2
MCDomainOf == loc :> dl @@ a1 :> d1 @@ a2 :> d1
=============================================================================
