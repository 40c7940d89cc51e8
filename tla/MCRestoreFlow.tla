---------------------------- MODULE MCRestoreFlow ----------------------------
(***************************************************************************)
(* One approval that can be routed to two storage nodes, an agent on each, *)
(* two concurrent scheduling commands and two people who may both request  *)
(* and approve.                                                            *)
(***************************************************************************)
EXTENDS RestoreFlow, TLC

CONSTANTS nodeA, nodeB, e1, e2, onA, onB, req, ann, bob, s1, s2

NodeOf      == (e1 :> nodeA) @@ (e2 :> nodeB)
KeyAffinity == (onA :> nodeA) @@ (onB :> nodeB)
KeyPriority == (onA :> 1) @@ (onB :> 1)
KeyApproval == (onA :> req) @@ (onB :> req)
=============================================================================
