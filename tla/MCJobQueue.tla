----------------------------- MODULE MCJobQueue -----------------------------
(***************************************************************************)
(* Instances of JobQueue: "agents" gives every executor an identity of its *)
(* own, "pool" adds two goroutines that share the local one.  "bound" work *)
(* is tied to the storage node a, "free" work to none.                     *)
(***************************************************************************)
EXTENDS JobQueue, TLC

CONSTANTS a, b, e1, e2, e3, free, bound

AgentsOwnerOf == (e1 :> a) @@ (e2 :> b)
PoolOwnerOf   == (e1 :> a) @@ (e2 :> a) @@ (e3 :> b)
KeyAffinity   == (free :> NoOwner) @@ (bound :> a)
KeyPriority   == (free :> 1) @@ (bound :> 2)
=============================================================================
