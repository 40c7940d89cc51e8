------------------------------ MODULE MCShards ------------------------------
(***************************************************************************)
(* Instances of Shards: agents in failure domains of their own.            *)
(***************************************************************************)
EXTENDS Shards, TLC

CONSTANTS loc, a1, a2, d0, d1, d2

MCAgents == <<a1, a2>>
MCDomainOf == loc :> d0 @@ a1 :> d1 @@ a2 :> d2
MCStarts == {[includeLocal |-> TRUE, large |-> FALSE, holders |-> {loc}, damaged |-> {}],
             [includeLocal |-> FALSE, large |-> FALSE, holders |-> {a1}, damaged |-> {}],
             [includeLocal |-> FALSE, large |-> FALSE, holders |-> {a1, a2}, damaged |-> {a2}],
             [includeLocal |-> FALSE, large |-> TRUE, holders |-> {a1, a2}, damaged |-> {a2}]}
MCLocalStart == {[includeLocal |-> TRUE, large |-> FALSE, holders |-> {loc}, damaged |-> {}]}
MCLargeStart == {[includeLocal |-> FALSE, large |-> TRUE, holders |-> {a1}, damaged |-> {}]}
MCDomains == <<d0, d1, d2>>
=============================================================================
