------------------------------- MODULE Copies -------------------------------
(***************************************************************************)
(* What replication promises of the generations of one repository, without *)
(* saying how: a generation is made once, on one node; every other copy of *)
(* it is made from a copy; a node drops a copy only to keep newer ones;    *)
(* and only the relay may forget what passes through it.                   *)
(***************************************************************************)
EXTENDS Naturals, FiniteSets

CONSTANTS
  Holders,  \* the nodes, and the relay
  Relay,    \* the spool of the control plane
  Stamps,   \* generations, by their place in the order of creation
  Retained  \* generations a node retains

VARIABLES
  copies, \* generation -> its holders
  newest  \* the newest generation made, 0 if none

copiesVars == <<copies, newest>>

CopiesInit == newest = 0 /\ copies = [g \in Stamps |-> {}]

Held(n) == {g \in Stamps : n \in copies[g]}

\* n makes the next generation, and drops old ones.
Make(n) ==
  /\ n # Relay
  /\ newest + 1 \in Stamps
  /\ newest' = newest + 1
  /\ \E dropped \in SUBSET Held(n) :
       /\ \A g \in dropped : Cardinality((Held(n) \ dropped) \cup {newest + 1}) >= Retained
       /\ \A g \in dropped, h \in Held(n) \ dropped : g < h
       /\ copies' = [g \in Stamps |-> IF g = newest + 1 THEN {n}
                                      ELSE IF g \in dropped THEN copies[g] \ {n} ELSE copies[g]]

\* t obtains g from whoever has it.
Copy(g, t) ==
  /\ copies[g] # {}
  /\ copies' = [copies EXCEPT ![g] = @ \cup {t}]
  /\ UNCHANGED newest

\* The relay hands a generation over and forgets it, or forgets it.
Relayed(g, t) ==
  /\ Relay \in copies[g]
  /\ copies' = [copies EXCEPT ![g] = (@ \ {Relay}) \cup ({t} \ {Relay})]
  /\ UNCHANGED newest

CopiesNext == \/ \E n \in Holders : Make(n)
              \/ \E g \in Stamps, t \in Holders : Copy(g, t) \/ Relayed(g, t)

CopiesSpec == CopiesInit /\ [][CopiesNext]_copiesVars

=============================================================================
