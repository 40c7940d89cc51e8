------------------------------ MODULE MCConsole ------------------------------
(***************************************************************************)
(* "NoPage" lets other clients send the requests, so that nobody follows   *)
(* the event stream; "OnePage" lets one browser send them and follow.      *)
(***************************************************************************)
EXTENDS Console, TLC

CONSTANTS r1, r2, c1, p1, b1

NoPage  == [r \in Requests |-> NoOne]
OnePage == [r \in Requests |-> b1]
=============================================================================
