------------------------------ MODULE MCGateway ------------------------------
(* Up to three requests on one or two hosts: r1 and r2 share a session, r2    *)
(* streams, r3 is pinned to a lease, r1 is too long for any host but the      *)
(* first.  In gateway_live both requests carry the token of one lease.         *)
EXTENDS Gateway, TLC

CONSTANTS r1, r2, r3, s1, t1

MCSessionOf == [r \in Requests |-> IF r = r3 THEN None ELSE s1]
MCPin == [r \in Requests |-> IF r = r3 THEN t1 ELSE None]
MCBothPinned == [r \in Requests |-> t1]
MCSound == {[capacity |-> 1, known |-> TRUE]}
MCAnyKind == [capacity : {0, 1, 2}, known : {TRUE}] \cup [capacity : {1}, known : {FALSE}]
MCFits == [r \in Requests |-> IF r = r1 THEN {1} ELSE Hosts]
==============================================================================
