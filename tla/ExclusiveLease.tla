--------------------------- MODULE ExclusiveLease ---------------------------
(***************************************************************************)
(* What a book of node leases promises, with no dictionaries and no lazy   *)
(* expiry: at every instant a node has at most one holder, a token that    *)
(* stopped holding a node never holds a node again, and a hold is over by  *)
(* the ceiling that was agreed when it began.                              *)
(***************************************************************************)
EXTENDS Naturals

CONSTANTS Hosts,       \* the node ids
          Tokens,      \* the lease tokens
          Nobody,      \* the holder of a node that is in routing
          MaxCeiling   \* the longest total hold a reservation may ask for

VARIABLES clock,       \* the lease clock
          holder,      \* holder[h]: the token that holds h, or Nobody
          ceiling,     \* ceiling[h]: when the hold on h ends at the latest, 0 if none
          used         \* the tokens handed out so far

vars == <<clock, holder, ceiling, used>>

Init ==
    /\ clock = 0
    /\ holder = [h \in Hosts |-> Nobody]
    /\ ceiling = [h \in Hosts |-> 0]
    /\ used = {}

\* A free node is given to a token that was never used, for a bounded time.
Grant(h, t, u) ==
    /\ holder[h] = Nobody
    /\ t \notin used
    /\ holder' = [holder EXCEPT ![h] = t]
    /\ ceiling' = [ceiling EXCEPT ![h] = u]
    /\ used' = used \cup {t}
    /\ UNCHANGED clock

\* Some holds end: released, forced open, lapsed, or dropped by a restart.
Free(S) ==
    /\ holder' = [h \in Hosts |-> IF h \in S THEN Nobody ELSE holder[h]]
    /\ ceiling' = [h \in Hosts |-> IF h \in S THEN 0 ELSE ceiling[h]]
    /\ UNCHANGED used

End(S) == Free(S) /\ UNCHANGED clock

\* Time passes; every hold whose ceiling is reached is over, others may be.
Pass(S) ==
    /\ clock' = clock + 1
    /\ \A h \in Hosts \ S : holder[h] # Nobody => clock' < ceiling[h]
    /\ Free(S)

Next ==
    \/ \E h \in Hosts, t \in Tokens, d \in 1..MaxCeiling : Grant(h, t, clock + d)
    \/ \E S \in SUBSET Hosts : End(S)
    \/ \E S \in SUBSET Hosts : Pass(S)

Spec == Init /\ [][Next]_vars
=============================================================================
