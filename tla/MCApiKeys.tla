------------------------------- MODULE MCApiKeys -------------------------------
\* Two clients with a key each and keys for three rotations.
EXTENDS ApiKeys, TLC

CONSTANTS a, b, k1, k2, k3, k4, k5, r1, r2, r3

MCClients == {a, b}
MCKeys == {k1, k2, k3, k4, k5}
MCFirstKey == [c \in {a, b} |-> IF c = a THEN k1 ELSE k2]
MCRuns == {r1, r2, r3}

\* Runs are alike, and so are keys nobody has yet.
Symmetry == Permutations({k3, k4, k5}) \cup Permutations(MCRuns)
================================================================================
