---------------------------- MODULE MCSessionStore -----------------------------
EXTENDS SessionStore

ThreadSymmetry == Permutations(Threads)
MCLengthOf == <<3, 6, 4, 1>>
MCSummaryLength == [x \in Texts |-> 5]
MCToolOf == [c \in Calls |-> IF c = 12 THEN "filesystem" ELSE "terminal"]
================================================================================
