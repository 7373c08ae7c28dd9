--------------------------- MODULE MCHealthPolling -----------------------------
EXTENDS HealthPolling

CONSTANTS p1, p2

Reg(capacity, address, known) == [capacity |-> capacity, address |-> address, known |-> known]
MCRegistrations ==
    [h \in Hosts |-> {Reg(1, p1, TRUE), Reg(1, p2, TRUE), Reg(0, p1, TRUE), Reg(1, p2, FALSE)}]
================================================================================
