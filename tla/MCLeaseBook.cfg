SPECIFICATION FairSpec
CONSTANTS
    Hosts = {1, 2, 3}
    Tokens = {t1, t2}
    NoLease = NoLease
    AnyHost = AnyHost
    Ttl = 2
    MaxCeiling = 3
    MinActiveNodes = 1
    Horizon = 4
INVARIANTS Coherent
PROPERTIES EveryHoldEnds GrantKeepsMinimum ImplementsExclusiveLease
