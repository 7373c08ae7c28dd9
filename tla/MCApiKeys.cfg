SPECIFICATION Spec
CONSTANTS
    a = a
    b = b
    k1 = k1
    k2 = k2
    k3 = k3
    k4 = k4
    k5 = k5
    r1 = r1
    r2 = r2
    r3 = r3
    Clients <- MCClients
    Keys <- MCKeys
    FirstKey <- MCFirstKey
    Runs <- MCRuns
    Grace = 1
    MaxClock = 2
    Never = Never
    Absent = Absent
    Missing = Missing
    Damaged = Damaged
    Down = Down
INVARIANTS OnePermanentKey NoGap ExpirySetOnce PrintedIsSaved
SYMMETRY Symmetry
CHECK_DEADLOCK FALSE
