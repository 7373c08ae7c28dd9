SPECIFICATION FairSpec
CONSTANTS
    Backends = {b1}
    FailureThreshold = 3
    RecoveryThreshold = 2
    Cooldown = 2
    HistoryLength = 4
    Never = Never
    Horizon = 6
PROPERTIES VerdictEarned Recovers
