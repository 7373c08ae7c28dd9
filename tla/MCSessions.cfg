SPECIFICATION Spec
CONSTANTS
    None = None
    a = a
    CharsPerToken = 4
    LengthOf <- MCLengthOf
    SummaryLength <- MCSummaryLength
    t1 = t1
    t2 = t2
    Threads = {t1, t2}
    Messages = {1, 2, 3, 4}
    Calls = {11, 12, 13}
    Captures = {21, 22}
    ToolOf <- MCToolOf
    Texts = {a}
    Budgets = {2, 3}
    MaxEntries = 1
    MaxCalls = 5
INVARIANTS StoredIsKept SeqFollowsTime CurrentIsNewest ReadShowsAll CoversOnlyKnown CompactionIsTight
SYMMETRY ThreadSymmetry
CHECK_DEADLOCK FALSE
