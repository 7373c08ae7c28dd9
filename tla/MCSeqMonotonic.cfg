SPECIFICATION Spec
CONSTANTS
    None = None
    a = a
    CharsPerToken = 4
    LengthOf <- MCLengthOf
    SummaryLength <- MCSummaryLength
    t1 = t1
    Threads = {t1}
    Messages = {1, 2, 3, 4}
    Calls = {}
    Captures = {}
    ToolOf <- MCToolOf
    Texts = {a}
    Budgets = {2, 3}
    MaxEntries = 1
    MaxCalls = 5
INVARIANTS SeqIsMonotonic
CHECK_DEADLOCK FALSE
