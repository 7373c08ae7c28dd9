SPECIFICATION FairSpec
CONSTANTS
    r1 = r1
    r2 = r2
    r3 = r3
    s1 = s1
    t1 = t1
    Hosts = {1}
    Requests = {r2, r3}
    Sessions = {s1}
    Tokens = {t1}
    None = None
    Current = Current
    SessionOf <- MCSessionOf
    Pin <- MCBothPinned
    Streams = {r2}
    Fits <- MCFits
    Registrations <- MCAnyKind
    MaxPolls = 2
INVARIANTS QueueMatchesWaiters ScopedPollsProgress
PROPERTIES EveryRequestEnds
