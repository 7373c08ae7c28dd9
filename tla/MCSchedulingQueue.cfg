SPECIFICATION Spec
CONSTANTS
    r1 = r1
    r2 = r2
    r3 = r3
    r4 = r4
    a = a
    b = b
    Priorities = {0, 1}
    Sessions = {a, b}
    Requests = {r1, r2, r3, r4}
    Hosts = {h1, h2}
    Nothing = Nothing
    SessionOf <- MCSessionOf
    PriorityOf <- MCPriorityOf
    Tracked = {r1, r2, r3}
INVARIANTS QueueMatchesWaiters NoSessionStarves
