SPECIFICATION Spec
CONSTANTS
    r1 = r1
    r2 = r2
    r3 = r3
    s1 = s1
    t1 = t1
    Hosts = {1, 2}
    Requests = {r1, r2, r3}
    Sessions = {s1}
    Tokens = {t1}
    None = None
    Current = Current
    SessionOf <- MCSessionOf
    Pin <- MCPin
    Streams = {r2}
    Fits <- MCFits
    Registrations <- MCSound
    MaxPolls = 1
INVARIANTS SlotsMatch QueueMatchesWaiters
PROPERTIES AdmissionRespectsLease
