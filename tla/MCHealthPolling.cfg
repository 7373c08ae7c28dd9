SPECIFICATION FairSpec
CONSTANTS
    h1 = h1
    p1 = p1
    p2 = p2
    None = None
    Hosts = {h1}
    Registrations <- MCRegistrations
    Sweepers = {"loop", "ready"}
    Ttl = 1
    Window = 1
    MaxSamples = 1
    MaxErrors = 1
PROPERTIES AlertsSettle LoadSettles
CHECK_DEADLOCK FALSE
