SPECIFICATION FairSpec
CONSTANTS
    h1 = h1
    h2 = h2
    h3 = h3
    Hosts <- MCHosts
    InitialNodes <- MCInitialNodes
    None = None
    OtherPlaces = {1}
    MaxChanges = 1
    MaxFailures = 1
    MaxKeys = 2
INVARIANTS TrackedIsReady ExitsOnlyWhenShifted ActsOnSelected CursorStaysOnChosen MoveIsPersisted
PROPERTIES Settles
CHECK_DEADLOCK FALSE
