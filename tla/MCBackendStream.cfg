SPECIFICATION FairSpec
CONSTANTS
    c1 = c1
    Calls = {c1}
    Instances = 2
    MaxRetries = 2
    MaxChunks = 2
    BodyParts = 2
    None = None
INVARIANTS OneAttemptSpeaks SlotsCoverConnections SuccessIsEarned NothingOutlivesReturn
PROPERTIES HangUpEnds
CHECK_DEADLOCK FALSE
