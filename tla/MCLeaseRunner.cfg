SPECIFICATION FairRunnerSpec
CONSTANTS
    None = None
    MaxInterrupts = 2
INVARIANTS ReturnsClean LossIsReal
PROPERTIES LostEndsRun
CHECK_DEADLOCK FALSE
