SPECIFICATION Spec
CONSTANTS
    MaxSeg = 3
    Stride = 2
    MaxId = 4
    MaxBatch = 2
    MaxGap = 0
    MaxVote = 1
    Trigger = 9
    TornKinds = {"header"}
    FsyncEntry = TRUE
    Formatted = TRUE
    Ops <- WriteAndRollback
    KillMidCall = FALSE
    MaxCrash = 0
    MaxRestart = 1
    MaxCorrupt = 0
INVARIANTS
    SegmentsHoldLog
CHECK_DEADLOCK FALSE
