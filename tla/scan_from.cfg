SPECIFICATION Spec
CONSTANTS
    MaxSeg = 3
    Stride = 64
    MaxId = 6
    MaxBatch = 2
    MaxGap = 0
    MaxVote = 1
    Trigger = 1
    TornKinds = {"header"}
    FsyncEntry = TRUE
    Formatted = TRUE
    Ops <- WriteOnly
    KillMidCall = FALSE
    MaxCrash = 0
    MaxRestart = 0
    MaxCorrupt = 0
INVARIANTS
    ScanFromOnly
CHECK_DEADLOCK FALSE
