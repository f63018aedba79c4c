SPECIFICATION Spec
CONSTANTS
    MaxSeg = 3
    Stride = 64
    MaxId = 4
    MaxBatch = 1
    MaxGap = 1
    MaxVote = 1
    Trigger = 0
    TornKinds = {"header"}
    FsyncEntry = TRUE
    Formatted = FALSE
    Ops <- WithRollback
    KillMidCall = FALSE
    MaxCrash = 0
    MaxRestart = 2
    MaxCorrupt = 0
INVARIANTS
    ScanComplete
    RollbackPossible
    SegmentsSorted
PROPERTIES
    ImplementsLog
