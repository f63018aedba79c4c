SPECIFICATION Spec
CONSTANTS
    MaxSeg = 3
    Stride = 2
    MaxId = 6
    MaxBatch = 3
    MaxGap = 0
    MaxVote = 0
    Trigger = 2
    TornKinds = {"header"}
    FsyncEntry = TRUE
    Formatted = TRUE
    Ops <- AppendOnly
    KillMidCall = TRUE
    MaxCrash = 0
    MaxRestart = 2
    MaxCorrupt = 0
INVARIANTS
    OpensUnattended
    ScanComplete
PROPERTIES
    ImplementsLog
