SPECIFICATION Spec
CONSTANTS
    MaxSeg = 2
    Stride = 64
    MaxId = 4
    MaxBatch = 2
    MaxGap = 0
    MaxVote = 1
    Trigger = 9
    TornKinds = {"header"}
    FsyncEntry = TRUE
    Formatted = TRUE
    Ops <- CarelessRollback
    KillMidCall = FALSE
    MaxCrash = 2
    MaxRestart = 0
    MaxCorrupt = 1
INVARIANTS
    OpensUnattended
    NoCorruptFrameServed
PROPERTIES
    ImplementsLog
