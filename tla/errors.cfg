SPECIFICATION FSpec
CONSTANTS
    Mishaps <- Recoverable
    MaxMishaps = 2
    MaxStuck = 3
    MaxSeg = 2
    Stride = 64
    MaxId = 3
    MaxBatch = 2
    MaxGap = 0
    MaxVote = 1
    Trigger = 0
    TornKinds = {"header"}
    FsyncEntry = TRUE
    Formatted = TRUE
    Ops <- AppendOnly
    KillMidCall = FALSE
    MaxCrash = 1
    MaxRestart = 0
    MaxCorrupt = 0
INVARIANTS
    AckedReadable
    OpensUnattended
    SnapshotAtomic
    CursorPastWritten
    DoneIsDurable
