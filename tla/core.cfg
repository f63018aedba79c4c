SPECIFICATION FairSpec
CONSTANTS
    MaxSeg = 3
    Stride = 64
    MaxId = 4
    MaxBatch = 2
    MaxGap = 0
    MaxVote = 1
    Trigger = 0
    TornKinds = {"header"}
    FsyncEntry = TRUE
    Formatted = TRUE
    Ops <- AppendOnly
    KillMidCall = FALSE
    MaxCrash = 2
    MaxRestart = 0
    MaxCorrupt = 0
INVARIANTS
    TypeOK
    RolloverFileIsNew
    CursorAtEnd
    SealsMatchFiles
    OpensUnattended
    AckedReadable
    SnapshotAtomic
    LastEntryIsLast
    OrderInv
PROPERTIES
    ImplementsLog
    ServesAgain
