SPECIFICATION FairSpec
CONSTANTS
    MaxSeg = 3
    Stride = 64
    MaxId = 5
    MaxBatch = 2
    MaxGap = 0
    MaxVote = 0
    Trigger = 1
    TornKinds = {"header"}
    FsyncEntry = FALSE
    Formatted = TRUE
    Ops <- AppendOnly
    KillMidCall = FALSE
    MaxCrash = 2
    MaxRestart = 0
    MaxCorrupt = 0
INVARIANTS
    RefusedOnlyUnrepairable
PROPERTIES
    ServesUnlessUnrepairable
