SPECIFICATION Spec
CONSTANTS
    MaxSeg = 3
    Stride = 64
    MaxId = 2
    MaxBatch = 1
    MaxGap = 0
    MaxVote = 1
    Trigger = 0
    TornKinds = {"header", "payload", "zeros"}
    FsyncEntry = TRUE
    Formatted = FALSE
    Ops <- AllCalls
    KillMidCall = TRUE
    MaxCrash = 1
    MaxRestart = 1
    MaxCorrupt = 0
INVARIANTS
    StructureInv
    FileInv
    ManifestsWellFormed
    MemoryFollowsManifest
    SegmentIdsFenced
    NoPanic
