SPECIFICATION LSpec
CONSTANTS
    MaxSeg = 3
    Stride = 1
    LenLimit = 64
    MaxOps = 4
    MaxEntryId = 2
    MetaPairs <- SomeMeta
INVARIANTS
    ManifestAgrees
    DamageRefused
CHECK_DEADLOCK FALSE
