SPECIFICATION RSpec
CONSTANTS
    MaxSeg = 1
    Stride = 2
    LenLimit = 4
    MaxEntry = 3
    MaxPayload = 3
INVARIANTS
    ScanAgrees
    ReaderAligned
    PositionTracks
    AfterAgrees
CHECK_DEADLOCK FALSE
