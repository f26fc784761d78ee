CONSTANTS
    RingSize = 3
    Window = 2
    NrElements = 3
    TrNumbers = 6
    MaxUpdates = 1
    Extents <- FourExtents
    LcFree = LcFree
SPECIFICATION Spec
CHECK_DEADLOCK FALSE
INVARIANT RingInv
INVARIANT Reconstructed
PROPERTY RefinesStable
