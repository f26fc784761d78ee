CONSTANTS
    NrElements = 2
    MaxPending = 2
    Extents <- ThreeExtents
    Users <- ThreeWrites
    Kind <- AppKind
    First <- ColdExtents
    Last <- ColdExtents
    MaxCrashes = 0
    MaxResizes = 1
    MaxSuspends = 0
    DiskCanFail = FALSE
    PeerCanLeave = TRUE
    BitmapVaries = TRUE
SPECIFICATION Spec
CHECK_DEADLOCK FALSE
INVARIANT CrashSafe
