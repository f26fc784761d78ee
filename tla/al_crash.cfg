CONSTANTS
    NrElements = 2
    MaxPending = 2
    Extents <- ThreeExtents
    Users <- TwoWrites
    Kind <- MixedKind
    First <- WideFirst
    Last <- WideLast
    MaxCrashes = 1
    MaxResizes = 0
    MaxSuspends = 1
    DiskCanFail = TRUE
    PeerCanLeave = TRUE
    BitmapVaries = TRUE
SPECIFICATION Spec
CHECK_DEADLOCK FALSE
INVARIANT IInv
INVARIANT CrashSafe
