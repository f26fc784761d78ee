CONSTANTS
    NrElements = 2
    MaxPending = 2
    Extents <- ThreeExtents
    Users <- ThreeWrites
    Kind <- MixedKind
    First <- TightFirst
    Last <- TightLast
    MaxCrashes = 0
    MaxResizes = 1
    MaxSuspends = 0
    DiskCanFail = FALSE
    PeerCanLeave = FALSE
    BitmapVaries = FALSE
SPECIFICATION FairSpec
CHECK_DEADLOCK FALSE
INVARIANT RefsMatchHolders
PROPERTY EveryWriteSubmitted
PROPERTY AdminEnds
