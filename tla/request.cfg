CONSTANTS
    Peers <- TwoPeers
    Actors <- AllActors
    StateActor <- TheStateActor
    MaxReqs = 3
    Bios <- AllBios
    BioKind <- AllKinds
    BioBlock <- AllBlocks
    Blocks <- TwoBlocks
    Proto <- ProtoCA
    MaxEpochSize = 2
    Scenarios <- Everything
SPECIFICATION Spec
CHECK_DEADLOCK FALSE
INVARIANT RefsMatchHolders
INVARIANT NoLogicBug
INVARIANT WritesFinishInOrder
INVARIANT NoBarrierBeforeData
INVARIANT AcksAreExpected
INVARIANT BitmapCoversDifferences
INVARIANT CompletedEpochClosed
PROPERTY BioCompletedOnce
