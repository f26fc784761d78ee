CONSTANTS
    Peers <- OnePeer
    Actors <- AllActors
    StateActor <- TheStateActor
    MaxReqs = 2
    Bios <- AllBios
    BioKind <- AllKinds
    BioBlock <- AllBlocks
    Blocks <- TwoBlocks
    Proto <- ProtoC
    MaxEpochSize = 2
    Scenarios <- LossOnly
SPECIFICATION FairSpec
CHECK_DEADLOCK FALSE
PROPERTY EveryBioCompletes
PROPERTY LogDrains
