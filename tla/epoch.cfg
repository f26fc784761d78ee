CONSTANTS
    MaxWrites = 3
    MaxEpochs = 4
    Scenarios <- All
SPECIFICATION FairSpec
CHECK_DEADLOCK FALSE
INVARIANT AcksAccepted
INVARIANT AckedAreStable
INVARIANT EpochAlive
INVARIANT OneEpochLeft
PROPERTY EveryWriteAcked
PROPERTY DisconnectEnds
