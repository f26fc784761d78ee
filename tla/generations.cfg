CONSTANTS
    Nodes <- ThreeNodes
    Diskless = {}
    QuorumSetting = 0
    MinRedundancy = 0
    Fencing = "dont-care"
    BmWeight <- Weights
    SuspendNoData = FALSE
    SuspendNoQuorum = FALSE
    Blocks = {1}
    HISTORY_UUIDS = 2
    Scenarios <- All
SPECIFICATION Spec
INVARIANT SyncedEqual
INVARIANT Mirrors
PROPERTY NoSilentRollback
