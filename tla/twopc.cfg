CONSTANTS
    Nodes <- FourNodes
    Diskless <- DisklessNode
    QuorumSetting = 512
    MinRedundancy = 0
    Fencing = "dont-care"
    BmWeight <- Weights
    SuspendNoData = FALSE
    SuspendNoQuorum = FALSE
    Scenarios <- Checked
SPECIFICATION Spec
INVARIANT OnePrimary
INVARIANT CommitUnanimous
INVARIANT MembersCoverOnline
INVARIANT PeersAgree
INVARIANT OneQuoratePartition
