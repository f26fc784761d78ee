CONSTANTS
    Source = 1
    Target = 2
    Third = 3
    NBlocks = 2
    Align = 2
    Scenarios <- All
SPECIFICATION Spec
PROPERTY NewestWins
INVARIANT DiskExclusive
INVARIANT ClearMeansEqual
INVARIANT AnswerExpected
INVARIANT DrainedClean
INVARIANT VerifyTruth
