CONSTANTS
    Source = 1
    Target = 2
    Third = 3
    NBlocks = 2
    Align = 2
    Scenarios <- TwoAtOnce
SPECIFICATION Spec
CHECK_DEADLOCK FALSE
INVARIANT CompletedScheduled
