CONSTANTS
    NPaths = 2
    MaxSockets = 3
    MaxPending = 2
    Scenarios <- All
SPECIFICATION Spec
INVARIANT StreamsPaired
INVARIANT OneResolver
