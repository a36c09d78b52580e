CONSTANTS
    h1 = h1
    h2 = h2
    Assigned = {1}
    Handoffs = {h1, h2}
    MaxTurns = 3
    MaxNotices = 2
    MaxResumes = 1
    MaxFaults = 1
    MaxAttempts = 2
    MaxCycles = 1
SPECIFICATION Spec
INVARIANTS
    DeliveredShown
    CompletedConsumed
    OneNotice
    NoOrphan
CONSTRAINT Budget
SYMMETRY HandoffSymmetry
CHECK_DEADLOCK FALSE
