SPECIFICATION Spec
CONSTANTS
    MaxAttempts = 1
    MaxCycles = 1
    MaxTransport = 1
    MaxClaims = 1
    MaxFaults = 1
INVARIANTS ReplacedIsGone
PROPERTIES NothingAfterFence AttemptsSettle
CHECK_DEADLOCK FALSE
