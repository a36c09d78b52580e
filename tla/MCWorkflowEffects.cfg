CONSTANTS
    k1 = k1
    MaxCalls = 2
    Keys = {k1}
    KeyOrder <- MCKeyOrder
    MaxTurns = 3
    PageSize = 1
    MaxOpened = 1
    MaxFaults = 1
SPECIFICATION Spec
INVARIANTS CompletedWasMade
PROPERTIES OncePerExecution EvidenceFound
CHECK_DEADLOCK FALSE
