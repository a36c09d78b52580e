CONSTANTS
    MaxAttempts = 2
    MaxRows = 3
    MaxTurns = 4
    MaxFaults = 1
    Drivers = {1, 2}
SPECIFICATION Spec
INVARIANTS LaunchedOnce InterruptedFirst
PROPERTIES PaneIsKnown ReconnectEnds
CHECK_DEADLOCK FALSE
