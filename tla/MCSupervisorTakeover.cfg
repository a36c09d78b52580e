CONSTANTS
    MaxTakeovers = 2
    MaxExiters = 2
    ExitTargets = {1}
    MaxDispatches = 2
    MaxFaults = 1
    MaxInputs = 1
SPECIFICATION Spec
INVARIANTS OneSupervisor ExitOnce
PROPERTIES TakeoverSettles
CHECK_DEADLOCK FALSE
