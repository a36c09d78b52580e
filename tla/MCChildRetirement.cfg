CONSTANTS
    MaxAssignments = 2
    MaxTokens = 4
    MaxWork = 2
    MaxFaults = 3
SPECIFICATION RSpec
INVARIANTS RetiredOnce
PROPERTIES AcceptedWorkKept RetirementSettles
CHECK_DEADLOCK FALSE
