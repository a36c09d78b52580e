CONSTANTS
    Senders = {s1}
    Observers = {o1}
    Dispatcher = d
    NoOne = noone
    Orphan = orphan
    MaxTurns = 2
    MaxWorkflows = 2
    MaxClaims = 1
    MaxFaults = 1
    MaxAttempts = 1
    MaxNoProgress = 1
    Outcomes = "cursor"
SPECIFICATION Spec
INVARIANTS
    PaneExclusive
    OneOpenWorkflow
PROPERTIES
    ActiveForward
    InputsKept
    CompletionCarriesInputs
CONSTRAINT Budget
CHECK_DEADLOCK FALSE
