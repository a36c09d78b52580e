CONSTANTS
    N = 2
    Parents = {1}
    MaxEdits = 1
    MaxCrashes = 1
SPECIFICATION Spec
INVARIANTS FencedIsDead ReceiptIsTrue
PROPERTIES RemovalIsSafe DeletionEnds
CHECK_DEADLOCK FALSE
