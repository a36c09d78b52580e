CONSTANTS
    Notifiers = {n1, n2}
    Events = {e1, e2}
    Deleter = del
    Free = free
    MaxSends = 2
SPECIFICATION TSpec
INVARIANTS
    AtMostOnePost
    SealIsTruthful
    ClaimIsFenced
