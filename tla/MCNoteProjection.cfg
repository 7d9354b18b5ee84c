SPECIFICATION FairNotesSpec
CONSTANTS
    n1 = n1
    k1 = k1
    k2 = k2
    p1 = p1
    p2 = p2
    q1 = q1
    Notes = {n1}
    DeleteKeys = {k1, k2}
    Projectors = {p1, p2}
    Pollers = {q1}
    ClaimLimit = 2
    MaxFaults = 2
    MaxLosses = 1
INVARIANTS
    DocumentIsTracked
    StatusHasGrounds
PROPERTY
    DeletionIsRetried
CHECK_DEADLOCK FALSE
