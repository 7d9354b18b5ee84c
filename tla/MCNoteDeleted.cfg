SPECIFICATION NotesSpec
CONSTANTS
    n1 = n1
    k1 = k1
    k2 = k2
    p1 = p1
    p2 = p2
    q1 = q1
    Notes = {n1}
    DeleteKeys = {k1}
    Projectors = {p1, p2}
    Pollers = {}
    ClaimLimit = 2
    MaxFaults = 0
    MaxLosses = 0
INVARIANT
    DeletedMeansGone
CHECK_DEADLOCK FALSE
