SPECIFICATION Spec
CONSTANTS
    s1 = s1
    k1 = k1
    k2 = k2
    i1 = i1
    i2 = i2
    Sessions = {s1}
    Keys = {k1, k2}
    Instances = {i1, i2}
    MaxChunks = 1
    MaxNotices = 0
    MaxCrashes = 0
    MaxErrors = 0
SYMMETRY Interchangeable
INVARIANTS
    TurnsDoNotInterleave
CHECK_DEADLOCK FALSE
