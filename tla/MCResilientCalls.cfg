SPECIFICATION FairSpec
CONSTANTS
    c1 = c1
    c2 = c2
    Callers = {c1, c2}
    Kinds = {"stream"}
    Limit = 1
    Threshold = 1
    MaxAttempts = 2
    MaxModelCalls = 2
INVARIANTS
    NothingLeaks
PROPERTIES
    BreakerRecovers
