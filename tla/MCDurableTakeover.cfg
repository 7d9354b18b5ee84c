SPECIFICATION Spec
CONSTANTS
    w1 = w1
    w2 = w2
    Runs = {r1}
    Workers = {w1, w2}
    None = None
    NumNodes = 2
    Gates = {1}
    Actions = {approve, edit}
    Lease = 1
    WaitTTL = 3
    RunTTL = 3
    MaxSteps = 0
    MaxResumes = 1
    Skew <- NoSkew
    MaxTime = 2
    MaxClaims = 3
CHECK_DEADLOCK FALSE
PROPERTY OnlyClaimantCommits
