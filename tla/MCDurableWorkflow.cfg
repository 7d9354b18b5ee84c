SPECIFICATION Spec
CONSTANTS
    w1 = w1
    w2 = w2
    Runs = {r1}
    Workers = {w1, w2}
    None = None
    NumNodes = 2
    Gates = {1}
    Actions = {approve, edit}
    Lease = 1
    WaitTTL = 3
    RunTTL = 3
    MaxSteps = 3
    MaxResumes = 2
    Skew <- MCSkew
    MaxTime = 2
    MaxClaims = 3
SYMMETRY Symmetry
CHECK_DEADLOCK FALSE
INVARIANTS
    WaitsMatchCheckpoint
    EventLogLegal
    AuditMatchesData
PROPERTIES
    NoLostUpdate
    Refinement
