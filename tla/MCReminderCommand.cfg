SPECIFICATION Spec
CONSTANTS
    r1 = r1
    w1 = w1
    w2 = w2
    b1 = b1
    m1 = m1
    None = None
    Runs = {r1}
    Workers = {w1, w2}
    Memories = {m1}
    Existing <- MCExisting
    Texts = {"old", "new", ""}
    Plans <- MCPlans
    MaxClock = 1
    MaxCalls = 4
    MaxVersion = 2
SYMMETRY Symmetry
INVARIANTS
    ChangesWereApproved
    OneChangePerRun
    CompletedIsCommitted
CHECK_DEADLOCK FALSE
