SPECIFICATION RecallSpec
CONSTANTS
    s1 = s1
    t1 = t1
    t2 = t2
    p1 = p1
    q1 = q1
    NoSlot = NoSlot
    Slots = {s1}
    Texts = {t1, t2}
    About <- MCAbout
    Readers = {q1}
    Projectors = {p1}
    Additions <- MCDrafts
    Plans <- MCPlans
    Target = 2
    PageSize = 1
    MaxBatches = 2
    MaxScanned = 2
    MaxExact = 2
    BatchSize = 1
    MaxAttempts = 2
    MaxMemories = 2
    MaxRequests = 1
    MaxLosses = 1
INVARIANTS
    RecalledWasActive
    ExactIsComplete
    CompletedMeansIndexed
CHECK_DEADLOCK FALSE
