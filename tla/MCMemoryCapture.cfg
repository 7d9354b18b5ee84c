SPECIFICATION Spec
CONSTANTS
    r1 = r1
    r2 = r2
    w1 = w1
    w2 = w2
    s1 = s1
    t1 = t1
    t2 = t2
    None = None
    NoSlot = NoSlot
    Slots = {s1}
    Texts = {t1, t2}
    About <- MCAbout
    Runs = {r1, r2}
    Workers = {w1, w2}
    Drafts <- MCDrafts
    Known <- MCKnown
    Intents = {"user_correction"}
    MaxCalls = 4
    MaxCrashes = 1
SYMMETRY Symmetry
INVARIANTS
    FactsAreConsistent
    ActivatedWasApproved
    CompletedIsSettled
CHECK_DEADLOCK FALSE
