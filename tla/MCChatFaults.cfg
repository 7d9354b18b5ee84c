SPECIFICATION FairSpec
CONSTANTS
    s1 = s1
    k1 = k1
    k2 = k2
    i1 = i1
    i2 = i2
    Sessions = {s1}
    Keys = {k1}
    Instances = {i1, i2}
    MaxChunks = 2
    MaxNotices = 1
    MaxCrashes = 1
    MaxErrors = 2
INVARIANTS
    LogEndsWithStatus
    AnswerMatchesEvents
    CancelReachesModel
PROPERTY
    RunsEnd
CHECK_DEADLOCK FALSE
