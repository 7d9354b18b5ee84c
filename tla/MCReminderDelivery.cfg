SPECIFICATION FairSpec
CONSTANTS
    Reminders = {r1, r2}
    Dispatchers = {d1}
    Workers = {w1, w2}
    Commands = {c1}
    BatchSize = 2
    MaxAttempts = 2
    MaxFaults = 1
CHECK_DEADLOCK FALSE
INVARIANTS
    OutboxMatchesStatus
    OneOccurrence
    NeverEarly
    AuditExplainsStatus
PROPERTIES
    LifecycleSpec
    DueSettles
