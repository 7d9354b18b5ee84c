SPECIFICATION FairSpec
CONSTANTS
    Reminders = {r1, r2}
    Dispatchers = {d1}
    Workers = {w1}
    Commands = {c1}
    BatchSize = 2
    MaxAttempts = 1
    MaxFaults = 0
CHECK_DEADLOCK FALSE
PROPERTIES
    AtLeastOnce
