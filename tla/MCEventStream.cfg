SPECIFICATION FairFollowSpec
CONSTANTS
    c1 = c1
    Clients = {c1}
    Batch = 2
    MaxEvents = 5
    MaxCuts = 2
    MaxRefusals = 1
INVARIANTS
    ReceivedInOrder
    NoLostWakeup
PROPERTIES
    StreamDelivers
CHECK_DEADLOCK FALSE
