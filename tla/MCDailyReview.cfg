SPECIFICATION Spec
CONSTANTS
    q1 = q1
    q2 = q2
    m1 = m1
    Calls = {q1, q2}
    Memories = {m1}
    Expiry <- MCExpiry
    WindowEnd = 1
    TTL = 2
    Lease = 1
    Wait = 1
    ChatLimit = 1
    NoteLimit = 1
    MaxClock = 3
    MaxChanges = 2
    MaxFaults = 1
SYMMETRY Symmetry
INVARIANTS
    ServedIsCurrent
    OneResultAtATime
CHECK_DEADLOCK FALSE
