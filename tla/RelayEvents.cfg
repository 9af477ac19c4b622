CONSTANTS
    Ips = {i1, i2}
    Sessions = {s1}
    NoSession = none
    Capacity = 1
    Limit = 2
    Window = 2
    MaxTracked = 1
    Timeout = 2
    MaxCompleted = 0
SPECIFICATION FairSpec
CHECK_DEADLOCK FALSE
INVARIANTS SessionsAgree FloodBounded RefusedForCause
PROPERTIES StallIsShown EndIsShown
