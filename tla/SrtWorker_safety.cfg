SPECIFICATION Spec
CONSTANTS
    k1 = k1
    k2 = k2
    k3 = k3
    c1 = c1
    c2 = c2
    Keys <- MCKeys
    Clients = {c1, c2}
    ClientOf <- MCClientOf
    MaxSessions <- MCMaxSessions
    MaxClients = 2
    Slots = {s1, s2}
    NoKey = NoKey
    NoSlot = NoSlot
    NoClient = NoClient
    MaxTimers = 2
    Directions = {"listener"}
CHECK_DEADLOCK FALSE
SYMMETRY Symmetry
INVARIANTS
    TypeOK
    ReservationsExact
    LimitsHold
    PendingHasTimer
    ClosedOnce
