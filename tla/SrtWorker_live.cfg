SPECIFICATION FairSpec
CONSTANTS
    k1 = k1
    k2 = k2
    k3 = k3
    c1 = c1
    c2 = c2
    Keys <- MCTwoKeys
    Clients = {c1, c2}
    ClientOf <- MCTwoClientOf
    MaxSessions <- MCOneSession
    MaxClients = 2
    Slots = {s1, s2}
    NoKey = NoKey
    NoSlot = NoSlot
    NoClient = NoClient
    MaxTimers = 1
    Directions = {"listener", "publish"}
CHECK_DEADLOCK FALSE
PROPERTIES
    ReservationEnds
    ShutdownCompletes
    PublishEnds
