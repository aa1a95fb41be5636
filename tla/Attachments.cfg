CONSTANTS
    Conns = {c1, c2}
    Sessions = {s1}
    Sizes = {80, 100}
    DefaultSize = 80
    Resizers = {c1}
    MaxClients = 2
    MaxConns = 2
    None = None
SPECIFICATION FairSpec
INVARIANTS
    ClientsCounted
    GoneIsHeard
PROPERTIES
    BroadcastsReachAll
CHECK_DEADLOCK FALSE
