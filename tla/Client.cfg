CONSTANTS
    Sids = {s1, s2}
    Sockets = {w1, w2, w3}
    None = None
    MaxEvents = 2
    Refusals = TRUE
    Attempts = 2
    ListRace = FALSE
    SlowFetch = FALSE
SPECIFICATION Spec
INVARIANTS TypeOK ListAgrees ShownIsAttached OneConnection
PROPERTIES Reconnects
\* A tab whose user does nothing, with nothing failing, stays as it is.
CHECK_DEADLOCK FALSE
