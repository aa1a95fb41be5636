CONSTANTS
    Sessions = {s1, s2}
    Callers = {c1}
    Writers = {}
    Pids = {p1, p2}
    NoPid = NoPid
    NoSession = NoSession
    MaxSessions = 1
SPECIFICATION Spec
SYMMETRY Symmetry
INVARIANTS
    ConfirmedDead
PROPERTIES
    ImplementsSessionLife
CHECK_DEADLOCK FALSE
