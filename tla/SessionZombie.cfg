CONSTANTS
    Sessions = {s1}
    Callers = {c1}
    Writers = {}
    Pids = {p1, p2}
    NoPid = NoPid
    NoSession = NoSession
    MaxSessions = 1
SPECIFICATION Spec
SYMMETRY Symmetry
INVARIANT GoneIsUnlisted
CHECK_DEADLOCK FALSE
