CONSTANTS
    Sessions = {s1}
    Callers = {c1, c2}
    Writers = {w1}
    Pids = {p1, p2}
    NoPid = NoPid
    NoSession = NoSession
    MaxSessions = 1
SPECIFICATION FairSpec
INVARIANTS
    OneTeardown
    QuiescedStaysQuiet
PROPERTIES
    EveryTeardownEnds
    ExitedSessionUnlisted
CHECK_DEADLOCK FALSE
