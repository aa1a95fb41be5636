CONSTANTS
    None = None
    Tiles = {"s", "t", "u"}
    MaxTileMoves = 5
    MaxClaims = 5
    Texts = {"", "a", "d", "a/", "a/b"}
    Suggested <- MCSuggested
    Remote = {"a", "a/"}
    Deletable = {"d"}
    Folders = {"a/"}
    MaxFieldKeys = 4
    MaxDialogs = 3
    MaxKeys = 2
    Names = {"a", "b"}
    Spaced = {"b"}
    MaxRecents = 1
    MaxChainMoves = 6
    RunGap = 2
    MinRun = 2
    InputIdle = 2
    Cooldown = 1
    EndOfTime = 6
    MaxTouches = 5
    Shells = {"s", "t"}
    Queries = {"q", "r"}
    Bad = {"r"}
    MaxSearchSteps = 6
    MaxJobs = 2
    MaxFiles = 2
    MaxLosses = 1
    Tabs = {"a", "b", "c"}
    DeviceOf <- MCDeviceOf
    MaxLockSteps = 4
    MaxVersion = 2
    MaxLoads = 3

SPECIFICATION Spec

INVARIANTS
    TypeOK
    ShownRuns
    TabsComplete
    ActiveNotScaled
    BelieverIsActive
    SuggestionsFit
    AnsweredOnce
    PrunedStaysPruned
    RingsExact
    OneKeyOfTwoFingers
    HighlightsOwned
    EveryFileAccounted
    LockReachesAll
    PageConsistent
    NeverLoops

\* A part stops at its bound.
CHECK_DEADLOCK FALSE
