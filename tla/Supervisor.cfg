CONSTANTS
    Versions = {1, 2, 3}
    First = 1
    Unstartable = {}
    Faulty = {2}
    Appliers = {a1, a2}
    CrashLimit = 2
    None = None
SPECIFICATION FairSpec
PROPERTIES
    ARunBuildSurvives
    InstalledWasVerified
    BadReleaseGivesWay
CHECK_DEADLOCK FALSE
