CONSTANTS
    MaxPongs = 2
    MaxQueue = 2
SPECIFICATION FairSpec
INVARIANTS
    QueueSound
PROPERTIES
    EveryConnectionEnds
CHECK_DEADLOCK FALSE
