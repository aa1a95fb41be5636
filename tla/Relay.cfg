CONSTANTS
    MaxBytes = 3
    MaxCount = 10
    HWM = 1
    LWM = 1
    BatchLen = 1
    FlushLen = 2
    MaxCarry = 1
    MaxOutput = 2
    MaxAttaches = 2
    MaxTimers = 2
SPECIFICATION FairSpec
INVARIANT
    NothingStranded
PROPERTIES
    NothingPilesUp
    NeitherLostNorRepeated
    DeliveredInTheEnd
CHECK_DEADLOCK FALSE
