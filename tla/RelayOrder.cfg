CONSTANTS
    MaxBytes = 3
    MaxCount = 10
    HWM = 3
    LWM = 1
    BatchLen = 1
    FlushLen = 2
    MaxCarry = 1
    MaxOutput = 3
    MaxAttaches = 1
    MaxTimers = 2
SPECIFICATION Spec
INVARIANT ShownInOrder
CHECK_DEADLOCK FALSE
