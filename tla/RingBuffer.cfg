CONSTANTS
    Chunks <- MCChunks
    InitialCap = 2
    MaxBytes = 6
    MaxCount = 4
    Nil = Nil
SPECIFICATION Spec
PROPERTIES
    RingIsFifo
