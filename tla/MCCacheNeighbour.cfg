CONSTANTS
    TAGS = 2
    SETS = 1
    WAYS = 2
    WORDS = 4
    LANES = 2
    BYTE = 2
    IN_ADDR <- MC_IN
    OUT_ADDR <- MC_OUT
    Requests <- NeighbourRequests
    InitMem <- MCInitMem
SPECIFICATION Spec
INVARIANT NeverCached
