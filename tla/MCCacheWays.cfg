CONSTANTS
    TAGS = 6
    SETS = 1
    WAYS = 4
    WORDS = 2
    LANES = 2
    BYTE = 2
    IN_ADDR <- MC_IN
    OUT_ADDR <- MC_OUT
    Requests <- OneWordReads
    InitMem <- MCInitMem
SPECIFICATION Spec
INVARIANT LookupsHold
