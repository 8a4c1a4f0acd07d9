CONSTANTS
    TAGS = 3
    SETS = 2
    WAYS = 2
    WORDS = 4
    LANES = 2
    BYTE = 2
    IN_ADDR <- MC_IN
    OUT_ADDR <- MC_OUT
    Requests <- MixedRequests
    InitMem <- MCInitMem
SPECIFICATION FairSpec
INVARIANT Coherent
PROPERTIES ImplementsMemory AnsweredUnlessFrozen
