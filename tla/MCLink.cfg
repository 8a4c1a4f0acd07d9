CONSTANTS
    IDS = 3
    SIZE = 2
    LINE = 4
    TAGS = 4
    READ_PARTS = 2
    WRITE_PARTS = 3
    RESPONSE_PARTS = 2
    WINDOW = 3
    FAULTS = 3
    RESETS = 1
    MID_READ = FALSE
    Addr <- MCAddr
    LANES = 2
    BYTE = 2
    IN_ADDR = 2
    OUT_ADDR = 4
    FINISH_ADDR = 6
    HIGH_ADDR = 8
    MEM_SIZE = 11
    Images <- MCImages
    Calls <- MCCalls
    INPUT = 1
    Requests <- MCCalls
    InitMem <- MCInitMem
SPECIFICATION MCSpec
PROPERTIES ImplementsChannel Delivered ImplementsDevices
CHECK_DEADLOCK FALSE
