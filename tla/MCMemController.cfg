CONSTANTS
    Addr <- MCAddr
    LANES = 1
    BYTE = 2
    IN_ADDR = "in"
    OUT_ADDR = "out"
    Requests <- MCRequests
    InitMem <- MCInitMem
    PORT_COUNT = 2
    QUEUE = 2
    WORD = 4
    ADDRS = 128
    SEG_SIZE = 8
    Application <- MCApplication
    LibClient = {u1, u2}
    segA = segA
    poolA = poolA
    poolB = poolB
    dynA = dynA
    ALIGN = 4
    OCTETS = 12
    FILL = 99
SPECIFICATION MCSpec
INVARIANTS OneReadUnderWay BlocksApart PoolsKeepBlocks BytesAsAsked
PROPERTIES ImplementsShared DataPortAnswered FetchesNeverGoBack
