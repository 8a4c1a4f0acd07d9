CONSTANTS
    WORDS = 4
    REGS = 3
    IN_ADDR = 2
    OUT_ADDR = 3
    Insts <- JumpInsts
    Programs <- JumpPrograms
    InitRegs <- MCInitRegs
    InitMem <- MCInitMem
    ROMS = {FALSE, TRUE}
SPECIFICATION FairSpec
INVARIANTS TypeOK JumpBitsAgree AnswersMatchRequests
PROPERTIES ImplementsIsa AlwaysRetires
