CONSTANTS
    WORDS = 4
    REGS = 3
    IN_ADDR = 2
    OUT_ADDR = 3
    Insts <- DataInsts
    Programs <- AllPrograms
    InitRegs <- MCInitRegs
    InitMem <- MCInitMem
    ROMS = {FALSE, TRUE}
SPECIFICATION Spec
PROPERTY ImplementsIsa
