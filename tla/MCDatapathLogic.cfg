CONSTANTS
    SHIFT = 3
    IMM = 4
    Operands <- MCOperands
    Pcs <- MCPcs
    Values <- MCValues
    Addresses <- MCPcs
    Rd = {0, 1, 3}
    Rs1 = {0, 1}
    Rs2 = {1, 2}
SPECIFICATION MCSpec
CHECK_DEADLOCK FALSE
INVARIANT ExecutesTableB
