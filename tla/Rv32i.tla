------------------------------- MODULE Rv32i --------------------------------
(***************************************************************************)
(* What one instruction of the table in the README does, as the RV32I      *)
(* manual defines it, for a machine of XLEN bits whose immediates have IMM *)
(* bits (32 and 12 in the real one).  An instruction i is a record of its  *)
(* name, its immediate field, the values of its two source registers, its  *)
(* address and the word of memory it addresses.  Words are read as         *)
(* integers, so that nothing here depends on how the hardware gets them.   *)
(***************************************************************************)
EXTENDS Integers, Bitwise

CONSTANTS
    SHIFT,      \* bits of a shift amount: words have 2^SHIFT bits
    IMM         \* bits of an immediate field

XLEN == 2^SHIFT
M    == 2^XLEN
Word == 0 .. M - 1
BYTE == XLEN \div 4             \* bits of a byte: words have four

Loads    == {"LB", "LH", "LW", "LBU", "LHU"}
Stores   == {"SB", "SH", "SW"}
Branches == {"BEQ", "BNE", "BLT", "BGE", "BLTU", "BGEU"}
RegOps   == {"ADD", "SUB", "SLL", "SLT", "SLTU", "XOR", "SRL", "SRA", "OR", "AND"}
LogicImmediates == {"XORI", "ORI", "ANDI"}
ImmOps   == {"ADDI", "SLTI", "SLTIU", "SLLI", "SRLI", "SRAI"} \cup LogicImmediates
Mnemonics ==
    {"LUI", "AUIPC", "JAL", "JALR"} \cup Branches \cup Loads \cup Stores
        \cup ImmOps \cup RegOps

Integer(x, bits) == IF x >= 2^(bits - 1) THEN x - 2^bits ELSE x
Signed(x)    == Integer(x, XLEN)
Immediate(i) == Integer(i.field, IMM)
Upper(i)     == i.field * 2^IMM
Amount(x)    == x % 2^SHIFT

(* The operation on words an instruction of ImmOps or RegOps stands for. *)
Compute(op, a, b) ==
    CASE op \in {"ADD", "ADDI"}   -> (a + b) % M
      [] op = "SUB"               -> (a - b) % M
      [] op \in {"SLT", "SLTI"}   -> IF Signed(a) < Signed(b) THEN 1 ELSE 0
      [] op \in {"SLTU", "SLTIU"} -> IF a < b THEN 1 ELSE 0
      [] op \in {"XOR", "XORI"}   -> a ^^ b
      [] op \in {"OR", "ORI"}     -> a | b
      [] op \in {"AND", "ANDI"}   -> a & b
      [] op \in {"SLL", "SLLI"}   -> (a * 2^Amount(b)) % M
      [] op \in {"SRL", "SRLI"}   -> a \div 2^Amount(b)
      [] op \in {"SRA", "SRAI"}   -> (Signed(a) \div 2^Amount(b)) % M

Taken(i) ==
    CASE i.op = "BEQ"  -> i.r1 = i.r2
      [] i.op = "BNE"  -> i.r1 # i.r2
      [] i.op = "BLT"  -> Signed(i.r1) < Signed(i.r2)
      [] i.op = "BGE"  -> Signed(i.r1) >= Signed(i.r2)
      [] i.op = "BLTU" -> i.r1 < i.r2
      [] i.op = "BGEU" -> i.r1 >= i.r2

-----------------------------------------------------------------------------
(* Bytes are numbered from the low end. *)

Byte(w, k) == (w \div 2^(BYTE * k)) % 2^BYTE
Half(w, k) == Byte(w, k) + Byte(w, k + 1) * 2^BYTE

Address(i) == (i.r1 + Immediate(i)) % M
First(i)   == Address(i) % 4
Length(i)  == CASE i.op \in {"LB", "LBU", "SB"} -> 1
                [] i.op \in {"LH", "LHU", "SH"} -> 2
                [] i.op \in {"LW", "SW"}        -> 4
Aligned(i) == i.op \in Loads \cup Stores => First(i) % Length(i) = 0

Loaded(i) ==
    CASE i.op = "LB"  -> Integer(Byte(i.word, First(i)), BYTE) % M
      [] i.op = "LBU" -> Byte(i.word, First(i))
      [] i.op = "LH"  -> Integer(Half(i.word, First(i)), 2 * BYTE) % M
      [] i.op = "LHU" -> Half(i.word, First(i))
      [] i.op = "LW"  -> i.word

(* Byte k of the word after a store. *)
Stored(i, k) ==
    IF i.op \in Stores /\ k \in First(i) .. First(i) + Length(i) - 1
    THEN Byte(i.r2, k - First(i)) ELSE Byte(i.word, k)

-----------------------------------------------------------------------------

Writes(i) == i.op \notin Branches \cup Stores

Result(i) ==
    CASE i.op = "LUI"              -> Upper(i) % M
      [] i.op = "AUIPC"            -> (i.pc + Upper(i)) % M
      [] i.op \in {"JAL", "JALR"}  -> (i.pc + 4) % M
      [] i.op \in Loads            -> Loaded(i)
      [] i.op \in ImmOps           -> Compute(i.op, i.r1, Immediate(i) % M)
      [] i.op \in RegOps           -> Compute(i.op, i.r1, i.r2)

NextPc(i) ==
    CASE i.op = "JAL"              -> (i.pc + 2 * Immediate(i)) % M
      [] i.op = "JALR"             -> Address(i) - (Address(i) % 2)
      [] i.op \in Branches         -> (i.pc + (IF Taken(i) THEN 2 * Immediate(i) ELSE 4)) % M
      [] OTHER                     -> (i.pc + 4) % M
=============================================================================
