------------------------------ MODULE Simulator -----------------------------
(***************************************************************************)
(* MemorySource/simulator.cpp: the RV32I machine in software that runs on  *)
(* the PC in place of the FPGA.  The immediate field of an instruction     *)
(* stands for the bits that hold it, put in order; memory is the word the  *)
(* instruction addresses.                                                  *)
(***************************************************************************)
EXTENDS Rv32i

CONSTANTS
    Values,         \* what registers and memory hold
    Addresses,      \* where instructions lie
    Rd, Rs1, Rs2    \* the registers instructions name

VARIABLES
    insn,       \* the instruction that runs, with what it finds
    reg,        \* reg[1..31]
    PC,
    data,       \* the word of memory the instruction addresses
    outcome     \* "none" before RunInsn, then "done" or "exception"

simVars == <<insn, reg, PC, data, outcome>>

Regs == (Rd \cup Rs1 \cup Rs2) \ {0}
Insns ==
    [op : Mnemonics, field : 0 .. 2^IMM - 1, r1 : Values, r2 : Values, pc : Addresses,
     word : Values, rd : Rd, rs1 : Rs1, rs2 : Rs2]
NoInsn == [op |-> "NONE"]

(* References to register 0 are to a static that getReg has just cleared. *)
getReg(id) == IF id = 0 THEN 0 ELSE reg[id]

branchCond(op, a, b) ==
    CASE op = "BEQ"  -> a = b
      [] op = "BNE"  -> a # b
      [] op = "BLT"  -> Signed(a) < Signed(b)
      [] op = "BGE"  -> Signed(a) >= Signed(b)
      [] op = "BLTU" -> a < b
      [] op = "BGEU" -> a >= b

Misaligned(op, addr) ==
    CASE op \in {"LH", "LHU", "SH"} -> addr % 2 # 0
      [] op \in {"LW", "SW"}        -> addr % 4 # 0
      [] OTHER                      -> FALSE

(* Both LB and LBU, and both LH and LHU, go through an unsigned type. *)
loadOfLane0(op, addr) ==                                                 \* mutant
    CASE op \in {"LB", "LBU"} -> data % 2^BYTE
      [] op \in {"LH", "LHU"} -> data % 2^(2 * BYTE)
      [] op = "LW"            -> data

load(op, addr) ==
    LET shifted == data \div 2^(BYTE * (addr % 4))
    IN  CASE op \in {"LB", "LBU"} -> shifted % 2^BYTE
          [] op \in {"LH", "LHU"} -> shifted % 2^(2 * BYTE)
          [] op = "LW"            -> data

Mask(op, addr) ==
    CASE op = "SB" -> {addr % 4}
      [] op = "SH" -> {addr % 4, (addr % 4) + 1}
      [] op = "SW" -> 0 .. 3

(* WriteMemory writes the bytes the mask selects. *)
store(op, addr, value) ==
    LET shifted == (value * 2^(BYTE * (addr % 4))) % M
        B(k) == IF k \in Mask(op, addr) THEN Byte(shifted, k) ELSE Byte(data, k)
    IN  B(0) + B(1) * 2^BYTE + B(2) * 2^(2 * BYTE) + B(3) * 2^(3 * BYTE)

(* The values alu may return.  C++ does not define a shift by the width of *)
(* the word or more: a shift instruction of the host takes the amount      *)
(* modulo the width, a shift put together otherwise leaves no bits or      *)
(* signs alone.                                                            *)
Shifted(x, n) ==
    {x[k] : k \in IF n < XLEN THEN {n} ELSE {n % XLEN, XLEN}}
alu(op, a, b) ==
    CASE op = "ADD"  -> {(a + b) % M}
      [] op = "SUB"  -> {(a - b) % M}
      [] op = "SLT"  -> {IF Signed(a) < Signed(b) THEN 1 ELSE 0}
      [] op = "SLTU" -> {IF a < b THEN 1 ELSE 0}
      [] op = "XOR"  -> {a ^^ b}
      [] op = "OR"   -> {a | b}
      [] op = "AND"  -> {a & b}
      [] op = "SLL"  -> Shifted([n \in 0 .. XLEN |-> (a * 2^n) % M], b)
      [] op = "SRL"  -> Shifted([n \in 0 .. XLEN |-> a \div 2^n], b)
      [] op = "SRA"  -> Shifted([n \in 0 .. XLEN |-> (Signed(a) \div 2^n) % M], b)

AluOp ==
    [ADDI |-> "ADD", SLTI |-> "SLT", SLTIU |-> "SLTU", XORI |-> "XOR", ORI |-> "OR",
     ANDI |-> "AND", SLLI |-> "SLL", SRLI |-> "SRL", SRAI |-> "SRA"]

(* immI, immS, immB, immU and immJ.  The amount of a shift by an immediate *)
(* is the rs2 field of the instruction.                                    *)
immediate(i) ==
    CASE i.op \in {"LUI", "AUIPC"}             -> (i.field * 2^IMM) % M
      [] i.op \in Branches \cup {"JAL"}        -> (2 * Integer(i.field, IMM)) % M
      [] i.op \in {"SLLI", "SRLI", "SRAI"}     -> i.field % 2^SHIFT
      [] OTHER                                 -> Integer(i.field, IMM) % M

-----------------------------------------------------------------------------
(* RunInsn, by opcode.                                                     *)

Writes1(rd, value) == reg' = IF rd = 0 THEN reg ELSE [reg EXCEPT ![rd] = value]
Jumps(target) ==
    /\ PC' = target
    /\ outcome' = IF target % 4 = 0 THEN "done" ELSE "exception"
Advances == PC' = (PC + 4) % M /\ outcome' = "done"
Throws == outcome' = "exception" /\ UNCHANGED <<reg, PC, data>>

RunUpper(i) ==
    /\ i.op \in {"LUI", "AUIPC"}
    /\ Writes1(i.rd, IF i.op = "LUI" THEN immediate(i) ELSE (PC + immediate(i)) % M)
    /\ Advances /\ UNCHANGED data

RunJal(i) ==
    /\ i.op = "JAL"
    /\ Writes1(i.rd, (PC + 4) % M)
    /\ Jumps((PC + immediate(i)) % M)
    /\ UNCHANGED data

(* The link is written before rs1 is read, and regRD and regRS1 may be     *)
(* references to one variable.                                             *)
RunJalr(i) ==
    LET base   == IF i.rs1 = i.rd THEN PC + 4 ELSE getReg(i.rs1)
        target == (base + immediate(i)) % M
    IN  /\ i.op = "JALR"
        /\ Writes1(i.rd, (PC + 4) % M)
        /\ Jumps(target - (target % 2))
        /\ UNCHANGED data

RunBranch(i) ==
    /\ i.op \in Branches
    /\ IF branchCond(i.op, getReg(i.rs1), getReg(i.rs2)) THEN Jumps((PC + immediate(i)) % M)
                                                         ELSE Advances
    /\ UNCHANGED <<reg, data>>

RunLoad(i) ==
    LET addr == (getReg(i.rs1) + immediate(i)) % M
    IN  /\ i.op \in Loads
        /\ IF Misaligned(i.op, addr) THEN Throws
           ELSE Writes1(i.rd, load(i.op, addr)) /\ Advances /\ UNCHANGED data

RunStore(i) ==
    LET addr == (getReg(i.rs1) + immediate(i)) % M
    IN  /\ i.op \in Stores
        /\ IF Misaligned(i.op, addr) THEN Throws
           ELSE data' = store(i.op, addr, getReg(i.rs2)) /\ Advances /\ UNCHANGED reg

RunAlu(i) ==
    /\ i.op \in ImmOps \cup RegOps
    /\ \E v \in IF i.op \in ImmOps THEN alu(AluOp[i.op], getReg(i.rs1), immediate(i))
                                   ELSE alu(i.op, getReg(i.rs1), getReg(i.rs2)) :
          Writes1(i.rd, v)
    /\ Advances /\ UNCHANGED data

RunInsn ==
    /\ outcome = "none" /\ insn # NoInsn
    /\ \/ RunUpper(insn) \/ RunJal(insn) \/ RunJalr(insn) \/ RunBranch(insn)
       \/ RunLoad(insn) \/ RunStore(insn) \/ RunAlu(insn)
    /\ UNCHANGED insn

(* Registers and memory hold what the instruction is to find. *)
SimFetch ==
    /\ insn = NoInsn
    /\ insn' \in Insns
    /\ reg' = [r \in Regs |-> IF r = insn'.rs1 THEN insn'.r1
                              ELSE IF r = insn'.rs2 THEN insn'.r2 ELSE 0]
    /\ PC' = insn'.pc /\ data' = insn'.word
    /\ UNCHANGED outcome

SimInit ==
    /\ insn = NoInsn /\ outcome = "none"
    /\ reg = [r \in Regs |-> 0] /\ PC = 0 /\ data = 0

(* Back to the next instruction, with nothing of this one. *)
SimRetire ==
    /\ outcome = "done"
    /\ insn' = NoInsn /\ outcome' = "none"
    /\ reg' = [r \in Regs |-> 0] /\ PC' = 0 /\ data' = 0

SimNext == SimFetch \/ RunInsn \/ SimRetire

SimSpec == SimInit /\ [][SimNext]_simVars

-----------------------------------------------------------------------------
(* The instruction as Rv32i has it: by the values of its registers. *)
Found ==
    LET At0(id, v) == IF id = 0 THEN 0 ELSE v
    IN  [insn EXCEPT !.r1 = At0(insn.rs1, @),
                     !.r2 = IF insn.rs2 = insn.rs1 THEN At0(insn.rs1, insn.r1)
                            ELSE At0(insn.rs2, @)]

(* Where the simulator leaves RV32I: negative bytes and half words, a      *)
(* JALR whose link register is its base, and shifts by a register that     *)
(* holds more than the width of a word allows.                             *)
Departs(i) ==
    \/ i.op \in {"LB", "LH"} /\ Loaded(i) >= 2^(XLEN - 1)
    \/ i.op = "JALR" /\ i.rd = i.rs1
    \/ i.op \in {"SLL", "SRL", "SRA"} /\ i.r2 >= XLEN

(* Apart from these the simulator executes every instruction for every     *)
(* operand and every choice of registers, x0 included, as RV32I says, and  *)
(* throws only where an access or a jump is misaligned.                    *)
SimulatorExecutesRv32i ==
    LET i == Found
    IN  /\ outcome = "done" /\ ~Departs(i) =>
              /\ \A r \in Regs :
                    IF r = i.rd /\ Writes(i) THEN reg[r] = Result(i)
                    ELSE r = i.rs1 => reg[r] = i.r1
              /\ \A k \in 0 .. 3 : Byte(data, k) = Stored(i, k)
              /\ PC = NextPc(i)
        /\ outcome = "exception" =>
              ~Aligned(i) \/ NextPc(i) % 4 # 0 \/ Departs(i)
=============================================================================
