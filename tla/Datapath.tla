------------------------------ MODULE Datapath ------------------------------
(***************************************************************************)
(* What ID, EX and ME compute for one instruction on its way through the   *)
(* stages, with real operands: how immediates are widened, the ALU, the    *)
(* branch conditions, and the byte lanes of loads and stores.  How several *)
(* instructions share the stages is in Pipeline.                           *)
(*                                                                         *)
(* The immediate field stands for the bits of the instruction that hold    *)
(* it, put in order; B and J immediates are as long as I ones here.        *)
(***************************************************************************)
EXTENDS Rv32i

CONSTANTS
    Operands,       \* register and memory contents considered
    Pcs             \* addresses of instructions considered

ASSUME DatapathAssumption ==
    /\ SHIFT \in Nat /\ SHIFT >= 2
    /\ IMM \in Nat /\ IMM >= SHIFT /\ IMM < XLEN
    /\ Operands \subseteq Word /\ Pcs \subseteq Word

VARIABLES
    stage,      \* the stage the instruction is in
    inst,       \* the instruction, with the registers and memory it finds
    ex,         \* the ID_EX register
    me,         \* the EX_ME register
    wb,         \* the ME_WB register
    pc,         \* PC_reg
    word        \* the word of memory the instruction addresses

vars == <<stage, inst, ex, me, wb, pc, word>>

Instructions ==
    [op : Mnemonics, field : 0 .. 2^IMM - 1, r1 : Operands, r2 : Operands,
     pc : Pcs, word : Operands]
Nop == [op |-> "ADDI", field |-> 0, r1 |-> 0, r2 |-> 0, pc |-> 0, word |-> 0]

ExBubble == [aluop |-> "NOP", alusel |-> "NOP", r1 |-> 0, r2 |-> 0, pc |-> 0,
             offset |-> 0, w_enable |-> FALSE]
MeBubble == [aluop |-> "NOP", addr |-> 0, w_data |-> 0, w_enable |-> FALSE]
WbBubble == [w_data |-> 0, w_enable |-> FALSE]

-----------------------------------------------------------------------------
(* ID.                                                                     *)

(* {n{x[bits-1]}, x} *)
SignExtended(x, bits) ==
    IF x \div 2^(bits - 1) = 1 THEN (M - 2^bits) + x ELSE x

immUnsigned(op, f) ==                                            \* mutant
    CASE op \in {"LUI", "AUIPC"}                  -> (f * 2^IMM) % M
      [] op \in Branches \cup {"JAL"}             -> (2 * SignExtended(f, IMM)) % M
      [] op \in {"SLLI", "SRLI", "SRAI"}          -> f % 2^SHIFT
      [] op \in LogicImmediates \cup {"SLTIU"}    -> f
      [] op \in Loads \cup Stores \cup {"JALR", "ADDI", "SLTI"}
                                                  -> SignExtended(f, IMM)
      [] OTHER                                    -> 0

imm(op, f) ==
    CASE op \in {"LUI", "AUIPC"}                  -> (f * 2^IMM) % M
      [] op \in Branches \cup {"JAL"}             -> (2 * SignExtended(f, IMM)) % M
      [] op \in {"SLLI", "SRLI", "SRAI"}          -> f % 2^SHIFT
      [] op \in LogicImmediates                   -> f
      [] op \in Loads \cup Stores \cup {"JALR", "ADDI", "SLTI", "SLTIU"}
                                                  -> SignExtended(f, IMM)
      [] OTHER                                    -> 0

(* Instructions that reach EX under another name. *)
Renamed ==
    [LUI |-> "OR", ADDI |-> "ADD", SLTI |-> "SLT", SLTIU |-> "SLTU",
     XORI |-> "XOR", ORI |-> "OR", ANDI |-> "AND", SLLI |-> "SLL",
     SRLI |-> "SRL", SRAI |-> "SRA"]
aluop(op) == IF op \in DOMAIN Renamed THEN Renamed[op] ELSE op

alusel(op) ==
    CASE op \in {"LUI", "XOR", "OR", "AND"} \cup LogicImmediates -> "LOGIC"
      [] aluop(op) \in {"SLL", "SRL", "SRA"}                     -> "SHIFT"
      [] aluop(op) \in {"ADD", "SUB", "SLT", "SLTU", "AUIPC"}    -> "ARITH"
      [] op \in {"JAL", "JALR"}                                  -> "J_B"
      [] op \in Loads \cup Stores                                -> "LD_ST"
      [] op \in Branches                                         -> "NOP"

r1_enable(op) == op \notin {"LUI", "AUIPC", "JAL"}
r2_enable(op) == op \in Branches \cup Stores \cup RegOps

(* An operand that is not read from a register is the immediate. *)
id2ex(i) ==
    LET v == imm(i.op, i.field)
    IN  [aluop |-> aluop(i.op), alusel |-> alusel(i.op),
         r1 |-> IF r1_enable(i.op) THEN i.r1 ELSE v,
         r2 |-> IF r2_enable(i.op) THEN i.r2 ELSE v,
         pc |-> i.pc, offset |-> v,
         w_enable |-> i.op \notin Branches \cup Stores]

-----------------------------------------------------------------------------
(* EX.                                                                     *)

sum_res == IF ex.aluop = "SUB" THEN (ex.r1 - ex.r2) % M ELSE (ex.r1 + ex.r2) % M

(* $signed(r1) < $signed(r2): the sign bits are compared the other way. *)
lt_res ==
    LET Biased(x) == (x + 2^(XLEN - 1)) % M
    IN  IF ex.aluop \in {"SLT", "BLT", "BGE"} THEN Biased(ex.r1) < Biased(ex.r2)
        ELSE ex.r1 < ex.r2
eq_res == ex.r1 = ex.r2

ex_b_flag ==
    CASE ex.aluop = "JALR"             -> TRUE
      [] ex.aluop = "BEQ"              -> eq_res
      [] ex.aluop = "BNE"              -> ~eq_res
      [] ex.aluop \in {"BLT", "BLTU"}  -> lt_res
      [] ex.aluop \in {"BGE", "BGEU"}  -> ~lt_res
      [] OTHER                         -> FALSE
ex_b_target_addr ==
    IF ex.aluop = "JALR" THEN sum_res - (sum_res % 2) ELSE (ex.pc + ex.offset) % M

logic_res ==
    CASE ex.aluop = "OR"  -> ex.r1 | ex.r2
      [] ex.aluop = "XOR" -> ex.r1 ^^ ex.r2
      [] ex.aluop = "AND" -> ex.r1 & ex.r2

(* For SRA, the sign is shifted in from a word of sign bits. *)
shift_res ==
    LET n     == ex.r2 % 2^SHIFT
        right == ex.r1 \div 2^n
        signs == IF ex.r1 \div 2^(XLEN - 1) = 1 THEN M - 1 ELSE 0
    IN  CASE ex.aluop = "SLL" -> (ex.r1 * 2^n) % M
          [] ex.aluop = "SRL" -> right
          [] ex.aluop = "SRA" -> ((signs * 2^(XLEN - n)) % M) | right

arith_res ==
    CASE ex.aluop \in {"SLT", "SLTU"} -> IF lt_res THEN 1 ELSE 0
      [] ex.aluop \in {"ADD", "SUB"}  -> sum_res
      [] ex.aluop = "AUIPC"           -> (ex.pc + ex.offset) % M

ex_w_data ==
    CASE ex.alusel = "LOGIC" -> logic_res
      [] ex.alusel = "SHIFT" -> shift_res
      [] ex.alusel = "ARITH" -> arith_res
      [] ex.alusel = "J_B"   -> (ex.pc + 4) % M
      [] ex.alusel = "LD_ST" -> ex.r2
      [] ex.alusel = "NOP"   -> 0

mem_addr == (ex.r1 + ex.offset) % M
ex2me ==
    [aluop |-> IF ex.aluop \in Loads \cup Stores THEN ex.aluop ELSE "NOP",
     addr |-> mem_addr, w_data |-> ex_w_data, w_enable |-> ex.w_enable]

-----------------------------------------------------------------------------
(* ME.                                                                     *)

Lanes  == 0 .. 3
lane   == me.addr % 4
Bits(w, first, last) == (w \div 2^first) % 2^(last - first + 1)

(* The byte or half word that is loaded; a half word at an odd address     *)
(* reads as zero, and a word is read whole wherever its address points.    *)
LoadedByte == Bits(word, BYTE * lane, BYTE * lane + BYTE - 1)
LoadedHalf ==
    IF lane \in {0, 2} THEN Bits(word, BYTE * lane, BYTE * lane + 2 * BYTE - 1) ELSE 0
load_data ==
    CASE me.aluop = "LB"  -> SignExtended(LoadedByte, BYTE)
      [] me.aluop = "LBU" -> LoadedByte
      [] me.aluop = "LH"  -> SignExtended(LoadedHalf, 2 * BYTE)
      [] me.aluop = "LHU" -> LoadedHalf
      [] me.aluop = "LW"  -> word

(* The value stored is repeated in every lane and the mask picks its own. *)
ram_w_data ==
    LET b == Bits(me.w_data, 0, BYTE - 1)
        h == Bits(me.w_data, 0, 2 * BYTE - 1)
    IN  CASE me.aluop = "SB" -> b + b * 2^BYTE + b * 2^(2 * BYTE) + b * 2^(3 * BYTE)
          [] me.aluop = "SH" -> h + h * 2^(2 * BYTE)
          [] me.aluop = "SW" -> me.w_data

ram_w_mask ==
    CASE me.aluop = "SB" -> {lane}
      [] me.aluop = "SH" -> IF lane \in {0, 2} THEN {lane, lane + 1} ELSE {}
      [] me.aluop = "SW" -> Lanes

(* The memory below writes the lanes the mask selects. *)
Masked(old, new, mask) ==
    LET B(l) == Bits(IF l \in mask THEN new ELSE old, BYTE * l, BYTE * l + BYTE - 1)
    IN  B(0) + B(1) * 2^BYTE + B(2) * 2^(2 * BYTE) + B(3) * 2^(3 * BYTE)

-----------------------------------------------------------------------------

Init ==
    /\ stage = "IF" /\ inst = Nop
    /\ ex = ExBubble /\ me = MeBubble /\ wb = WbBubble
    /\ pc = 0 /\ word = 0

Fetch ==
    /\ stage = "IF"
    /\ \E i \in Instructions :
          inst' = i /\ word' = i.word /\ pc' = (i.pc + 4) % M
    /\ stage' = "ID"
    /\ UNCHANGED <<ex, me, wb>>

(* JAL jumps from here. *)
Decode ==
    /\ stage = "ID"
    /\ ex' = id2ex(inst)
    /\ pc' = IF inst.op = "JAL" THEN (inst.pc + imm(inst.op, inst.field)) % M ELSE pc
    /\ stage' = "EX"
    /\ UNCHANGED <<inst, me, wb, word>>

Execute ==
    /\ stage = "EX"
    /\ me' = ex2me
    /\ pc' = IF ex_b_flag THEN ex_b_target_addr ELSE pc
    /\ ex' = ExBubble
    /\ stage' = "ME"
    /\ UNCHANGED <<inst, wb, word>>

Access ==
    /\ stage = "ME"
    /\ word' = IF me.aluop \in Stores THEN Masked(word, ram_w_data, ram_w_mask) ELSE word
    /\ wb' = [w_enable |-> me.w_enable,
              w_data |-> IF me.aluop \in Loads THEN load_data ELSE me.w_data]
    /\ me' = MeBubble
    /\ stage' = "WB"
    /\ UNCHANGED <<inst, ex, pc>>

Retire ==
    /\ stage = "WB"
    /\ stage' = "IF" /\ inst' = Nop /\ wb' = WbBubble /\ pc' = 0 /\ word' = 0
    /\ UNCHANGED <<ex, me>>

Next == Fetch \/ Decode \/ Execute \/ Access \/ Retire

Spec == Init /\ [][Next]_vars
-----------------------------------------------------------------------------

(* The instruction has left the register it writes, the memory and the     *)
(* program counter as RV32I says.                                          *)
Executed ==
    /\ wb.w_enable = Writes(inst)
    /\ wb.w_enable => wb.w_data = Result(inst)
    /\ \A k \in Lanes : Byte(word, k) = Stored(inst, k)
    /\ pc = NextPc(inst)

(* The code takes the immediate of ORI, XORI and ANDI as unsigned; where   *)
(* the manual's is negative the two disagree.                              *)
SameImmediate(i) == i.op \in LogicImmediates => Immediate(i) >= 0

(* Every instruction is executed, for every operand: signs, wrap-around,   *)
(* shift amounts, and the lanes of bytes and half words.  Misaligned       *)
(* accesses, which RV32I leaves to the implementation, and negative        *)
(* logical immediates are excepted.                                        *)
ExecutesRv32i ==
    stage = "WB" /\ Aligned(inst) /\ SameImmediate(inst) => Executed

(* README, feature 1 and table B: the instructions of RV32I are executed,  *)
(* logical immediates included.                                            *)
ExecutesTableB == stage = "WB" /\ Aligned(inst) => Executed
=============================================================================
