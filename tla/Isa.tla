--------------------------------- MODULE Isa ---------------------------------
(***************************************************************************)
(* What the README promises of the CPU: the instructions of a program are  *)
(* executed one after the other, each completely, in the order the program *)
(* counter names them.  Words are integers modulo WORDS and every address  *)
(* (of an instruction or of data) is a word address; one instruction of    *)
(* each kind the pipeline treats differently is kept.                      *)
(*                                                                         *)
(* IN_ADDR and OUT_ADDR are the memory-mapped ports of Test/io.h, as       *)
(* Environment serves them: a load from the first consumes one item of     *)
(* input and a store to the second emits one item of output, so executing  *)
(* an access twice, or an access that should never have been executed, can *)
(* be told from executing it once.                                         *)
(***************************************************************************)
EXTENDS Naturals

CONSTANTS
    WORDS,      \* number of values of a machine word
    REGS,       \* number of registers, x0 included
    IN_ADDR,    \* input port
    OUT_ADDR,   \* output port
    Programs,   \* programs considered: functions from addresses to instructions
    InitRegs,   \* register contents at power-on, which the code leaves open
    InitMem     \* memory contents at power-on

VARIABLES
    prog,       \* the program in instruction memory
    pc,         \* address of the next instruction to execute
    regs,
    mem,        \* data memory
    inputs,     \* items of input consumed, modulo WORDS
    outputs     \* how many items were emitted, modulo WORDS, and the last one

ivars == <<prog, pc, regs, mem, inputs, outputs>>

Word == 0 .. WORDS - 1
Add(a, b) == (a + b) % WORDS

Init ==
    /\ prog \in Programs
    /\ pc = 0
    /\ regs = InitRegs
    /\ mem = InitMem
    /\ inputs = 0 /\ outputs = [count |-> 0, last |-> 0]

inst == prog[pc]
rs1  == regs[inst.rs1]
rs2  == regs[inst.rs2]
Write(d) == regs' = IF inst.rd = 0 THEN regs ELSE [regs EXCEPT ![inst.rd] = d]
Step     == pc' = Add(pc, 1)
NoMemory == UNCHANGED <<mem, inputs, outputs>>

Compute ==
    /\ \/ inst.op = "LUI"   /\ Write(inst.imm)
       \/ inst.op = "AUIPC" /\ Write(Add(pc, inst.imm))
       \/ inst.op = "ADDI"  /\ Write(Add(rs1, inst.imm))
       \/ inst.op = "ADD"   /\ Write(Add(rs1, rs2))
       \/ inst.op = "FENCE" /\ UNCHANGED regs
    /\ Step /\ NoMemory

Jump ==
    /\ \/ inst.op = "JAL"  /\ pc' = Add(pc, inst.imm)
       \/ inst.op = "JALR" /\ pc' = Add(rs1, inst.imm)
    /\ Write(Add(pc, 1)) /\ NoMemory

Branch ==
    /\ inst.op \in {"BEQ", "BNE"}
    /\ pc' = Add(pc, IF (rs1 = rs2) = (inst.op = "BEQ") THEN inst.imm ELSE 1)
    /\ UNCHANGED regs /\ NoMemory

Load ==
    LET a == Add(rs1, inst.imm)
    IN  /\ inst.op = "LW"
        /\ \/ a = IN_ADDR /\ Write(inputs) /\ inputs' = Add(inputs, 1)
           \/ a # IN_ADDR /\ Write(mem[a]) /\ UNCHANGED inputs
        /\ Step /\ UNCHANGED <<mem, outputs>>

Store ==
    LET a == Add(rs1, inst.imm)
    IN  /\ inst.op = "SW"
        /\ mem' = IF a \in {IN_ADDR, OUT_ADDR} THEN mem
                  ELSE [mem EXCEPT ![a] = rs2]
        /\ outputs' = IF a # OUT_ADDR THEN outputs
                      ELSE [count |-> Add(outputs.count, 1), last |-> rs2]
        /\ Step /\ UNCHANGED <<regs, inputs>>

RunInsn == (Compute \/ Jump \/ Branch \/ Load \/ Store) /\ UNCHANGED prog

Spec == Init /\ [][RunInsn]_ivars
=============================================================================
