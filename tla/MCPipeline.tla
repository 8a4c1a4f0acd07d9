----------------------------- MODULE MCPipeline -----------------------------
(* Small instances of Pipeline: every program of four instructions drawn   *)
(* from a repertoire, on a machine of four words and three registers.      *)
EXTENDS Pipeline

I(op, rd, rs1, rs2, imm) ==
    [op |-> op, rd |-> rd, rs1 |-> rs1, rs2 |-> rs2, imm |-> imm]

MCInitRegs == [r \in RegIds |-> r]
MCInitMem  == [a \in Word |-> (a + 2) % WORDS]

(* Producers and consumers at every distance, x0 as a destination,         *)
(* load-use pairs, accesses to both ports.                        *)
DataInsts ==
    { I("ADDI", 1, 1, 0, 1), I("ADD", 2, 1, 2, 0), I("ADDI", 0, 1, 0, 1),
      I("LW", 1, 0, 0, 2), I("LW", 1, 1, 0, 0), I("LW", 0, 2, 0, 1),
      I("SW", 0, 1, 2, 0), I("LUI", 1, 0, 0, 3) }

(* Jumps and branches forwards, backwards and to themselves, with links    *)
(* and operands that are produced just before, and an access each way.     *)
JumpInsts ==
    { I("ADDI", 1, 1, 0, 1), I("JAL", 1, 0, 0, 2), I("JAL", 0, 0, 0, 3),
      I("JALR", 1, 1, 0, 0), I("JALR", 2, 1, 0, 3), I("BEQ", 0, 1, 2, 2),
      I("BNE", 0, 1, 2, 3), I("LW", 2, 0, 0, 2), I("SW", 0, 0, 1, 3),
      I("AUIPC", 2, 0, 0, 2), I("FENCE", 1, 1, 0, 0) }
Second == {i \in JumpInsts : i.op \in {"AUIPC", "FENCE", "BNE"}}

(* Three of them are tried in the second place only, to save time. *)
JumpPrograms ==
    {p \in [Word -> JumpInsts] : \A a \in Word : p[a] \in Second => a = 1}

AllPrograms == [Word -> Insts]
=============================================================================
