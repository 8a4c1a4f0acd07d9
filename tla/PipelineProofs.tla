--------------------------- MODULE PipelineProofs ---------------------------
(* Theorems about Pipeline for every word size, register count and program. *)
EXTENDS Pipeline, TLAPS

LEMMA AddType ==
    ASSUME NEW a \in Word, NEW b \in Word
    PROVE  Add(a, b) \in Word
BY PipelineAssumption DEF Word, Add

LEMMA SmallWords == 0 \in Word /\ 1 \in Word /\ 0 \in RegIds
BY PipelineAssumption DEF Word, RegIds

(* Ctrl raises a prefix of the stall vector: fetch and decode are held     *)
(* together, and a stalled memory stage holds everything before it.        *)
LEMMA StallPrefix ==
    /\ stall(0) <=> stall(1)
    /\ stall(3) <=> stall(4)
    /\ stall(3) <=> me_stall_req
    /\ stall(2) <=> me_stall_req \/ id_stall_req
    /\ if_stall_req => stall(0)
    /\ stall(2) => stall(0)
BY DEF stall, stall_level

-----------------------------------------------------------------------------

LEMMA InitJumpBits == Init => JumpBitsAgree
BY DEF Init, JumpBitsAgree

LEMMA StepJumpBits == JumpBitsAgree /\ [Clock]_vars => JumpBitsAgree'
<1> SUFFICES ASSUME JumpBitsAgree, [Clock]_vars PROVE JumpBitsAgree'
  OBVIOUS
<1>1. CASE Clock
  <2>1. (next_jump = ifid_jump)'
    BY <1>1, StallPrefix DEF Clock, PC_reg_Edge, IF_ID_Edge, JumpBitsAgree
  <2>2. (idex_jump => ex_b_flag)'
    <3>1. CASE stall(2) /\ stall(3)
      BY <1>1, <3>1 DEF Clock, ID_EX_Edge, JumpBitsAgree, ex_b_flag
    <3>2. CASE stall(2) /\ ~stall(3)
      <4>1. is_ld
        BY <3>2, StallPrefix DEF id_stall_req
      <4>2. ~ex_b_flag
        BY <4>1 DEF is_ld, ex_b_flag
      <4> QED BY <1>1, <3>2, <4>2 DEF Clock, ID_EX_Edge, JumpBitsAgree
    <3>3. CASE ~stall(2)
      BY <1>1, <3>3 DEF Clock, ID_EX_Edge
    <3> QED BY <3>1, <3>2, <3>3
  <2> QED BY <2>1, <2>2 DEF JumpBitsAgree
<1>2. CASE UNCHANGED vars
  BY <1>2 DEF vars, pcVars, idVars, exVars, JumpBitsAgree, ex_b_flag
<1> QED BY <1>1, <1>2

(* For every program and every cache latency, the copies of the jump bit   *)
(* in PC_reg, IF_ID and ID_EX agree.                                       *)
THEOREM JumpBits == Spec => []JumpBitsAgree
BY InitJumpBits, StepJumpBits, PTL DEF Spec

-----------------------------------------------------------------------------

(* A port never answers while it is still busy. *)
PortsOK == ~(icache.busy /\ icache.done) /\ ~(dcache.busy /\ dcache.done)

AInv == AnswersMatchRequests /\ PortsOK

LEMMA InitAnswers == Init => AInv
BY DEF Init, AInv, PortsOK, AnswersMatchRequests, IcacheIdle, IcacheDone, DcacheIdle

(* While the instruction port has not answered, the program counter stays. *)
LEMMA PcHeld ==
    ASSUME Clock, ~icache.done
    PROVE  pc' = pc
BY StallPrefix DEF Clock, PC_reg_Edge, if_stall_req

(* While a data access has not been answered, EX_ME stays. *)
LEMMA MeHeld ==
    ASSUME Clock, me.op \in MemOps, ~dcache.done
    PROVE  me' = me
BY StallPrefix DEF Clock, EX_ME_Edge, me_stall_req

LEMMA StepIcache ==
    ASSUME AInv, Clock
    PROVE  /\ (icache.busy => icache.addr = pc)'
           /\ (icache.done => icache.data = prog[pc])'
           /\ ~(icache.busy /\ icache.done)'
<1>0. prog' = prog /\ (IF rom THEN Inst_rom ELSE icache_Edge)
  BY DEF Clock
<1>a. CASE rom
  BY <1>0, <1>a DEF Inst_rom, IcacheDone
<1>1. CASE ~rom /\ icache.done
  <2>1. icache' = IcacheIdle
    BY <1>0, <1>1 DEF icache_Edge, if_r_enable, AInv, PortsOK
  <2> QED BY <2>1 DEF IcacheIdle
<1>2. CASE ~rom /\ ~icache.done
  <2>1. pc' = pc
    BY <1>2, PcHeld
  <2>2. CASE icache' = IcacheBusy(pc)
    BY <2>1, <2>2 DEF IcacheBusy
  <2>3. CASE icache' = IcacheDone(prog[pc])
    BY <1>0, <2>1, <2>3 DEF IcacheDone
  <2>4. CASE icache' = icache
    BY <1>2, <2>1, <2>4 DEF AInv, AnswersMatchRequests
  <2> QED
    BY <1>0, <1>2, <2>2, <2>3, <2>4
       DEF icache_Edge, if_r_enable, AInv, AnswersMatchRequests
<1> QED BY <1>a, <1>1, <1>2

LEMMA StepDcache ==
    ASSUME AInv, Clock
    PROVE  /\ (dcache.busy => dcache.req = ram_access)'
           /\ (dcache.busy \/ dcache.done => me.op \in MemOps)'
           /\ ~(dcache.busy /\ dcache.done)'
<1>0. dcache_Edge
  BY DEF Clock
<1>1. CASE ~dcache.busy /\ ~ram_enable
  <2>1. dcache' = DcacheIdle
    BY <1>0, <1>1 DEF dcache_Edge
  <2> QED BY <2>1 DEF DcacheIdle
<1>2. CASE dcache.busy \/ ram_enable
  <2>1. me.op \in MemOps /\ ~dcache.done
    BY <1>2 DEF ram_enable, AInv, PortsOK, AnswersMatchRequests
  <2>2. me' = me
    BY <2>1, MeHeld
  <2>3. CASE dcache' = DcacheBusy(ram_access)
    BY <2>1, <2>2, <2>3 DEF DcacheBusy, ram_access
  <2>4. ASSUME NEW d, dcache' = DcacheDone(d)
        PROVE  dcache'.done /\ ~dcache'.busy
    BY <2>4 DEF DcacheDone
  <2>5. CASE dcache' = dcache /\ dcache.busy
    BY <2>1, <2>2, <2>5 DEF AInv, AnswersMatchRequests, ram_access
  <2>6. \/ dcache' = DcacheBusy(ram_access)
        \/ \E d : dcache' = DcacheDone(d)
        \/ dcache' = dcache /\ dcache.busy
    BY <1>0, <1>2 DEF dcache_Edge, dcache_Complete
  <2> QED BY <2>1, <2>2, <2>3, <2>4, <2>5, <2>6
<1> QED BY <1>1, <1>2

LEMMA StepAnswers == AInv /\ [Clock]_vars => AInv'
<1> SUFFICES ASSUME AInv, [Clock]_vars PROVE AInv'
  OBVIOUS
<1>1. CASE Clock
  BY <1>1, StepIcache, StepDcache DEF AInv, PortsOK, AnswersMatchRequests
<1>2. CASE UNCHANGED vars
  BY <1>2 DEF vars, pcVars, AInv, PortsOK, AnswersMatchRequests, ram_access
<1> QED BY <1>1, <1>2

(* For every program and every cache latency, what a cache answers belongs *)
(* to the instruction the pipeline gives it to.                            *)
THEOREM Answers == Spec => []AnswersMatchRequests
<1>1. AInv => AnswersMatchRequests
  BY DEF AInv
<1> QED BY InitAnswers, StepAnswers, <1>1, PTL DEF Spec

-----------------------------------------------------------------------------

(* An instruction register holds a well-formed instruction. *)
LEMMA InstType ==
    ASSUME NEW i \in Insts \cup {ZeroWord}
    PROVE  /\ i.op \in Ops /\ i.imm \in Word
           /\ i.rd \in RegIds /\ i.rs1 \in RegIds /\ i.rs2 \in RegIds
BY SmallWords, PipelineAssumption DEF Inst, ZeroWord, Ops

LEMMA BubbleType ==
    /\ IdBubble \in IdReg /\ ExBubble \in ExReg /\ MeBubble \in MeReg
    /\ WbBubble \in WbReg /\ NoAccess \in Access
    /\ IcacheIdle \in IcachePort /\ DcacheIdle \in DcachePort
<1>1. "NOP" \in Ops
  BY DEF Ops
<1>2. NoAccess \in Access
  BY <1>1, SmallWords DEF NoAccess, Access
<1>3. IdBubble \in IdReg /\ WbBubble \in WbReg /\ IcacheIdle \in IcachePort
  BY SmallWords DEF IdBubble, IdReg, WbBubble, WbReg, IcacheIdle, IcachePort
<1>4. ExBubble \in ExReg /\ MeBubble \in MeReg
  BY <1>1, SmallWords DEF ExBubble, ExReg, MeBubble, MeReg
<1>5. DcacheIdle \in DcachePort
  BY <1>2, SmallWords DEF DcacheIdle, DcachePort
<1> QED BY <1>2, <1>3, <1>4, <1>5

LEMMA InitType == Init => TypeOK
<1> SUFFICES ASSUME Init PROVE TypeOK
  OBVIOUS
<1>1. outputs \in [count : Word, last : Word] /\ inputs \in Word
  BY SmallWords DEF Init
<1>2. mem \in [Word -> Word] /\ regs \in [RegIds -> Word] /\ prog \in Programs
  BY PipelineAssumption DEF Init
<1>3. icache \in IcachePort
  <2>1. prog[0] \in Insts
    BY <1>2, SmallWords, PipelineAssumption
  <2>2. IcacheDone(prog[0]) \in IcachePort
    BY <2>1, SmallWords DEF IcacheDone, IcachePort
  <2> QED BY <2>2, BubbleType DEF Init
<1>4. rom \in BOOLEAN
  BY PipelineAssumption DEF Init
<1> QED BY <1>1, <1>2, <1>3, <1>4, SmallWords, BubbleType DEF Init, TypeOK

(* What EX computes is a word. *)
LEMMA ExType ==
    ASSUME TypeOK
    PROVE  /\ ex2id_w_data \in Word /\ ex_b_target_addr \in Word
           /\ ex2me \in MeReg
<1>1. /\ ex.op \in Ops /\ ex.r1 \in Word /\ ex.r2 \in Word
      /\ ex.w_enable \in BOOLEAN /\ ex.w_addr \in RegIds
      /\ ex.pc \in Word /\ ex.offset \in Word /\ ex.v \in BOOLEAN
  BY DEF TypeOK, ExReg
<1>2. /\ Add(ex.r1, ex.r2) \in Word /\ Add(ex.pc, ex.offset) \in Word
      /\ Add(ex.pc, 1) \in Word /\ Add(ex.r1, ex.offset) \in Word
  BY <1>1, AddType, SmallWords
<1>3. ex_res \in Word
  BY <1>1, <1>2, SmallWords DEF ex_res
<1>4. ex2id_w_data \in Word /\ ex_b_target_addr \in Word
  BY <1>2, <1>3, SmallWords DEF ex2id_w_data, ex_b_target_addr
<1>5. ex2id_w_enable \in BOOLEAN
  BY <1>1 DEF ex2id_w_enable, ex_to_x0
<1>6. (IF ex.op \in MemOps THEN ex.op ELSE "NOP") \in Ops
  BY <1>1 DEF Ops
<1> QED BY <1>1, <1>2, <1>4, <1>5, <1>6 DEF ex2me, MeReg

(* What ID selects, forwarded or not, is a word. *)
LEMMA IdType ==
    ASSUME TypeOK
    PROVE  id2ex \in ExReg /\ id_b_target_addr \in Word
<1>1. /\ id.pc \in Word /\ id.v \in BOOLEAN
      /\ id.inst.op \in Ops /\ id.inst.imm \in Word /\ id.inst.rd \in RegIds
      /\ id.inst.rs1 \in RegIds /\ id.inst.rs2 \in RegIds
  BY InstType DEF TypeOK, IdReg
<1>2. me2id_w_data \in Word
  BY DEF me2id_w_data, TypeOK, MeReg, DcachePort
<1>3. \A r \in RegIds : Forward(r) \in Word
  BY <1>2, ExType DEF Forward, r_data, TypeOK, WbReg
<1>4. /\ (IF r1_enable THEN Forward(id.inst.rs1) ELSE id.inst.imm) \in Word
      /\ (IF r2_enable THEN Forward(id.inst.rs2) ELSE id.inst.imm) \in Word
  BY <1>1, <1>3
<1>5. (IF id.inst.op = "FENCE" THEN "NOP" ELSE id.inst.op) \in Ops
  BY <1>1 DEF Ops
<1>6. id_w_enable \in BOOLEAN /\ id_w_addr \in RegIds
  BY <1>1, SmallWords DEF id_w_enable, id_w_addr
<1>7. id2ex \in ExReg
  BY <1>1, <1>4, <1>5, <1>6 DEF id2ex, ExReg
<1> QED BY <1>1, <1>7, AddType DEF id_b_target_addr

LEMMA StepType == TypeOK /\ [Clock]_vars => TypeOK'
<1> SUFFICES ASSUME TypeOK, Clock PROVE TypeOK'
  BY DEF vars, pcVars, idVars, exVars, memVars, TypeOK
<1>1. rom' \in BOOLEAN /\ prog' \in Programs /\ \A a \in Word : prog[a] \in Insts
  BY PipelineAssumption DEF Clock, TypeOK
<1>2. pc' \in Word /\ next_jump' \in BOOLEAN /\ target_addr' \in Word
  BY IdType, ExType, AddType, SmallWords
     DEF Clock, PC_reg_Edge, TypeOK, ex_b_flag, id_b_flag
<1>3. icache' \in IcachePort
  <2>1. \A a \in Word : IcacheBusy(a) \in IcachePort
    BY DEF IcacheBusy, IcachePort
  <2>2. \A i \in Insts : IcacheDone(i) \in IcachePort
    BY SmallWords DEF IcacheDone, IcachePort
  <2>3. icache.addr \in Word
    BY DEF TypeOK, IcachePort
  <2>4. CASE rom
    BY <1>1, <1>2, <2>2, <2>4 DEF Clock, Inst_rom
  <2>5. CASE ~rom
    BY <1>1, <2>1, <2>2, <2>3, <2>5, BubbleType DEF Clock, icache_Edge, TypeOK
  <2> QED BY <2>4, <2>5
<1>4. id' \in IdReg /\ ifid_jump' \in BOOLEAN
  <2>1. if2id \in IdReg
    BY DEF if2id, IdReg, TypeOK, IcachePort
  <2> QED BY <2>1, BubbleType DEF Clock, IF_ID_Edge, TypeOK, ex_b_flag, id_b_flag
<1>5. ex' \in ExReg /\ idex_jump' \in BOOLEAN
  BY IdType, BubbleType DEF Clock, ID_EX_Edge, TypeOK, ex_b_flag
<1>6. me' \in MeReg
  BY ExType, BubbleType DEF Clock, EX_ME_Edge, TypeOK
<1>7. wb' \in WbReg /\ regs' \in [RegIds -> Word]
  <2>1. me2id_w_data \in Word
    BY DEF me2id_w_data, TypeOK, MeReg, DcachePort
  <2>2. wb' \in WbReg
    BY <2>1, BubbleType DEF Clock, ME_WB_Edge, TypeOK, MeReg, WbReg
  <2>3. regs' \in [RegIds -> Word]
    BY DEF Clock, Regfile_Edge, TypeOK, WbReg
  <2> QED BY <2>2, <2>3
<1>8. dcache' \in DcachePort /\ mem' \in [Word -> Word]
      /\ inputs' \in Word /\ outputs' \in [count : Word, last : Word]
  <2>1. ram_access \in Access
    BY DEF ram_access, Access, TypeOK, MeReg
  <2>2. \A r \in Access : DcacheBusy(r) \in DcachePort
    BY SmallWords DEF DcacheBusy, DcachePort
  <2>3. \A d \in Word : DcacheDone(d) \in DcachePort
    BY BubbleType DEF DcacheDone, DcachePort
  <2>4. ASSUME NEW r \in Access, dcache_Complete(r)
        PROVE  /\ dcache' \in DcachePort /\ mem' \in [Word -> Word]
               /\ inputs' \in Word /\ outputs' \in [count : Word, last : Word]
    <3>1. r.addr \in Word /\ r.w_data \in Word
      BY DEF Access
    <3>2. /\ mem \in [Word -> Word] /\ inputs \in Word
          /\ outputs \in [count : Word, last : Word]
      BY DEF TypeOK
    <3>3. mem[r.addr] \in Word /\ Add(inputs, 1) \in Word
          /\ Add(outputs.count, 1) \in Word
      BY <3>1, <3>2, AddType, SmallWords
    <3>4. dcache' \in DcachePort
      BY <2>3, <2>4, <3>2, <3>3, SmallWords DEF dcache_Complete
    <3>5. mem' \in [Word -> Word]
      BY <2>4, <3>1, <3>2 DEF dcache_Complete, memVars
    <3>6. inputs' \in Word
      BY <2>4, <3>2, <3>3 DEF dcache_Complete, memVars
    <3>7. outputs' \in [count : Word, last : Word]
      BY <2>4, <3>1, <3>2, <3>3 DEF dcache_Complete, memVars
    <3> QED BY <3>4, <3>5, <3>6, <3>7
  <2>5. dcache.req \in Access
    BY DEF TypeOK, DcachePort
  <2> QED
    BY <2>1, <2>2, <2>4, <2>5, BubbleType DEF Clock, dcache_Edge, memVars, TypeOK
<1> QED BY <1>1, <1>2, <1>3, <1>4, <1>5, <1>6, <1>7, <1>8 DEF TypeOK

(* For every program, every register keeps a value of its width. *)
THEOREM TypeCorrect == Spec => []TypeOK
BY InitType, StepType, PTL DEF Spec

-----------------------------------------------------------------------------
(***************************************************************************)
(* The pipeline implements the sequential machine.                         *)
(*                                                                         *)
(* An instruction is executed in ME.  Pending says that the one in ME has  *)
(* not been executed yet; AfterMe is what a register holds once it has     *)
(* been, and FromEx is the address of the instruction that follows it,     *)
(* whichever stage that one has reached.                                   *)
(***************************************************************************)

Writers   == {"LUI", "AUIPC", "JAL", "JALR", "LW", "ADDI", "ADD"}
Reads1(i) == i.op \in {"JALR", "BEQ", "BNE", "LW", "SW", "ADDI", "ADD"}
Reads2(i) == i.op \in {"BEQ", "BNE", "SW", "ADD"}

Pending    == me.v /\ ~(me.op \in MemOps /\ dcache.done)
MeLoads(r) == me.op = "LW" /\ ~dcache.done /\ me.w_enable /\ me.w_addr = r
AfterMe(r) == IF me.w_enable /\ me.w_addr = r THEN me2id_w_data ELSE r_data(r)

FromIf == IF next_jump THEN target_addr ELSE pc
FromId == IF id.v THEN id.pc ELSE FromIf
FromEx == IF ex.v THEN ex.pc ELSE FromId

(* v is what register r holds for the instruction in EX, and not to come. *)
Operand(r, v) == ~MeLoads(r) /\ v = AfterMe(r)

IdHolds == IF id.v THEN id.inst = prog[id.pc] ELSE id = IdBubble

ExHolds ==
    IF ~ex.v THEN ex = ExBubble
    ELSE LET i == prog[ex.pc]
         IN  /\ ex.op = (IF i.op = "FENCE" THEN "NOP" ELSE i.op)
             /\ ex.w_enable = (i.op \in Writers)
             /\ ex.w_enable => ex.w_addr = i.rd
             /\ ex.offset = i.imm
             /\ IF Reads1(i) THEN Operand(i.rs1, ex.r1) ELSE ex.r1 = i.imm
             /\ IF Reads2(i) THEN Operand(i.rs2, ex.r2) ELSE ex.r2 = i.imm

(* What instruction i at address a computes from operands v1 and v2, and   *)
(* where it goes.                                                          *)
ResultOf(i, a, v1, v2) ==
    CASE i.op = "LUI"             -> i.imm
      [] i.op = "AUIPC"           -> Add(a, i.imm)
      [] i.op = "ADDI"            -> Add(v1, i.imm)
      [] i.op = "ADD"             -> Add(v1, v2)
      [] i.op \in {"JAL", "JALR"} -> Add(a, 1)
      [] OTHER                    -> 0

NextOf(i, a, v1, v2) ==
    CASE i.op = "JAL"  -> Add(a, i.imm)
      [] i.op = "JALR" -> Add(v1, i.imm)
      [] i.op = "BEQ"  -> Add(a, IF v1 = v2 THEN i.imm ELSE 1)
      [] i.op = "BNE"  -> Add(a, IF v1 # v2 THEN i.imm ELSE 1)
      [] OTHER         -> Add(a, 1)

MeDoes(i) ==
    LET v1 == r_data(i.rs1)
        v2 == r_data(i.rs2)
    IN  /\ me.op = (IF i.op \in MemOps THEN i.op ELSE "NOP")
        /\ me.w_enable = (i.op \in Writers /\ i.rd # 0)
        /\ me.w_enable => me.w_addr = i.rd
        /\ me.w_enable /\ i.op # "LW" => me.w_data = ResultOf(i, me.pc, v1, v2)
        /\ i.op \in MemOps => me.addr = Add(v1, i.imm)
        /\ i.op = "SW" => me.w_data = v2
        /\ FromEx = NextOf(i, me.pc, v1, v2)

MeHolds == (~me.v => me = MeBubble) /\ (Pending => MeDoes(prog[me.pc]))

(* Nothing past EX writes x0, and a store writes no register. *)
NoX0 ==
    /\ wb.w_enable => wb.w_addr # 0
    /\ me.w_enable => me.w_addr # 0 /\ me.op # "SW"

(* The path behind an instruction that does not jump, or has jumped. *)
PathHolds ==
    /\ ex.v /\ ~ex_b_flag =>
          FromId = IF ex.op = "JAL" THEN ex_b_target_addr ELSE Add(ex.pc, 1)
    /\ id.v /\ ~ex_b_flag /\ ~id_b_flag => ~next_jump /\ pc = Add(id.pc, 1)

StageInv == IdHolds /\ ExHolds /\ MeHolds /\ NoX0 /\ PathHolds

RInv == TypeOK /\ JumpBitsAgree /\ AInv /\ StageInv

LEMMA ProgType ==
    ASSUME TypeOK, NEW a \in Word
    PROVE  /\ prog[a].op \in Ops \ {"NOP"} /\ prog[a].imm \in Word
           /\ prog[a].rd \in RegIds /\ prog[a].rs1 \in RegIds
           /\ prog[a].rs2 \in RegIds
<1>1. prog[a] \in {i \in Inst : i.op # "NOP"}
  BY PipelineAssumption DEF TypeOK
<1> QED BY <1>1 DEF Inst

LEMMA InitStages == Init => StageInv
<1> SUFFICES ASSUME Init PROVE StageInv
  OBVIOUS
<1>1. id = IdBubble /\ ex = ExBubble /\ me = MeBubble /\ wb = WbBubble
  BY DEF Init
<1>2. ~id.v /\ ~ex.v /\ ~me.v /\ ~me.w_enable /\ ~wb.w_enable
  BY <1>1 DEF IdBubble, ExBubble, MeBubble, WbBubble
<1> QED BY <1>1, <1>2 DEF StageInv, IdHolds, ExHolds, MeHolds, Pending, NoX0, PathHolds

-----------------------------------------------------------------------------
(* What one edge does to the parts, while ME waits and when it does not.   *)

LEMMA MeWaits ==
    ASSUME Clock, stall(3)
    PROVE  /\ me' = me /\ ex' = ex /\ id' = id /\ pc' = pc /\ wb' = WbBubble
           /\ me.op \in MemOps /\ ~dcache.done
           /\ next_jump' = (next_jump \/ ex_b_flag \/ id_b_flag)
           /\ target_addr' = IF ex_b_flag THEN ex_b_target_addr
                             ELSE IF id_b_flag THEN id_b_target_addr
                             ELSE target_addr
<1>1. stall(0) /\ stall(1) /\ stall(2) /\ stall(4) /\ me_stall_req
  BY StallPrefix
<1> QED BY <1>1 DEF Clock, PC_reg_Edge, IF_ID_Edge, ID_EX_Edge, EX_ME_Edge, ME_WB_Edge, me_stall_req

LEMMA MeMoves ==
    ASSUME AInv, Clock, ~stall(3)
    PROVE  /\ me' = ex2me /\ dcache' = DcacheIdle /\ UNCHANGED memVars
           /\ wb' = [w_enable |-> me.w_enable, w_addr |-> me.w_addr,
                     w_data |-> me2id_w_data]
<1>1. ~stall(4) /\ ~me_stall_req
  BY StallPrefix
<1>2. ~dcache.busy /\ ~ram_enable
  BY <1>1 DEF me_stall_req, ram_enable, AInv, PortsOK, AnswersMatchRequests
<1> QED BY <1>1, <1>2 DEF Clock, EX_ME_Edge, ME_WB_Edge, dcache_Edge

LEMMA WbTypes ==
    ASSUME TypeOK
    PROVE  /\ wb.w_enable \in BOOLEAN /\ wb.w_addr \in RegIds /\ wb.w_data \in Word
           /\ regs \in [RegIds -> Word]
BY DEF TypeOK, WbReg

(* The register file sees what was written, forwarded or stored. *)
LEMMA RegsRead ==
    ASSUME RInv, Clock, NEW r \in RegIds
    PROVE  r_data(r)' = IF stall(3) THEN r_data(r) ELSE AfterMe(r)
<1> USE DEF RInv, StageInv
<1>1. regs'[r] = r_data(r)
  BY WbTypes DEF Clock, Regfile_Edge, r_data, NoX0
<1>2. CASE stall(3)
  BY <1>1, <1>2, MeWaits DEF WbBubble, r_data
<1>3. CASE ~stall(3)
  BY <1>1, <1>3, MeMoves DEF r_data, AfterMe
<1> QED BY <1>2, <1>3

(* While ME waits, the stages before it hold. *)
LEMMA PathWaits ==
    ASSUME RInv, Clock, stall(3)
    PROVE  /\ FromEx' = FromEx
           /\ ex.v /\ ~ex_b_flag => FromId' = FromId
<1> USE DEF RInv, StageInv
<1>1. ~id.v => ~id_b_flag
  BY DEF IdHolds, IdBubble, ZeroWord, id_b_flag
<1>2. ~ex.v => ~ex_b_flag
  BY DEF ExHolds, ExBubble, ex_b_flag
<1> QED BY <1>1, <1>2, MeWaits DEF FromEx, FromId, FromIf

(* The address of the instruction after the one in EX. *)
ExNext == IF ex_b_flag \/ ex.op = "JAL" THEN ex_b_target_addr ELSE Add(ex.pc, 1)

(* When ME moves on, the path moves by the instruction in EX. *)
LEMMA PathMoves ==
    ASSUME RInv, Clock, ~stall(3)
    PROVE  /\ FromEx' = IF ex.v THEN ExNext ELSE FromEx
           /\ (ex.v /\ ~ex_b_flag =>
                 FromId = IF ex.op = "JAL" THEN ex_b_target_addr ELSE Add(ex.pc, 1))'
           /\ (id.v /\ ~ex_b_flag /\ ~id_b_flag => ~next_jump /\ pc = Add(id.pc, 1))'
<1> USE DEF RInv, StageInv
<1>1. ~id.v => ~id_b_flag
  BY DEF IdHolds, IdBubble, ZeroWord, id_b_flag
<1>2. ~ex.v => ~ex_b_flag
  BY DEF ExHolds, ExBubble, ex_b_flag
<1>3. next_jump = ifid_jump /\ (idex_jump => ex_b_flag)
  BY DEF JumpBitsAgree
<1>4. ~IdBubble.v /\ ~ExBubble.v
  BY DEF IdBubble, ExBubble
<1>5. id2ex.v = id.v /\ id2ex.pc = id.pc /\ if2id.v /\ if2id.pc = pc
  BY DEF id2ex, if2id
<1>6. PC_reg_Edge /\ IF_ID_Edge /\ ID_EX_Edge
  BY DEF Clock
<1>7. CASE stall(2)
  <2>1. stall(0) /\ stall(1)
    BY <1>7, StallPrefix
  <2>2. ~ex_b_flag
    BY <1>7, StallPrefix DEF id_stall_req, is_ld, ex_b_flag
  <2>3. ex' = ExBubble /\ id' = id /\ pc' = pc
    BY <1>6, <1>7, <2>1 DEF ID_EX_Edge, IF_ID_Edge, PC_reg_Edge
  <2>4. /\ next_jump' = (next_jump \/ id_b_flag)
        /\ target_addr' = IF id_b_flag THEN id_b_target_addr ELSE target_addr
    BY <1>6, <2>1, <2>2 DEF PC_reg_Edge
  <2>5. FromId' = FromId
    BY <1>1, <2>3, <2>4 DEF FromId, FromIf
  <2>6. ex.v => FromId = ExNext
    BY <2>2 DEF PathHolds, ExNext
  <2>7. FromEx' = IF ex.v THEN ExNext ELSE FromEx
    BY <1>4, <2>3, <2>5, <2>6 DEF FromEx
  <2>8. (id.v /\ ~ex_b_flag /\ ~id_b_flag => ~next_jump /\ pc = Add(id.pc, 1))'
    BY <2>2, <2>3, <2>4 DEF PathHolds, id_b_flag
  <2> QED BY <1>4, <2>3, <2>7, <2>8
<1>8. CASE ~stall(2) /\ ex_b_flag
  <2>1. ex' = ExBubble
    BY <1>6, <1>8 DEF ID_EX_Edge
  <2>2. id' = IdBubble
    BY <1>6, <1>8, StallPrefix DEF IF_ID_Edge
  <2>3. FromIf' = ex_b_target_addr
    BY <1>6, <1>8 DEF PC_reg_Edge, FromIf
  <2> QED BY <1>2, <1>4, <1>8, <2>1, <2>2, <2>3 DEF FromEx, FromId, ExNext
<1>9. CASE ~stall(2) /\ ~ex_b_flag /\ id_b_flag
  <2>1. ex' = id2ex
    BY <1>3, <1>6, <1>9 DEF ID_EX_Edge
  <2>2. id' = IdBubble
    BY <1>6, <1>9, StallPrefix DEF IF_ID_Edge
  <2>3. FromIf' = id_b_target_addr
    BY <1>6, <1>9 DEF PC_reg_Edge, FromIf
  <2>4. id.v /\ ex'.op = "JAL" /\ ex_b_target_addr' = id_b_target_addr
    BY <1>1, <1>9, <2>1 DEF id_b_flag, id2ex, ex_b_target_addr, id_b_target_addr
  <2>5. ex.v => ExNext = id.pc
    BY <1>9, <2>4 DEF PathHolds, FromId, ExNext
  <2> QED
    BY <1>4, <1>5, <2>1, <2>2, <2>3, <2>4, <2>5 DEF FromEx, FromId
<1>10. CASE ~stall(2) /\ ~ex_b_flag /\ ~id_b_flag
  <2>1. ex' = id2ex
    BY <1>3, <1>6, <1>10 DEF ID_EX_Edge
  <2>2. id.v => ~next_jump /\ pc = Add(id.pc, 1) /\ id.inst.op # "JAL"
    BY <1>10 DEF PathHolds, id_b_flag
  <2>3. FromId' = FromIf
    BY <1>3, <1>4, <1>5, <1>6, <1>10, StallPrefix
       DEF FromId, FromIf, IF_ID_Edge, PC_reg_Edge
  <2>4. (id.v => ~next_jump /\ pc = Add(id.pc, 1))'
    BY <1>3, <1>4, <1>5, <1>6, <1>10, StallPrefix DEF IF_ID_Edge, PC_reg_Edge
  <2>5. ex.v => ExNext = FromId
    BY <1>10 DEF PathHolds, ExNext
  <2>6. id.v => ex'.op # "JAL"
    BY <2>1, <2>2 DEF id2ex
  <2>7. id.v => FromIf = Add(id.pc, 1)
    BY <2>2 DEF FromIf
  <2>8. FromEx' = IF ex.v THEN ExNext ELSE FromEx
    BY <1>5, <2>1, <2>3, <2>5 DEF FromEx, FromId
  <2> QED BY <1>5, <2>1, <2>3, <2>4, <2>6, <2>7, <2>8
<1> QED BY <1>7, <1>8, <1>9, <1>10

-----------------------------------------------------------------------------
(* Each stage keeps what it is.                                            *)

LEMMA StepId ==
    ASSUME RInv, Clock
    PROVE  IdHolds'
<1> USE DEF RInv, StageInv
<1>1. IF_ID_Edge /\ prog' = prog
  BY DEF Clock
<1>2. id' \in {id, IdBubble, if2id}
  BY <1>1 DEF IF_ID_Edge
<1>3. CASE id' = id
  BY <1>1, <1>3 DEF IdHolds
<1>4. CASE id' = IdBubble
  BY <1>4 DEF IdHolds, IdBubble
<1>5. CASE id' = if2id /\ id' \notin {id, IdBubble}
  <2>1. ~stall(1)
    BY <1>1, <1>5 DEF IF_ID_Edge
  <2>2. icache.done
    BY <2>1, StallPrefix DEF if_stall_req
  <2> QED BY <1>1, <1>5, <2>2 DEF IdHolds, if2id, AInv, AnswersMatchRequests
<1> QED BY <1>2, <1>3, <1>4, <1>5

(* An operand in EX is still the right one after the edge if EX holds. *)
LEMMA OperandKept ==
    ASSUME RInv, Clock, stall(3), NEW r \in RegIds, NEW v, Operand(r, v)
    PROVE  Operand(r, v)'
<1> USE DEF RInv, StageInv
<1>1. r_data(r)' = r_data(r) /\ me' = me /\ ~dcache.done
  BY RegsRead, MeWaits
<1>2. CASE me.w_enable /\ me.w_addr = r
  <2>1. me.op # "LW"
    BY <1>1, <1>2 DEF Operand, MeLoads
  <2> QED BY <1>1, <1>2, <2>1 DEF Operand, MeLoads, AfterMe, me2id_w_data
<1>3. CASE ~(me.w_enable /\ me.w_addr = r)
  BY <1>1, <1>3 DEF Operand, MeLoads, AfterMe
<1> QED BY <1>2, <1>3

(* What ID forwards is the operand, if the edge lets it through. *)
LEMMA OperandForwarded ==
    ASSUME RInv, Clock, ~stall(3), NEW r \in RegIds,
           ~(is_ld /\ ex.w_addr = r),
           NEW v, v = Forward(r)
    PROVE  Operand(r, v)'
<1> USE DEF RInv, StageInv
<1>1. r_data(r)' = AfterMe(r)
  BY RegsRead
<1>2. me' = ex2me /\ ~dcache'.done
  BY MeMoves DEF DcacheIdle
<1>3. me'.w_enable = ex2id_w_enable /\ me'.w_addr = ex.w_addr /\ me'.w_data = ex2id_w_data
  BY <1>2 DEF ex2me
<1>4. ~MeLoads(r)'
  BY <1>2 DEF MeLoads, ex2me, is_ld, MemOps
<1>5. v = AfterMe(r)'
  BY <1>1, <1>2, <1>3 DEF AfterMe, Forward, me2id_w_data
<1> QED BY <1>4, <1>5 DEF Operand

LEMMA StepEx ==
    ASSUME RInv, Clock
    PROVE  ExHolds'
<1> USE DEF RInv, StageInv
<1>1. ID_EX_Edge /\ prog' = prog
  BY DEF Clock
<1>2. CASE ex' = ExBubble
  BY <1>2 DEF ExHolds, ExBubble
<1>3. CASE stall(3)
  <2>1. ex' = ex
    BY <1>3, MeWaits
  <2>2. CASE ~ex.v
    BY <2>1, <2>2 DEF ExHolds
  <2>3. CASE ex.v
    <3>1. PICK i : i = prog[ex.pc]
      OBVIOUS
    <3>2. i.rs1 \in RegIds /\ i.rs2 \in RegIds
      BY <3>1, ProgType DEF TypeOK, ExReg
    <3>3. PICK v1, v2 : v1 = ex.r1 /\ v2 = ex.r2
      OBVIOUS
    <3>4. IF Reads1(i) THEN Operand(i.rs1, v1)' ELSE v1 = i.imm
      BY <1>3, <2>3, <3>1, <3>2, <3>3, OperandKept DEF ExHolds
    <3>5. IF Reads2(i) THEN Operand(i.rs2, v2)' ELSE v2 = i.imm
      BY <1>3, <2>3, <3>1, <3>2, <3>3, OperandKept DEF ExHolds
    <3>6. prog'[ex'.pc] = i /\ ex'.r1 = v1 /\ ex'.r2 = v2
      BY <1>1, <2>1, <3>1, <3>3
    <3> QED BY <2>1, <2>3, <3>1, <3>4, <3>5, <3>6 DEF ExHolds, Operand
  <2> QED BY <2>2, <2>3
<1>4. CASE ~stall(3) /\ ex' # ExBubble
  <2>1. ex' = id2ex /\ ~stall(2)
    BY <1>1, <1>4 DEF ID_EX_Edge
  <2>2. CASE ~id.v
    <3>1. id.inst = ZeroWord /\ id.pc = 0 /\ id.v = FALSE
      BY <2>2 DEF IdHolds, IdBubble
    <3>2. ~r1_enable /\ ~r2_enable /\ id_w_enable = FALSE /\ id_w_addr = 0
      BY <3>1 DEF ZeroWord, r1_enable, r2_enable, id_w_enable, id_w_addr
    <3>3. id.inst.op = "NOP" /\ id.inst.op # "FENCE" /\ id.inst.imm = 0
      BY <3>1 DEF ZeroWord
    <3>4. id2ex = ExBubble
      BY <3>1, <3>2, <3>3, Zenon DEF id2ex, ExBubble
    <3> QED BY <1>4, <2>1, <3>4
  <2>3. CASE id.v
    <3>1. PICK i : i = prog[id.pc]
      OBVIOUS
    <3>2. id.inst = i /\ i.rs1 \in RegIds /\ i.rs2 \in RegIds
      BY <2>3, <3>1, ProgType DEF IdHolds, TypeOK, IdReg
    <3>3. ~id_stall_req
      BY <2>1, StallPrefix
    <3>4. PICK v1, v2 : v1 = ex'.r1 /\ v2 = ex'.r2
      OBVIOUS
    <3>5. (r1_enable <=> Reads1(i)) /\ (r2_enable <=> Reads2(i))
      BY <3>2 DEF r1_enable, r2_enable, Reads1, Reads2
    <3>6. Reads1(i) => Operand(i.rs1, v1)'
      <4>1. HAVE Reads1(i)
      <4>2. v1 = Forward(i.rs1) /\ ~(is_ld /\ ex.w_addr = i.rs1)
        BY <2>1, <3>2, <3>3, <3>4, <3>5, <4>1 DEF id2ex, id_stall_req
      <4> QED BY <1>4, <3>2, <4>2, OperandForwarded
    <3>7. Reads2(i) => Operand(i.rs2, v2)'
      <4>1. HAVE Reads2(i)
      <4>2. v2 = Forward(i.rs2) /\ ~(is_ld /\ ex.w_addr = i.rs2)
        BY <2>1, <3>2, <3>3, <3>4, <3>5, <4>1 DEF id2ex, id_stall_req
      <4> QED BY <1>4, <3>2, <4>2, OperandForwarded
    <3>8. /\ ex'.op = (IF i.op = "FENCE" THEN "NOP" ELSE i.op)
          /\ ex'.offset = i.imm /\ ex'.v /\ ex'.pc = id.pc
          /\ (~Reads1(i) => v1 = i.imm) /\ (~Reads2(i) => v2 = i.imm)
      BY <2>1, <2>3, <3>2, <3>4, <3>5 DEF id2ex
    <3>9. ex'.w_enable = (i.op \in Writers) /\ (ex'.w_enable => ex'.w_addr = i.rd)
      BY <2>1, <3>2 DEF id2ex, id_w_enable, id_w_addr, Writers
    <3>10. prog'[ex'.pc] = i
      BY <1>1, <3>1, <3>8
    <3> QED
      BY <3>4, <3>6, <3>7, <3>8, <3>9, <3>10 DEF ExHolds, Operand
  <2> QED BY <2>2, <2>3
<1> QED BY <1>2, <1>3, <1>4

LEMMA StepNoX0 ==
    ASSUME RInv, Clock
    PROVE  NoX0'
<1> USE DEF RInv, StageInv
<1>1. CASE stall(3)
  BY <1>1, MeWaits DEF NoX0, WbBubble
<1>2. CASE ~stall(3)
  <2>1. wb'.w_enable => wb'.w_addr # 0
    BY <1>2, MeMoves DEF NoX0
  <2>2. /\ me'.w_enable = ex2id_w_enable /\ me'.w_addr = ex.w_addr
        /\ me'.op = "SW" => ex.op = "SW"
    BY <1>2, MeMoves DEF ex2me
  <2>3. ex.op = "SW" => ~ex.w_enable
    <3>1. CASE ~ex.v
      BY <3>1 DEF ExHolds, ExBubble
    <3>2. CASE ex.v
      <4>1. PICK i : i = prog[ex.pc]
        OBVIOUS
      <4>2. /\ ex.op = (IF i.op = "FENCE" THEN "NOP" ELSE i.op)
            /\ ex.w_enable = (i.op \in Writers)
        BY <3>2, <4>1 DEF ExHolds
      <4> QED BY <4>2 DEF Writers
    <3> QED BY <3>1, <3>2
  <2> QED BY <2>1, <2>2, <2>3 DEF NoX0, ex2id_w_enable, ex_to_x0
<1> QED BY <1>1, <1>2

(* What EX hands to ME is the instruction it holds, executed on the        *)
(* registers as they will be.                                              *)
LEMMA ExDoes ==
    ASSUME RInv, Clock, ~stall(3), ex.v, NEW i, i = prog[ex.pc]
    PROVE  MeDoes(i)'
<1> USE DEF RInv, StageInv
<1>1. /\ i.rs1 \in RegIds /\ i.rs2 \in RegIds /\ i.rd \in RegIds
      /\ i.op \in Ops \ {"NOP"}
  BY ProgType DEF TypeOK, ExReg
<1>2. PICK v1, v2 : v1 = AfterMe(i.rs1) /\ v2 = AfterMe(i.rs2)
  OBVIOUS
<1>3. r_data(i.rs1)' = v1 /\ r_data(i.rs2)' = v2
  BY <1>1, <1>2, RegsRead
<1>4. me' = ex2me /\ FromEx' = ExNext
  BY MeMoves, PathMoves
<1>5. /\ ex.op = (IF i.op = "FENCE" THEN "NOP" ELSE i.op)
      /\ ex.w_enable = (i.op \in Writers)
      /\ ex.w_enable => ex.w_addr = i.rd
      /\ ex.offset = i.imm
      /\ ex.r1 = IF Reads1(i) THEN v1 ELSE i.imm
      /\ ex.r2 = IF Reads2(i) THEN v2 ELSE i.imm
  BY <1>2 DEF ExHolds, Operand
<1>6. /\ me'.op = (IF i.op \in MemOps THEN i.op ELSE "NOP")
      /\ me'.addr = Add(ex.r1, i.imm) /\ me'.pc = ex.pc
  BY <1>1, <1>4, <1>5 DEF ex2me, MemOps
<1>7. /\ me'.w_enable = (i.op \in Writers /\ i.rd # 0)
      /\ me'.w_enable => me'.w_addr = i.rd /\ me'.w_data = ex_res
  BY <1>4, <1>5 DEF ex2me, ex2id_w_enable, ex2id_w_data, ex_to_x0
<1>8. me'.w_enable /\ i.op # "LW" => me'.w_data = ResultOf(i, ex.pc, v1, v2)
  BY <1>1, <1>5, <1>7 DEF ex_res, ResultOf, Writers, MemOps, Reads1, Reads2, Ops
<1>9. i.op \in MemOps => me'.addr = Add(v1, i.imm)
  BY <1>5, <1>6 DEF MemOps, Reads1
<1>10. i.op = "SW" => me'.w_data = v2
  <2>1. i.op = "SW" => ~ex_to_x0 /\ ex_res = ex.r2
    BY <1>5 DEF ex_to_x0, Writers, ex_res, MemOps
  <2> QED BY <1>4, <1>5, <2>1 DEF ex2me, ex2id_w_data, Reads2
<1>11. ExNext = NextOf(i, ex.pc, v1, v2)
  BY <1>1, <1>5 DEF ExNext, NextOf, ex_b_flag, ex_b_target_addr, Reads1, Reads2, Ops
<1> QED BY <1>3, <1>4, <1>6, <1>7, <1>8, <1>9, <1>10, <1>11 DEF MeDoes

LEMMA StepMe ==
    ASSUME RInv, Clock
    PROVE  MeHolds'
<1> USE DEF RInv, StageInv
<1>1. prog' = prog
  BY DEF Clock
<1>2. CASE stall(3)
  <2>1. me' = me /\ FromEx' = FromEx /\ ~dcache.done
    BY <1>2, MeWaits, PathWaits
  <2>2. CASE ~me.v
    BY <2>1, <2>2 DEF MeHolds, Pending
  <2>3. CASE me.v
    <3>1. PICK i : i = prog[me.pc]
      OBVIOUS
    <3>2. r_data(i.rs1)' = r_data(i.rs1) /\ r_data(i.rs2)' = r_data(i.rs2)
      <4>1. i.rs1 \in RegIds /\ i.rs2 \in RegIds
        BY <3>1, ProgType DEF TypeOK, MeReg
      <4> QED BY <1>2, <4>1, RegsRead
    <3>3. MeDoes(i)
      BY <2>1, <2>3, <3>1 DEF MeHolds, Pending
    <3>4. MeDoes(i)'
      BY <2>1, <3>2, <3>3 DEF MeDoes
    <3>5. prog'[me'.pc] = i
      BY <1>1, <2>1, <3>1
    <3> QED BY <2>1, <2>3, <3>4, <3>5 DEF MeHolds
  <2> QED BY <2>2, <2>3
<1>3. CASE ~stall(3) /\ ex.v
  <2>1. PICK i : i = prog[ex.pc]
    OBVIOUS
  <2>2. MeDoes(i)'
    BY <1>3, <2>1, ExDoes
  <2>3. me'.v /\ prog'[me'.pc] = i
    BY <1>1, <1>3, <2>1, MeMoves DEF ex2me
  <2> QED BY <2>2, <2>3 DEF MeHolds
<1>4. CASE ~stall(3) /\ ~ex.v
  <2>1. ex = ExBubble
    BY <1>4 DEF ExHolds
  <2>2. /\ ex2id_w_enable = FALSE /\ ex2id_w_data = 0 /\ Add(ex.r1, ex.offset) = 0
        /\ ex.w_addr = 0 /\ ex.pc = 0 /\ ex.v = FALSE /\ ex.op \notin MemOps
    BY <2>1, PipelineAssumption
       DEF ExBubble, ex2id_w_enable, ex2id_w_data, ex_to_x0, ex_res, Add, MemOps
  <2>3. ex2me = MeBubble
    BY <2>2, Zenon DEF ex2me, MeBubble
  <2>4. me' = MeBubble
    BY <1>4, <2>3, MeMoves
  <2> QED BY <2>4 DEF MeHolds, Pending, MeBubble
<1> QED BY <1>2, <1>3, <1>4

LEMMA StepPath ==
    ASSUME RInv, Clock
    PROVE  PathHolds'
<1> USE DEF RInv, StageInv
<1>1. CASE ~stall(3)
  BY <1>1, PathMoves DEF PathHolds
<1>2. CASE stall(3)
  <2>1. /\ ex' = ex /\ id' = id /\ pc' = pc
        /\ next_jump' = (next_jump \/ ex_b_flag \/ id_b_flag)
    BY <1>2, MeWaits
  <2>2. /\ ex_b_flag' = ex_b_flag /\ id_b_flag' = id_b_flag
        /\ ex_b_target_addr' = ex_b_target_addr
    BY <2>1 DEF ex_b_flag, id_b_flag, ex_b_target_addr
  <2>3. ex.v /\ ~ex_b_flag => FromId' = FromId
    BY <1>2, PathWaits
  <2> QED BY <2>1, <2>2, <2>3 DEF PathHolds
<1> QED BY <1>1, <1>2

LEMMA InitRInv == Init => RInv
BY InitType, InitJumpBits, InitAnswers, InitStages DEF RInv

LEMMA StepRInv == RInv /\ [Clock]_vars => RInv'
<1> SUFFICES ASSUME RInv, [Clock]_vars PROVE RInv'
  OBVIOUS
<1>1. TypeOK' /\ JumpBitsAgree' /\ AInv'
  BY StepType, StepJumpBits, StepAnswers DEF RInv
<1>2. CASE Clock
  BY <1>1, <1>2, StepId, StepEx, StepMe, StepNoX0, StepPath DEF RInv, StageInv
<1>3. CASE UNCHANGED vars
  <2>1. StageInv'
    BY <1>3 DEF vars, pcVars, idVars, exVars, RInv, StageInv, IdHolds, ExHolds, MeHolds,
       NoX0, PathHolds, Operand, MeLoads, AfterMe, MeDoes, Pending, FromEx, FromId,
       FromIf, r_data, me2id_w_data, ex_b_flag, id_b_flag, ex_b_target_addr
  <2> QED BY <1>1, <2>1 DEF RInv
<1> QED BY <1>2, <1>3

-----------------------------------------------------------------------------
(* The edges as steps of the sequential machine.                           *)

LEMMA NextPcIs == NextPc = IF Pending THEN me.pc ELSE FromEx
BY DEF NextPc, Pending, FromEx, FromId, FromIf

LEMMA LoadedRegsIs ==
    TypeOK => LoadedRegs = [r \in RegIds |-> IF me.op = "LW" /\ dcache.done
                                             THEN AfterMe(r) ELSE r_data(r)]
<1> SUFFICES ASSUME TypeOK
             PROVE  LoadedRegs = [r \in RegIds |-> IF me.op = "LW" /\ dcache.done
                                                   THEN AfterMe(r) ELSE r_data(r)]
  OBVIOUS
<1> DEFINE written == IF wb.w_enable THEN [regs EXCEPT ![wb.w_addr] = wb.w_data] ELSE regs
<1>1. written = [r \in RegIds |-> r_data(r)]
  BY WbTypes DEF r_data
<1>2. me.w_addr \in RegIds
  BY DEF TypeOK, MeReg
<1> HIDE DEF written
<1>3. CASE me.op = "LW" /\ dcache.done /\ me.w_enable
  <2>1. LoadedRegs = [written EXCEPT ![me.w_addr] = dcache.data]
    BY <1>3 DEF LoadedRegs, written
  <2> QED BY <1>1, <1>2, <1>3, <2>1 DEF AfterMe, me2id_w_data
<1>4. CASE ~(me.op = "LW" /\ dcache.done /\ me.w_enable)
  <2>1. LoadedRegs = written
    BY <1>4 DEF LoadedRegs, written
  <2> QED BY <1>1, <1>4, <2>1 DEF AfterMe
<1> QED BY <1>3, <1>4

LEMMA RefineInit == Init => IsaInst!Init
<1> SUFFICES ASSUME Init PROVE IsaInst!Init
  OBVIOUS
<1>1. NextPc = 0
  BY DEF Init, NextPc, IdBubble, ExBubble, MeBubble
<1>2. LoadedRegs = InitRegs
  BY DEF Init, LoadedRegs, WbBubble, MeBubble
<1> QED BY <1>1, <1>2 DEF Init, IsaInst!Init

(* The edge at which ME hands on an instruction that accesses no memory    *)
(* executes it.                                                            *)
LEMMA Executes ==
    ASSUME RInv, Clock, ~stall(3), Pending
    PROVE  IsaInst!RunInsn
<1> USE DEF RInv, StageInv
<1>1. PICK i : i = prog[me.pc]
  OBVIOUS
<1>2. /\ i.rs1 \in RegIds /\ i.rs2 \in RegIds /\ i.rd \in RegIds
      /\ i.op \in Ops \ {"NOP"}
  BY <1>1, ProgType DEF TypeOK, MeReg
<1>3. MeDoes(i)
  BY <1>1 DEF MeHolds
<1>4. ~me_stall_req /\ me.op \notin MemOps
  BY StallPrefix DEF me_stall_req, Pending
<1>5. i.op \notin MemOps
  BY <1>3, <1>4 DEF MeDoes
<1>6. NextPc = me.pc /\ LoadedRegs = [r \in RegIds |-> r_data(r)]
  BY <1>4, NextPcIs, LoadedRegsIs DEF MemOps
<1>7. NextPc' = NextOf(i, me.pc, r_data(i.rs1), r_data(i.rs2))
  <2>1. NextPc' = FromEx
    <3>1. Pending' <=> ex.v
      BY MeMoves DEF Pending, ex2me, DcacheIdle
    <3>2. ex.v => me'.pc = ex.pc
      BY MeMoves DEF ex2me
    <3>3. FromEx' = IF ex.v THEN ExNext ELSE FromEx
      BY PathMoves
    <3>4. (NextPc = IF Pending THEN me.pc ELSE FromEx)'
      BY NextPcIs, PTL
    <3> QED BY <3>1, <3>2, <3>3, <3>4 DEF FromEx
  <2> QED BY <1>3, <2>1 DEF MeDoes
<1>8. LoadedRegs' = [r \in RegIds |-> AfterMe(r)]
  <2>1. TypeOK'
    BY StepType
  <2>2. (LoadedRegs = [r \in RegIds |-> IF me.op = "LW" /\ dcache.done
                                        THEN AfterMe(r) ELSE r_data(r)])'
    BY <2>1, LoadedRegsIs, PTL
  <2>3. ~dcache'.done
    BY MeMoves DEF DcacheIdle
  <2>4. \A r \in RegIds : r_data(r)' = AfterMe(r)
    BY RegsRead
  <2> QED BY <2>2, <2>3, <2>4
<1>9. UNCHANGED memVars /\ prog' = prog
  BY MeMoves DEF Clock
<1>10. /\ i.op \in Writers => me.w_enable = (i.rd # 0)
       /\ i.op \notin Writers => ~me.w_enable
  BY <1>3 DEF MeDoes
<1>11. i.op \in Writers =>
          LoadedRegs' = IF i.rd = 0 THEN LoadedRegs
                        ELSE [LoadedRegs EXCEPT ![i.rd] =
                                ResultOf(i, me.pc, r_data(i.rs1), r_data(i.rs2))]
  <2> SUFFICES ASSUME i.op \in Writers
               PROVE  LoadedRegs' = IF i.rd = 0 THEN LoadedRegs
                        ELSE [LoadedRegs EXCEPT ![i.rd] =
                                ResultOf(i, me.pc, r_data(i.rs1), r_data(i.rs2))]
    OBVIOUS
  <2>1. CASE i.rd = 0
    BY <1>6, <1>8, <1>10, <2>1 DEF AfterMe
  <2>2. CASE i.rd # 0
    <3>1. /\ me.w_enable /\ me.w_addr = i.rd
          /\ me.w_data = ResultOf(i, me.pc, r_data(i.rs1), r_data(i.rs2))
      BY <1>3, <1>5, <1>10, <2>2 DEF MeDoes, MemOps
    <3>2. me2id_w_data = me.w_data
      BY <1>4 DEF me2id_w_data, MemOps
    <3> QED BY <1>2, <1>6, <1>8, <2>2, <3>1, <3>2 DEF AfterMe
  <2> QED BY <2>1, <2>2
<1>12. i.op \notin Writers => LoadedRegs' = LoadedRegs
  BY <1>6, <1>8, <1>10 DEF AfterMe
<1>13. /\ IsaInst!inst = i
       /\ IsaInst!rs1 = r_data(i.rs1) /\ IsaInst!rs2 = r_data(i.rs2)
  BY <1>1, <1>2, <1>6 DEF IsaInst!inst, IsaInst!rs1, IsaInst!rs2
<1>14. CASE i.op \in {"LUI", "AUIPC", "ADDI", "ADD", "FENCE"}
  <2>1. IsaInst!Step
    BY <1>6, <1>7, <1>14 DEF IsaInst!Step, NextOf, IsaInst!Add, Add
  <2>2. i.op # "FENCE" => IsaInst!Write(ResultOf(i, me.pc, r_data(i.rs1), r_data(i.rs2)))
    BY <1>11, <1>13, <1>14 DEF IsaInst!Write, Writers
  <2>3. IsaInst!Compute
    BY <1>6, <1>9, <1>12, <1>13, <1>14, <2>1, <2>2
       DEF IsaInst!Compute, IsaInst!NoMemory, memVars, ResultOf, Writers, IsaInst!Add, Add
  <2> QED BY <1>9, <2>3 DEF IsaInst!RunInsn
<1>15. CASE i.op \in {"JAL", "JALR"}
  <2>1. IsaInst!Write(Add(me.pc, 1))
    BY <1>11, <1>13, <1>15 DEF IsaInst!Write, Writers, ResultOf
  <2>2. IsaInst!Jump
    BY <1>6, <1>7, <1>9, <1>13, <1>15, <2>1
       DEF IsaInst!Jump, IsaInst!NoMemory, memVars, NextOf, IsaInst!Add, Add
  <2> QED BY <1>9, <2>2 DEF IsaInst!RunInsn
<1>16. CASE i.op \in {"BEQ", "BNE"}
  <2>1. IsaInst!Branch
    BY <1>6, <1>7, <1>9, <1>12, <1>13, <1>16
       DEF IsaInst!Branch, IsaInst!NoMemory, memVars, NextOf, IsaInst!Add, Add, Writers
  <2> QED BY <1>9, <2>1 DEF IsaInst!RunInsn
<1> QED BY <1>2, <1>5, <1>14, <1>15, <1>16 DEF Ops, MemOps

(* The edge at which the data port performs the access executes it.        *)
LEMMA Performs ==
    ASSUME RInv, Clock, stall(3), dcache_Complete(ram_access)
    PROVE  IsaInst!RunInsn
<1> USE DEF RInv, StageInv
<1>1. PICK i : i = prog[me.pc]
  OBVIOUS
<1>2. /\ i.rs1 \in RegIds /\ i.rs2 \in RegIds /\ i.rd \in RegIds
      /\ i.op \in Ops \ {"NOP"}
  BY <1>1, ProgType DEF TypeOK, MeReg
<1>3. me.op \in MemOps /\ ~dcache.done /\ me' = me
  BY MeWaits
<1>4. Pending
  BY <1>3 DEF Pending, MeHolds, MeBubble, MemOps
<1>5. MeDoes(i)
  BY <1>1, <1>4 DEF MeHolds
<1>6. NextPc = me.pc /\ LoadedRegs = [r \in RegIds |-> r_data(r)]
  BY <1>3, <1>4, NextPcIs, LoadedRegsIs
<1>7. dcache'.done /\ me.op = i.op
  BY <1>3, <1>5 DEF dcache_Complete, DcacheDone, MeDoes, MemOps
<1>8. NextPc' = Add(me.pc, 1)
  <2>1. (NextPc = IF Pending THEN me.pc ELSE FromEx)'
    BY NextPcIs, PTL
  <2>2. NextPc' = FromEx
    BY <1>3, <1>7, <2>1, PathWaits DEF Pending
  <2> QED BY <1>3, <1>5, <1>7, <2>2 DEF MeDoes, NextOf, MemOps
<1>9. LoadedRegs' = IF me.op = "LW" THEN [r \in RegIds |-> AfterMe(r)'] ELSE LoadedRegs
  <2>1. TypeOK'
    BY StepType
  <2>2. (LoadedRegs = [r \in RegIds |-> IF me.op = "LW" /\ dcache.done
                                        THEN AfterMe(r) ELSE r_data(r)])'
    BY <2>1, LoadedRegsIs, PTL
  <2>3. \A r \in RegIds : r_data(r)' = r_data(r)
    BY RegsRead
  <2> QED BY <1>3, <1>6, <1>7, <2>2, <2>3
<1>10. /\ IsaInst!inst = i
       /\ IsaInst!rs1 = r_data(i.rs1) /\ IsaInst!rs2 = r_data(i.rs2)
  BY <1>1, <1>2, <1>6 DEF IsaInst!inst, IsaInst!rs1, IsaInst!rs2
<1>11. IsaInst!Step /\ prog' = prog
  BY <1>6, <1>8 DEF IsaInst!Step, IsaInst!Add, Add, Clock
<1>12. ram_access.op = i.op /\ ram_access.addr = Add(r_data(i.rs1), i.imm)
       /\ ram_access.w_data = me.w_data
  BY <1>3, <1>5, <1>7 DEF ram_access, MeDoes
<1>13. CASE i.op = "LW"
  <2>1. ASSUME NEW d, dcache' = DcacheDone(d)
        PROVE  IsaInst!Write(d)
    <3>1. \A r \in RegIds : AfterMe(r)' =
             IF me.w_enable /\ me.w_addr = r THEN d ELSE r_data(r)
      BY <1>3, <1>7, <1>13, <2>1, RegsRead DEF AfterMe, me2id_w_data, DcacheDone
    <3>2. me.w_enable = (i.rd # 0) /\ (me.w_enable => me.w_addr = i.rd)
      BY <1>5, <1>13 DEF MeDoes, Writers
    <3>3. LoadedRegs' = IF i.rd = 0 THEN LoadedRegs ELSE [LoadedRegs EXCEPT ![i.rd] = d]
      BY <1>2, <1>6, <1>7, <1>9, <1>13, <3>1, <3>2
    <3> QED BY <1>10, <3>3 DEF IsaInst!Write
  <2>2. IsaInst!Load
    BY <1>10, <1>11, <1>12, <1>13, <2>1
       DEF IsaInst!Load, dcache_Complete, memVars, IsaInst!Add, Add
  <2> QED BY <1>11, <2>2 DEF IsaInst!RunInsn
<1>14. CASE i.op = "SW"
  <2>1. me.w_data = r_data(i.rs2) /\ LoadedRegs' = LoadedRegs
    BY <1>5, <1>7, <1>9, <1>14 DEF MeDoes
  <2>2. IsaInst!Store
    BY <1>10, <1>11, <1>12, <1>14, <2>1
       DEF IsaInst!Store, dcache_Complete, IsaInst!Add, Add
  <2> QED BY <1>11, <2>2 DEF IsaInst!RunInsn
<1> QED BY <1>3, <1>7, <1>13, <1>14 DEF MemOps

(* Any other edge is invisible. *)
LEMMA Invisible ==
    ASSUME RInv, Clock,
           \/ stall(3) /\ ~dcache'.done /\ UNCHANGED memVars
           \/ ~stall(3) /\ ~Pending
    PROVE  UNCHANGED IsaInst!ivars
<1> USE DEF RInv, StageInv
<1>1. (NextPc = IF Pending THEN me.pc ELSE FromEx)'
  BY NextPcIs, PTL
<1>2. (LoadedRegs = [r \in RegIds |-> IF me.op = "LW" /\ dcache.done
                                      THEN AfterMe(r) ELSE r_data(r)])'
  <2>1. TypeOK'
    BY StepType
  <2> QED BY <2>1, LoadedRegsIs, PTL
<1>3. CASE stall(3) /\ ~dcache'.done /\ UNCHANGED memVars
  <2>1. me' = me /\ ~dcache.done /\ FromEx' = FromEx
    BY <1>3, MeWaits, PathWaits
  <2>2. NextPc' = NextPc
    BY <1>1, <1>3, <2>1, NextPcIs DEF Pending
  <2>3. LoadedRegs' = LoadedRegs
    BY <1>2, <1>3, <2>1, LoadedRegsIs, RegsRead
  <2> QED BY <1>3, <2>2, <2>3 DEF IsaInst!ivars, memVars, Clock
<1>4. CASE ~stall(3) /\ ~Pending
  <2>1. Pending' <=> ex.v
    BY <1>4, MeMoves DEF Pending, ex2me, DcacheIdle
  <2>2. ex.v => me'.pc = ex.pc
    BY <1>4, MeMoves DEF ex2me
  <2>3. NextPc' = NextPc
    BY <1>1, <1>4, <2>1, <2>2, NextPcIs, PathMoves DEF FromEx
  <2>4. LoadedRegs' = [r \in RegIds |-> AfterMe(r)]
    BY <1>2, <1>4, MeMoves, RegsRead DEF DcacheIdle
  <2>5. me.w_enable => me.op = "LW" /\ dcache.done
    BY <1>4 DEF Pending, MeHolds, MeBubble, NoX0, MemOps
  <2>6. LoadedRegs' = LoadedRegs
    BY <2>4, <2>5, LoadedRegsIs DEF AfterMe
  <2> QED BY <1>4, <2>3, <2>6, MeMoves DEF IsaInst!ivars, memVars, Clock
<1> QED BY <1>3, <1>4

LEMMA RefineStep == RInv /\ [Clock]_vars => [IsaInst!RunInsn]_(IsaInst!ivars)
<1> SUFFICES ASSUME RInv, [Clock]_vars PROVE [IsaInst!RunInsn]_(IsaInst!ivars)
  OBVIOUS
<1>1. CASE Clock /\ stall(3)
  <2>1. me.op \in MemOps /\ ~dcache.done /\ dcache_Edge
    BY <1>1, MeWaits DEF Clock
  <2>2. ~dcache.busy => ram_enable
    BY <2>1 DEF ram_enable
  <2>3. dcache.busy => dcache.req = ram_access
    BY DEF RInv, AInv, AnswersMatchRequests
  <2>4. \/ dcache_Complete(ram_access)
        \/ ~dcache'.done /\ UNCHANGED memVars
    BY <2>1, <2>2, <2>3 DEF dcache_Edge, DcacheBusy
  <2> QED BY <1>1, <2>4, Performs, Invisible
<1>2. CASE Clock /\ ~stall(3)
  BY <1>2, Executes, Invisible
<1>3. CASE UNCHANGED vars
  BY <1>3 DEF vars, pcVars, idVars, exVars, memVars, IsaInst!ivars, NextPc, LoadedRegs
<1> QED BY <1>1, <1>2, <1>3

(* For every program, word size, register count and cache latency, the     *)
(* pipeline executes the program as the sequential machine does: operands  *)
(* are those of program order at every distance, wrong-path instructions   *)
(* leave no trace, and every access happens once and in order.             *)
THEOREM Refinement == Spec => ImplementsIsa
BY InitRInv, StepRInv, RefineInit, RefineStep, PTL DEF Spec, ImplementsIsa, IsaInst!Spec
=============================================================================
