------------------------------ MODULE Pipeline ------------------------------
(***************************************************************************)
(* The five-stage pipeline of cpu.v.  Each register file between two       *)
(* stages is a variable, each combinational output of a stage an operator  *)
(* named after the wire, and one clock edge updates all registers at once: *)
(* Clock is the conjunction of one *_Edge formula per clocked module.      *)
(*                                                                         *)
(* The instruction cache and the data cache are the two ports icache and   *)
(* dcache: a request presented to an idle port either completes at the     *)
(* next edge (hit) or makes the port busy until some later edge at which   *)
(* done is raised for one cycle.  Module Cache has the detail.  With rom    *)
(* the instruction port is the combinational memory of the first design    *)
(* (no-memory-delay), which answers in every cycle: only then do two       *)
(* instructions ever sit in adjacent stages.                               *)
(*                                                                         *)
(* A word is an integer modulo WORDS and an address is a word address, so  *)
(* PC + 4 of the code is Add(pc, 1) here.                                  *)
(***************************************************************************)
EXTENDS Naturals

CONSTANTS WORDS, REGS, IN_ADDR, OUT_ADDR, Insts, Programs, InitRegs, InitMem,
          ROMS        \* the kinds of instruction memory: rom or not

Word   == 0 .. WORDS - 1
RegIds == 0 .. REGS - 1
Ops    == {"NOP", "LUI", "AUIPC", "ADDI", "ADD", "JAL", "JALR", "BEQ", "BNE",
           "LW", "SW", "FENCE"}

Inst == [op : Ops, rd : RegIds, rs1 : RegIds, rs2 : RegIds, imm : Word]

ASSUME PipelineAssumption ==
    /\ WORDS \in Nat \ {0, 1} /\ REGS \in Nat \ {0, 1}
    /\ IN_ADDR \in Word /\ OUT_ADDR \in Word
    /\ Insts \subseteq {i \in Inst : i.op # "NOP"}   \* NOP: a word that is none
    /\ Programs \subseteq [Word -> Insts]
    /\ InitRegs \in [RegIds -> Word] /\ InitRegs[0] = 0
    /\ InitMem \in [Word -> Word]
    /\ ROMS \subseteq BOOLEAN

VARIABLES
    rom,        \* the instruction memory is combinational
    prog,       \* instruction memory (never written: the caches are not coherent)
    pc, next_jump, target_addr,         \* PC_reg
    icache,                             \* instruction port
    id, ifid_jump,                      \* IF_ID and its next_jump
    ex, idex_jump,                      \* ID_EX and its next_jump
    me,                                 \* EX_ME
    dcache,                             \* data port
    wb,                                 \* ME_WB
    regs,                               \* Regfile
    mem, inputs, outputs                \* memory and the input and output ports

pcVars  == <<pc, next_jump, target_addr>>
idVars  == <<id, ifid_jump>>
exVars  == <<ex, idex_jump>>
memVars == <<mem, inputs, outputs>>
vars == <<rom, prog, pcVars, icache, idVars, exVars, me, dcache, wb, regs, memVars>>

Add(a, b) == (a + b) % WORDS

(* The all-zero word that fills a cleared IF_ID register decodes to a NOP. *)
ZeroWord == [op |-> "NOP", rd |-> 0, rs1 |-> 0, rs2 |-> 0, imm |-> 0]

(* v and, in EX_ME, pc are history: they tell an instruction from a bubble *)
(* and are read by no definition that drives a register of the code.       *)
IdBubble == [pc |-> 0, inst |-> ZeroWord, v |-> FALSE]
ExBubble == [op |-> "NOP", r1 |-> 0, r2 |-> 0, w_enable |-> FALSE,
             w_addr |-> 0, pc |-> 0, offset |-> 0, v |-> FALSE]
MeBubble == [w_enable |-> FALSE, w_addr |-> 0, w_data |-> 0, op |-> "NOP",
             addr |-> 0, pc |-> 0, v |-> FALSE]
WbBubble == [w_enable |-> FALSE, w_addr |-> 0, w_data |-> 0]

(* A port is idle, busy with a latched request, or answering. *)
IcacheIdle == [busy |-> FALSE, done |-> FALSE, addr |-> 0, data |-> ZeroWord]
IcacheBusy(a) == [busy |-> TRUE, done |-> FALSE, addr |-> a, data |-> ZeroWord]
IcacheDone(i) == [busy |-> FALSE, done |-> TRUE, addr |-> 0, data |-> i]

NoAccess   == [op |-> "NOP", addr |-> 0, w_data |-> 0]
DcacheIdle == [busy |-> FALSE, done |-> FALSE, req |-> NoAccess, data |-> 0]
DcacheBusy(r) == [busy |-> TRUE, done |-> FALSE, req |-> r, data |-> 0]
DcacheDone(d) == [busy |-> FALSE, done |-> TRUE, req |-> NoAccess, data |-> d]

Init ==
    /\ prog \in Programs
    /\ pc = 0 /\ next_jump = FALSE /\ target_addr = 0
    /\ rom \in ROMS
    /\ icache = IF rom THEN IcacheDone(prog[0]) ELSE IcacheIdle
    /\ dcache = DcacheIdle
    /\ id = IdBubble /\ ifid_jump = FALSE
    /\ ex = ExBubble /\ idex_jump = FALSE
    /\ me = MeBubble /\ wb = WbBubble
    /\ regs = InitRegs
    /\ mem = InitMem /\ inputs = 0 /\ outputs = [count |-> 0, last |-> 0]

-----------------------------------------------------------------------------
(* ME: the memory stage.                                                   *)

MemOps == {"LW", "SW"}

ram_enable_again == me.op \in MemOps /\ ~dcache.busy              \* mutant

(* A request is driven only in a cycle in which the port is neither busy   *)
(* nor answering.                                                          *)
ram_enable == me.op \in MemOps /\ ~dcache.done /\ ~dcache.busy

me_stall_req_held == me.op \in MemOps                            \* mutant
me_stall_req == me.op \in MemOps /\ ~dcache.done

me2id_w_data ==
    IF me.op = "LW" /\ dcache.done THEN dcache.data ELSE me.w_data

-----------------------------------------------------------------------------
(* EX: results, branches and the operands of a memory access.              *)

is_ld == ex.op = "LW"

ex_b_flag ==
    \/ ex.op = "JALR"
    \/ ex.op = "BEQ" /\ ex.r1 = ex.r2
    \/ ex.op = "BNE" /\ ex.r1 # ex.r2

ex_b_target_addr ==
    IF ex.op = "JALR" THEN Add(ex.r1, ex.r2) ELSE Add(ex.pc, ex.offset)

ex_res_wide ==                                                   \* mutant
    CASE ex.op = "LUI"              -> ex.r1
      [] ex.op \in {"ADDI", "ADD"}  -> Add(ex.r1, ex.r2)
      [] ex.op = "AUIPC"            -> Add(ex.pc, ex.offset)
      [] ex.op \in {"JAL", "JALR"}  -> ex.pc + 1
      [] ex.op \in MemOps           -> ex.r2
      [] OTHER                      -> 0

ex_res ==
    CASE ex.op = "LUI"              -> ex.r1        \* imm OR imm
      [] ex.op \in {"ADDI", "ADD"}  -> Add(ex.r1, ex.r2)
      [] ex.op = "AUIPC"            -> Add(ex.pc, ex.offset)
      [] ex.op \in {"JAL", "JALR"}  -> Add(ex.pc, 1)
      [] ex.op \in MemOps           -> ex.r2
      [] OTHER                      -> 0

(* A write to x0 is turned off here, before it can be forwarded. *)
ex_to_x0       == ex.w_enable /\ ex.w_addr = 0
ex2id_w_enable == ex.w_enable /\ ~ex_to_x0
ex2id_w_data   == IF ex_to_x0 THEN 0 ELSE ex_res

-----------------------------------------------------------------------------
(* ID: decoding and operand selection.                                     *)

r1_enable == id.inst.op \in {"JALR", "BEQ", "BNE", "LW", "SW", "ADDI", "ADD"}
r2_enable == id.inst.op \in {"BEQ", "BNE", "SW", "ADD"}
id_w_enable ==
    id.inst.op \in {"LUI", "AUIPC", "JAL", "JALR", "LW", "ADDI", "ADD"}
id_w_addr == IF id.inst.op \in {"BEQ", "BNE"} THEN 0 ELSE id.inst.rd

id_b_flag        == id.inst.op = "JAL"
id_b_target_addr == Add(id.pc, id.inst.imm)

(* Regfile: a register being written this cycle is read through. *)
r_data(r) == IF wb.w_enable /\ wb.w_addr = r THEN wb.w_data ELSE regs[r]

ForwardOldestFirst(r) ==                                         \* mutant
    IF me.w_enable /\ me.w_addr = r THEN me2id_w_data
    ELSE IF ex2id_w_enable /\ ex.w_addr = r THEN ex2id_w_data
    ELSE r_data(r)

(* The forwarding network, youngest producer first. *)
Forward(r) ==
    IF ex2id_w_enable /\ ex.w_addr = r THEN ex2id_w_data
    ELSE IF me.w_enable /\ me.w_addr = r THEN me2id_w_data
    ELSE r_data(r)

(* A load in EX has no data to forward yet. *)
id_stall_req ==
    /\ is_ld
    /\ \/ r1_enable /\ ex.w_addr = id.inst.rs1
       \/ r2_enable /\ ex.w_addr = id.inst.rs2

id2ex ==
    [op       |-> IF id.inst.op = "FENCE" THEN "NOP" ELSE id.inst.op,
     r1       |-> IF r1_enable THEN Forward(id.inst.rs1) ELSE id.inst.imm,
     r2       |-> IF r2_enable THEN Forward(id.inst.rs2) ELSE id.inst.imm,
     w_enable |-> id_w_enable,
     w_addr   |-> id_w_addr,
     pc       |-> id.pc,
     offset   |-> id.inst.imm,
     v        |-> id.v]

-----------------------------------------------------------------------------
(* IF and Ctrl.                                                            *)

if_r_enable  == ~icache.done /\ ~icache.busy
if_stall_req == ~icache.done
if2id == [pc |-> pc, inst |-> icache.data, v |-> TRUE]

(* ex_stall_req is tied to 0 in EX.v. *)
stall_level ==
    IF me_stall_req THEN 5
    ELSE IF id_stall_req THEN 3
    ELSE IF if_stall_req THEN 2
    ELSE 0

stall(i) == i < stall_level

-----------------------------------------------------------------------------
(* The clocked modules.                                                    *)

PC_reg_EdgeEager ==                                              \* mutant
    /\ pc' = IF ex_b_flag THEN ex_b_target_addr
             ELSE IF id_b_flag THEN id_b_target_addr
             ELSE IF stall(0) THEN pc ELSE Add(pc, 1)
    /\ UNCHANGED <<next_jump, target_addr>>

PC_reg_Edge ==
    /\ \/ /\ stall(0)
          /\ pc' = pc
          /\ next_jump' = (next_jump \/ ex_b_flag \/ id_b_flag)
          /\ target_addr' = IF ex_b_flag THEN ex_b_target_addr
                            ELSE IF id_b_flag THEN id_b_target_addr
                            ELSE target_addr
       \/ /\ ~stall(0)
          /\ pc' = IF ex_b_flag THEN ex_b_target_addr
                   ELSE IF id_b_flag THEN id_b_target_addr
                   ELSE IF next_jump THEN target_addr
                   ELSE Add(pc, 1)
          /\ next_jump' = FALSE
          /\ target_addr' = IF ex_b_flag \/ id_b_flag THEN target_addr ELSE 0

IF_ID_EdgeForgetful ==                                           \* mutant
    LET flush == ex_b_flag \/ id_b_flag
    IN  \/ /\ stall(1)
           /\ id' = IF stall(2) THEN id ELSE IdBubble
           /\ ifid_jump' = (ifid_jump \/ (flush /\ ~stall(2)))
        \/ /\ ~stall(1)
           /\ id' = IF flush \/ ifid_jump THEN IdBubble ELSE if2id
           /\ ifid_jump' = FALSE

IF_ID_Edge ==
    LET flush == ex_b_flag \/ id_b_flag
    IN  \/ /\ stall(1)
           /\ id' = IF stall(2) THEN id ELSE IdBubble
           /\ ifid_jump' = (ifid_jump \/ flush)
        \/ /\ ~stall(1)
           /\ id' = IF flush \/ ifid_jump THEN IdBubble ELSE if2id
           /\ ifid_jump' = FALSE

ID_EX_EdgeNoFlush ==                                             \* mutant
    \/ /\ stall(2)
       /\ ex' = IF stall(3) THEN ex ELSE ExBubble
       /\ idex_jump' = (idex_jump \/ ex_b_flag)
    \/ /\ ~stall(2)
       /\ ex' = IF idex_jump THEN ExBubble ELSE id2ex
       /\ idex_jump' = FALSE

ID_EX_Edge ==
    \/ /\ stall(2)
       /\ ex' = IF stall(3) THEN ex ELSE ExBubble
       /\ idex_jump' = (idex_jump \/ ex_b_flag)
    \/ /\ ~stall(2)
       /\ ex' = IF ex_b_flag \/ idex_jump THEN ExBubble ELSE id2ex
       /\ idex_jump' = FALSE

ex2me ==
    [w_enable |-> ex2id_w_enable,
     w_addr   |-> ex.w_addr,
     w_data   |-> ex2id_w_data,
     op       |-> IF ex.op \in MemOps THEN ex.op ELSE "NOP",
     addr     |-> Add(ex.r1, ex.offset),
     pc       |-> ex.pc,
     v        |-> ex.v]

EX_ME_Edge ==
    me' = IF stall(3) /\ ~stall(4) THEN MeBubble
          ELSE IF stall(3) THEN me
          ELSE ex2me

ME_WB_Edge ==
    wb' = IF stall(4) THEN WbBubble
          ELSE [w_enable |-> me.w_enable, w_addr |-> me.w_addr,
                w_data |-> me2id_w_data]

Regfile_Edge ==
    regs' = IF wb.w_enable /\ wb.w_addr # 0
            THEN [regs EXCEPT ![wb.w_addr] = wb.w_data]
            ELSE regs

(* The combinational instruction memory follows the pc. *)
Inst_rom == icache' = IcacheDone(prog[pc'])

(* The instruction port: hit, miss, wait or completion. *)
icache_Edge ==
    \/ /\ ~icache.busy /\ ~if_r_enable
       /\ icache' = IcacheIdle
    \/ /\ ~icache.busy /\ if_r_enable
       /\ icache' = IcacheDone(prog[pc])
    \/ /\ ~icache.busy /\ if_r_enable
       /\ icache' = IcacheBusy(pc)
    \/ /\ icache.busy
       /\ UNCHANGED icache
    \/ /\ icache.busy
       /\ icache' = IcacheDone(prog[icache.addr])

(* The data port.  The access takes effect at the edge that raises done. *)
ram_access == [op |-> me.op, addr |-> me.addr, w_data |-> me.w_data]

dcache_Complete(r) ==
    \/ /\ r.op = "LW" /\ r.addr = IN_ADDR
       /\ dcache' = DcacheDone(inputs)
       /\ inputs' = Add(inputs, 1) /\ UNCHANGED <<mem, outputs>>
    \/ /\ r.op = "LW" /\ r.addr # IN_ADDR
       /\ dcache' = DcacheDone(mem[r.addr]) /\ UNCHANGED memVars
    \/ /\ r.op = "SW"
       /\ dcache' = DcacheDone(0)
       /\ mem' = IF r.addr \in {IN_ADDR, OUT_ADDR} THEN mem
                 ELSE [mem EXCEPT ![r.addr] = r.w_data]
       /\ outputs' = IF r.addr # OUT_ADDR THEN outputs
                     ELSE [count |-> Add(outputs.count, 1), last |-> r.w_data]
       /\ UNCHANGED inputs

dcache_Edge ==
    \/ /\ ~dcache.busy /\ ~ram_enable
       /\ dcache' = DcacheIdle /\ UNCHANGED memVars
    \/ /\ ~dcache.busy /\ ram_enable
       /\ dcache_Complete(ram_access)
    \/ /\ ~dcache.busy /\ ram_enable
       /\ dcache' = DcacheBusy(ram_access)
       /\ UNCHANGED memVars
    \/ /\ dcache.busy
       /\ UNCHANGED <<dcache, memVars>>
    \/ /\ dcache.busy
       /\ dcache_Complete(dcache.req)

Clock ==
    /\ PC_reg_Edge
    /\ IF rom THEN Inst_rom ELSE icache_Edge
    /\ IF_ID_Edge /\ ID_EX_Edge /\ EX_ME_Edge /\ ME_WB_Edge
    /\ Regfile_Edge /\ dcache_Edge
    /\ UNCHANGED <<rom, prog>>

Spec == Init /\ [][Clock]_vars

(* The clock never stops, and a memory that has been asked answers. *)
IcacheAnswers == Clock /\ icache.busy /\ icache'.done
DcacheAnswers == Clock /\ dcache.busy /\ dcache'.done

FairSpec ==
    Spec /\ WF_vars(Clock) /\ WF_vars(IcacheAnswers) /\ WF_vars(DcacheAnswers)

-----------------------------------------------------------------------------

IcachePort == [busy : BOOLEAN, done : BOOLEAN, addr : Word,
               data : Insts \cup {ZeroWord}]
Access     == [op : Ops, addr : Word, w_data : Word]
DcachePort == [busy : BOOLEAN, done : BOOLEAN, req : Access, data : Word]
IdReg == [pc : Word, inst : Insts \cup {ZeroWord}, v : BOOLEAN]
ExReg == [op : Ops, r1 : Word, r2 : Word, w_enable : BOOLEAN,
          w_addr : RegIds, pc : Word, offset : Word, v : BOOLEAN]
MeReg == [w_enable : BOOLEAN, w_addr : RegIds, w_data : Word, op : Ops,
          addr : Word, pc : Word, v : BOOLEAN]
WbReg == [w_enable : BOOLEAN, w_addr : RegIds, w_data : Word]

(* Every register holds a value of its declared width. *)
TypeOK ==
    /\ rom \in BOOLEAN /\ prog \in Programs
    /\ pc \in Word /\ next_jump \in BOOLEAN /\ target_addr \in Word
    /\ icache \in IcachePort
    /\ id \in IdReg /\ ifid_jump \in BOOLEAN
    /\ ex \in ExReg /\ idex_jump \in BOOLEAN
    /\ me \in MeReg
    /\ dcache \in DcachePort
    /\ wb \in WbReg
    /\ regs \in [RegIds -> Word]
    /\ mem \in [Word -> Word] /\ inputs \in Word
    /\ outputs \in [count : Word, last : Word]

(* A jump taken while the fetch stage waits is remembered twice, in PC_reg *)
(* (where to go) and in IF_ID (drop what arrives), and the branch in EX a  *)
(* third time in ID_EX.  The first two must be set and cleared together,   *)
(* and the third must not outlive the branch, or a correct-path            *)
(* instruction is dropped or a wrong-path one kept.                        *)
JumpBitsAgree ==
    /\ next_jump = ifid_jump
    /\ idex_jump => ex_b_flag

(* The caches latch a request and answer it cycles later, while the        *)
(* pipeline pairs the answer with whatever pc and EX_ME hold then: those   *)
(* still name the request that is answered, however the stalls and jumps   *)
(* fell in between.                                                        *)
AnswersMatchRequests ==
    /\ icache.busy => icache.addr = pc
    /\ icache.done => icache.data = prog[pc]
    /\ dcache.busy => dcache.req = ram_access
    /\ dcache.busy \/ dcache.done => me.op \in MemOps

(* The architectural state.  An instruction is executed when its data      *)
(* access completes or, if it has none, when it leaves ME; what it wrote   *)
(* may still be in dcache, ME_WB or on its way to Regfile.                 *)
LoadedRegs ==
    LET r == IF wb.w_enable THEN [regs EXCEPT ![wb.w_addr] = wb.w_data] ELSE regs
    IN  IF me.op = "LW" /\ dcache.done /\ me.w_enable
        THEN [r EXCEPT ![me.w_addr] = dcache.data] ELSE r

(* The oldest instruction not executed yet. *)
NextPc ==
    IF me.v /\ ~(me.op \in MemOps /\ dcache.done) THEN me.pc
    ELSE IF ex.v THEN ex.pc
    ELSE IF id.v THEN id.pc
    ELSE IF next_jump THEN target_addr
    ELSE pc

IsaInst == INSTANCE Isa WITH pc <- NextPc, regs <- LoadedRegs

(* Whatever the caches' latencies, the pipeline executes the program as    *)
(* the sequential machine does: hazards are resolved, wrong-path           *)
(* instructions leave no trace, and every access is performed exactly      *)
(* once and in program order.                                              *)
ImplementsIsa == IsaInst!Spec

(* The pipeline never locks up: some instruction leaves ME again and       *)
(* again, provided the memories answer.                                    *)
AlwaysRetires == []<>(me.v /\ ~me_stall_req)
=============================================================================
