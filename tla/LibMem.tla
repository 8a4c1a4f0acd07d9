-------------------------------- MODULE LibMem ------------------------------
(***************************************************************************)
(* lib_mem.c of uC/LIB: memory segments from which memory is taken and     *)
(* never given back singly, static pools whose free blocks are in a table, *)
(* and dynamic pools whose free blocks are linked and which grow.  The     *)
(* configuration has no argument checks and no debug information, so an    *)
(* allocation is one critical section; the services that take several are  *)
(* that many steps.  Sizes and addresses are unsigned and wrap.            *)
(***************************************************************************)
EXTENDS Integers, FiniteSets, Sequences, FiniteSetsExt, SequencesExt

CONSTANTS
    WORD,       \* sizeof(CPU_ALIGN), and of a pointer
    ADDRS,      \* how many addresses there are
    SEG_SIZE,   \* sizeof(MEM_SEG)
    Application,\* what there may be, records of:
                \*   heap    where the heap lies and LIB_MEM_CFG_HEAP_SIZE: base, size
                \*   seg     segments: base, size, padding
                \*   pool    static pools: base or DEF_NULL, mem_size, blk_nbr, blk_size, align
                \*   dyn     dynamic pools: seg, blk_size, align, init, max, hw
                \*   alloc   what is taken from segments: seg, size, align, hw
    LibClient      \* its tasks

ASSUME LibMemAssumption ==
    /\ WORD \in Nat \ {0} /\ ADDRS \in Nat
    /\ \A a \in Application :
          /\ a.heap.base > 0
          /\ \A d \in DOMAIN a.dyn : a.dyn[d].blk_size >= WORD

VARIABLES
    app,
    Mem_SegHeadPtr, \* the list of segments, as a sequence
    seg,
    pool,
    dyn,
    link,       \* the pointers in free blocks, by where they are
    at,         \* what each client is in the middle of
    given,      \* history: what the segments have given, to whom
    out,       \* history: the blocks of pools that clients have
    failed      \* history: the gets of a dynamic pool that did not grow it

libVars == <<app, Mem_SegHeadPtr, seg, pool, dyn, link, at, given, out, failed>>

DEF_NULL == 0
UNLIMITED == 0                                    \* LIB_MEM_BLK_QTY_UNLIMITED
PADDING_NONE == 1                                 \* LIB_MEM_PADDING_ALIGN_NONE
Heap == "heap"
WRITTEN == "data"                                    \* what clients write to blocks
Larger(a, b) == IF a > b THEN a ELSE b
Wrap(n) == n % ADDRS

(* MATH_ROUND_INC_UP_PWR2 *)
RoundUp(n, inc) == Wrap(IF n % inc = 0 THEN n ELSE n - (n % inc) + inc)

NoSeg == [AddrBase |-> 0, AddrEnd |-> 0, AddrNext |-> 0, PaddingAlign |-> 0]
NewSeg(base, size, padding) ==
    [AddrBase |-> base, AddrEnd |-> Wrap(base + size - 1), AddrNext |-> base,
     PaddingAlign |-> padding]
NoPool == [PoolAddrStart |-> DEF_NULL, BlkNbr |-> 0, BlkSize |-> 0, BlkFreeTbl |-> <<>>,
           BlkFreeTblIx |-> 0]
NoDyn == [PoolSegPtr |-> DEF_NULL]

LibInit ==
    /\ app \in Application
    /\ Mem_SegHeadPtr = <<Heap>>
    /\ seg = [s \in DOMAIN app.seg \cup DOMAIN app.pool \cup {Heap} |->
                IF s = Heap THEN NewSeg(app.heap.base, app.heap.size, PADDING_NONE) ELSE NoSeg]
    /\ pool = [p \in DOMAIN app.pool |-> NoPool]
    /\ dyn = [d \in DOMAIN app.dyn |-> NoDyn]
    /\ link = <<>>
    /\ at = [c \in LibClient |-> [in |-> "idle"]]
    /\ given = {} /\ out = {}
    /\ failed = [d \in DOMAIN app.dyn |-> 0]

(***************************************************************************)
(* Segments.                                                               *)
(***************************************************************************)
Exists(s) == \E i \in DOMAIN Mem_SegHeadPtr : Mem_SegHeadPtr[i] = s

SegAllocUnpadded(s, size, align, padding) ==                             \* mutant
    LET blk == RoundUp(seg[s].AddrNext, align)
    IN  [blk |-> blk, next |-> Wrap(blk + size),
         fits |-> Wrap(seg[s].AddrEnd - seg[s].AddrNext + 1) >= size]

(* Mem_SegAllocExtCritical: where a block would lie and what would be next.*)
SegAlloc(s, size, align, padding) ==
    LET blk == RoundUp(seg[s].AddrNext, Larger(align, padding))
        next == RoundUp(Wrap(blk + size), padding)
        rem == Wrap(seg[s].AddrEnd - seg[s].AddrNext + 1)
    IN  [blk |-> blk, next |-> next, fits |-> rem >= Wrap(next - seg[s].AddrNext)]

Give(s, a, size, to) ==
    /\ seg' = [seg EXCEPT ![s].AddrNext = a.next]
    /\ given' = given \cup {[seg |-> s, addr |-> a.blk, size |-> size, to |-> to]}

Mem_SegRemSizeGet(s, align) ==
    LET next == RoundUp(seg[s].AddrNext, align)
    IN  IF next > seg[s].AddrEnd THEN 0
        ELSE Wrap(seg[s].AddrEnd - seg[s].AddrBase + 1 - (next - seg[s].AddrBase))

Mem_SegCreate(s) ==
    /\ ~Exists(s)
    /\ seg' = [seg EXCEPT ![s] = NewSeg(app.seg[s].base, app.seg[s].size, app.seg[s].padding)]
    /\ Mem_SegHeadPtr' = <<s>> \o Mem_SegHeadPtr
    /\ UNCHANGED <<app, pool, dyn, link, at, given, out, failed>>

(* The application clears a segment in which it has no pool, and forgets   *)
(* what it took from there.                                                *)
Mem_SegClr(s) ==
    /\ Exists(s)
    /\ \A r \in given : r.seg = s => r.to = "application"
    /\ seg' = [seg EXCEPT ![s].AddrNext = seg[s].AddrBase]
    /\ given' = {r \in given : r.seg # s}
    /\ UNCHANGED <<app, Mem_SegHeadPtr, pool, dyn, link, at, out, failed>>

(* Mem_HeapAlloc, Mem_SegAlloc, Mem_SegAllocExt and Mem_SegAllocHW, which  *)
(* alone keeps to the segment's padding.                                   *)
Mem_SegAlloc(r) ==
    LET a == SegAlloc(r.seg, r.size, r.align,
                      IF r.hw THEN seg[r.seg].PaddingAlign ELSE PADDING_NONE)
    IN  /\ Exists(r.seg) /\ a.fits
        /\ Give(r.seg, a, r.size, "application")
        /\ UNCHANGED <<app, Mem_SegHeadPtr, pool, dyn, link, at, out, failed>>

Meets(base, end, s) ==
    \/ base >= seg[s].AddrBase /\ base <= seg[s].AddrEnd
    \/ base <= seg[s].AddrBase /\ end >= seg[s].AddrBase

(* Mem_SegOverlapChkCritical: the first segment of the list that meets the *)
(* memory asked about, and whether it is that very memory.                 *)
SegOverlapChk(base, size) ==
    LET end == Wrap(base + size - 1)
        met == {i \in DOMAIN Mem_SegHeadPtr : Meets(base, end, Mem_SegHeadPtr[i])}
        s == Mem_SegHeadPtr[Min(met)]
    IN  CASE met = {} -> [err |-> "NONE"]
          [] met # {} /\ seg[s].AddrBase = base /\ seg[s].AddrEnd = end
                -> [err |-> "EXISTS", seg |-> s]
          [] OTHER -> [err |-> "OVERLAP"]

(***************************************************************************)
(* The memory of free blocks.                                              *)
(***************************************************************************)
Overlap(a, n, b, m) == a < b + m /\ b < a + n
Untouched(a, n) == {k \in DOMAIN link : ~Overlap(k, WORD, a, n)}
LinkAt(a) == IF a \in DOMAIN link THEN link[a] ELSE WRITTEN
Stored(a, v) == [k \in Untouched(a, WORD) \cup {a} |-> IF k = a THEN v ELSE link[k]]

(* A client writes to all of a block it has. *)
OverwriteBlk(h) ==
    /\ link' = [k \in Untouched(h.addr, h.size) |-> link[k]]
    /\ UNCHANGED <<app, Mem_SegHeadPtr, seg, pool, dyn, at, given, out, failed>>

(***************************************************************************)
(* Static pools.  A creation that fails keeps what it has allocated.       *)
(***************************************************************************)
AtRest(c) == at[c].in = "idle"
Goes(c, to) == at' = [at EXCEPT ![c] = to]
Returns(c) == Goes(c, [in |-> "idle"])
BlkSizeAlign(p) == RoundUp(app.pool[p].blk_size, app.pool[p].align)

(* Nobody creates a pool twice at a time, or one that has blocks out.      *)
Mem_PoolCreate(c, p) ==
    LET cfg == app.pool[p]
        chk == SegOverlapChk(cfg.base, cfg.mem_size)
        hdr == SegAlloc(Heap, SEG_SIZE, WORD, PADDING_NONE)
        Blocks(s) == Goes(c, [in |-> "PoolCreate", pool |-> p, seg |-> s])
    IN  /\ AtRest(c)
        /\ \A u \in LibClient : at[u].in \in {"PoolCreate", "PoolTable"} => at[u].pool # p
        /\ pool[p].BlkNbr = 0
        /\ pool' = [pool EXCEPT ![p] = NoPool]
        /\ \/ /\ cfg.base = DEF_NULL
              /\ Blocks(Heap)
              /\ UNCHANGED <<Mem_SegHeadPtr, seg, given>>
           \/ /\ cfg.base # DEF_NULL /\ chk.err = "EXISTS"
              /\ Blocks(chk.seg)
              /\ UNCHANGED <<Mem_SegHeadPtr, seg, given>>
           \/ /\ cfg.base # DEF_NULL /\ chk.err = "NONE" /\ hdr.fits
              /\ seg' = [seg EXCEPT ![Heap].AddrNext = hdr.next,
                                    ![p] = NewSeg(cfg.base, cfg.mem_size, PADDING_NONE)]
              /\ given' = given \cup {[seg |-> Heap, addr |-> hdr.blk, size |-> SEG_SIZE, to |-> p]}
              /\ Mem_SegHeadPtr' = <<p>> \o Mem_SegHeadPtr
              /\ Blocks(p)
        /\ UNCHANGED <<app, dyn, link, out, failed>>

Mem_PoolCreate_Blks(c) ==
    LET p == at[c].pool
        size == Wrap(BlkSizeAlign(p) * app.pool[p].blk_nbr)
        a == SegAlloc(at[c].seg, size, app.pool[p].align, PADDING_NONE)
    IN  /\ at[c].in = "PoolCreate"
        /\ IF a.fits THEN /\ Give(at[c].seg, a, size, p)
                          /\ Goes(c, [in |-> "PoolTable", pool |-> p, addr |-> a.blk])
                     ELSE Returns(c) /\ UNCHANGED <<seg, given>>
        /\ UNCHANGED <<app, Mem_SegHeadPtr, pool, dyn, link, out, failed>>

Mem_PoolCreate_Table(c) ==
    LET p == at[c].pool
        n == app.pool[p].blk_nbr
        a == SegAlloc(Heap, n * WORD, WORD, PADDING_NONE)
    IN  /\ at[c].in = "PoolTable"
        /\ IF a.fits
           THEN /\ Give(Heap, a, n * WORD, "table")
                /\ pool' = [pool EXCEPT ![p] =
                     [PoolAddrStart |-> at[c].addr, BlkNbr |-> n, BlkSize |-> BlkSizeAlign(p),
                      BlkFreeTbl |-> [i \in 1 .. n |-> at[c].addr + (i - 1) * BlkSizeAlign(p)],
                      BlkFreeTblIx |-> n]]
           ELSE UNCHANGED <<seg, given, pool>>
        /\ Returns(c)
        /\ UNCHANGED <<app, Mem_SegHeadPtr, dyn, link, out, failed>>

(* A block at address 0 is taken for no block. *)
Mem_PoolBlkGet(p) ==
    LET i == pool[p].BlkFreeTblIx
        blk == pool[p].BlkFreeTbl[i]
    IN  /\ i > 0
        /\ pool' = [pool EXCEPT ![p].BlkFreeTblIx = i - 1, ![p].BlkFreeTbl[i] = DEF_NULL]
        /\ out' = IF blk = DEF_NULL THEN out
                   ELSE out \cup {[pool |-> p, addr |-> blk, size |-> pool[p].BlkSize]}
        /\ UNCHANGED <<app, Mem_SegHeadPtr, seg, dyn, link, at, given, failed>>

Mem_PoolBlkFree(h) ==
    LET p == h.pool
        i == pool[p].BlkFreeTblIx
    IN  /\ p \in DOMAIN pool /\ i < pool[p].BlkNbr
        /\ pool' = [pool EXCEPT ![p].BlkFreeTbl[i + 1] = h.addr, ![p].BlkFreeTblIx = i + 1]
        /\ out' = out \ {h}
        /\ UNCHANGED <<app, Mem_SegHeadPtr, seg, dyn, link, at, given, failed>>

(***************************************************************************)
(* Dynamic pools.  Of Mem_DynPoolCreate only the allocation is a critical  *)
(* section; until it returns nobody else knows of the pool or its blocks.  *)
(***************************************************************************)
Mem_DynPoolCreate(d) ==
    LET cfg == app.dyn[d]
        padding == IF cfg.hw THEN seg[cfg.seg].PaddingAlign ELSE PADDING_NONE
        align == Larger(cfg.align, padding)
        size == RoundUp(Larger(cfg.blk_size, WORD), align)
        a == SegAlloc(cfg.seg, Wrap(size * cfg.init), Larger(cfg.align, WORD), PADDING_NONE)
        Blk(i) == a.blk + (i - 1) * size
        blks == {Blk(i) : i \in 1 .. cfg.init}
        inBlks == UNION {{k \in DOMAIN link : Overlap(k, WORD, b, WORD)} : b \in blks}
        Created(free) ==
            [PoolSegPtr |-> cfg.seg, BlkSize |-> cfg.blk_size, BlkAlign |-> align,
             BlkPaddingAlign |-> padding, BlkQtyMax |-> cfg.max, BlkAllocCnt |-> 0,
             BlkFreePtr |-> free]
    IN  /\ Exists(cfg.seg) /\ dyn[d] = NoDyn
        /\ \/ /\ cfg.init = 0
              /\ dyn' = [dyn EXCEPT ![d] = Created(DEF_NULL)]
              /\ UNCHANGED <<seg, given, link>>
           \/ /\ cfg.init # 0 /\ a.fits
              /\ Give(cfg.seg, a, size * cfg.init, d)
              /\ link' = [k \in (DOMAIN link \ inBlks) \cup blks |->
                            IF k \notin blks THEN link[k]
                            ELSE IF k = Blk(cfg.init) THEN DEF_NULL ELSE k + size]
              /\ dyn' = [dyn EXCEPT ![d] = Created(a.blk)]
        /\ UNCHANGED <<app, Mem_SegHeadPtr, pool, at, out, failed>>

Limited(d) == dyn[d].BlkQtyMax # UNLIMITED
DynInUse(d) == dyn[d] # NoDyn

Mem_DynPoolBlkGet(c, d) ==
    /\ AtRest(c) /\ DynInUse(d)
    /\ Limited(d) => dyn[d].BlkAllocCnt < dyn[d].BlkQtyMax
    /\ dyn' = IF Limited(d) THEN [dyn EXCEPT ![d].BlkAllocCnt = @ + 1] ELSE dyn
    /\ Goes(c, [in |-> "DynGet", dyn |-> d])
    /\ UNCHANGED <<app, Mem_SegHeadPtr, seg, pool, link, given, out, failed>>

Got(d, blk) == out' = out \cup {[pool |-> d, addr |-> blk, size |-> dyn[d].BlkSize]}

Mem_DynPoolBlkGet_Free(c) ==
    LET d == at[c].dyn
        blk == dyn[d].BlkFreePtr
    IN  /\ at[c].in = "DynGet"
        /\ \/ /\ blk # DEF_NULL
              /\ dyn' = [dyn EXCEPT ![d].BlkFreePtr = LinkAt(blk)]
              /\ Got(d, blk)
              /\ Returns(c)
           \/ /\ blk = DEF_NULL
              /\ Goes(c, [in |-> "DynGrow", dyn |-> d])
              /\ UNCHANGED <<dyn, out>>
        /\ UNCHANGED <<app, Mem_SegHeadPtr, seg, pool, link, given, failed>>

(* The count is not taken back when the segment is full. *)
Mem_DynPoolBlkGet_Grow(c) ==
    LET d == at[c].dyn
        a == SegAlloc(dyn[d].PoolSegPtr, dyn[d].BlkSize, dyn[d].BlkAlign, dyn[d].BlkPaddingAlign)
    IN  /\ at[c].in = "DynGrow"
        /\ IF a.fits THEN /\ Give(dyn[d].PoolSegPtr, a, dyn[d].BlkSize, d)
                          /\ Got(d, a.blk)
                          /\ UNCHANGED failed
                     ELSE /\ failed' = IF Limited(d) THEN [failed EXCEPT ![d] = @ + 1] ELSE failed
                          /\ UNCHANGED <<seg, given, out>>
        /\ Returns(c)
        /\ UNCHANGED <<app, Mem_SegHeadPtr, pool, dyn, link>>

Mem_DynPoolBlkFree(c, h) ==
    LET d == h.pool
    IN  /\ AtRest(c) /\ d \in DOMAIN dyn
        /\ Limited(d) => dyn[d].BlkAllocCnt # 0
        /\ dyn' = IF Limited(d) THEN [dyn EXCEPT ![d].BlkAllocCnt = @ - 1] ELSE dyn
        /\ out' = out \ {h}
        /\ Goes(c, [in |-> "DynFree", dyn |-> d, blk |-> h.addr])
        /\ UNCHANGED <<app, Mem_SegHeadPtr, seg, pool, link, given, failed>>

DynPoolBlkFreeKeepsLink(c) ==                                            \* mutant
    LET d == at[c].dyn
        blk == at[c].blk
    IN  /\ at[c].in = "DynFree"
        /\ link' = Stored(blk, DEF_NULL)
        /\ dyn' = [dyn EXCEPT ![d].BlkFreePtr = blk]
        /\ Returns(c)
        /\ UNCHANGED <<app, Mem_SegHeadPtr, seg, pool, given, out, failed>>

Mem_DynPoolBlkFree_Link(c) ==
    LET d == at[c].dyn
        blk == at[c].blk
    IN  /\ at[c].in = "DynFree"
        /\ link' = Stored(blk, dyn[d].BlkFreePtr)
        /\ dyn' = [dyn EXCEPT ![d].BlkFreePtr = blk]
        /\ Returns(c)
        /\ UNCHANGED <<app, Mem_SegHeadPtr, seg, pool, given, out, failed>>

(* A call that fails, or only reads, leaves everything as it is. *)
ReadOrRefused == UNCHANGED libVars

LibNext ==
    \/ ReadOrRefused
    \/ \E s \in DOMAIN app.seg : Mem_SegCreate(s) \/ Mem_SegClr(s)
    \/ \E r \in app.alloc : Mem_SegAlloc(r)
    \/ \E p \in DOMAIN app.pool : Mem_PoolBlkGet(p)
    \/ \E d \in DOMAIN app.dyn : Mem_DynPoolCreate(d)
    \/ \E h \in out : Mem_PoolBlkFree(h) \/ OverwriteBlk(h)
    \/ \E c \in LibClient :
          \/ \E p \in DOMAIN app.pool : Mem_PoolCreate(c, p)
          \/ Mem_PoolCreate_Blks(c) \/ Mem_PoolCreate_Table(c)
          \/ \E d \in DOMAIN app.dyn : Mem_DynPoolBlkGet(c, d)
          \/ Mem_DynPoolBlkGet_Free(c) \/ Mem_DynPoolBlkGet_Grow(c)
          \/ \E h \in out : Mem_DynPoolBlkFree(c, h)
          \/ Mem_DynPoolBlkFree_Link(c)

LibSpec == LibInit /\ [][LibNext]_libVars

-----------------------------------------------------------------------------
(* The blocks the links reach from a dynamic pool's BlkFreePtr. *)
FreeBlks(d) ==
    LET most == Cardinality(DOMAIN link) + 1
        reached[n \in 0 .. most] ==
            IF n = 0 THEN dyn[d].BlkFreePtr
            ELSE IF reached[n - 1] \in Nat THEN LinkAt(reached[n - 1]) ELSE WRITTEN
    IN  IF dyn[d].BlkFreePtr = DEF_NULL THEN {}
        ELSE {reached[n] : n \in {m \in 0 .. most : \A k \in 0 .. m : reached[k] # DEF_NULL}}

TableBlks(p) == {pool[p].BlkFreeTbl[i] : i \in 1 .. pool[p].BlkFreeTblIx}
OutOf(p) == {h.addr : h \in {x \in out : x.pool = p}}
Freeing(d) == {at[c].blk : c \in {u \in LibClient : at[u].in = "DynFree" /\ at[u].dyn = d}}
Getting(d) == {c \in LibClient : at[c].in \in {"DynGet", "DynGrow"} /\ at[c].dyn = d}

(* What Mem_SegRemSizeGet says is left can be allocated, and no more can.  *)
RemSizeTrue(s) ==
    \A align \in {1, 2, 4, 8} :
        LET left == Mem_SegRemSizeGet(s, align)
        IN  /\ left > 0 => SegAlloc(s, left, align, PADDING_NONE).fits
            /\ ~SegAlloc(s, left + 1, align, PADDING_NONE).fits

(* What segments have given lies in them and apart from what else they     *)
(* have given; a block a client has lies in memory given to its pool, apart*)
(* from all other blocks that are out and from every block that is free;   *)
(* and what a segment says remains in it does, also when the segment ends  *)
(* where addresses wrap.                                                   *)
BlocksApart ==
    /\ \A i \in DOMAIN Mem_SegHeadPtr : RemSizeTrue(Mem_SegHeadPtr[i])
    /\ \A r \in given :
          /\ r.addr >= seg[r.seg].AddrBase /\ r.addr + r.size - 1 <= seg[r.seg].AddrEnd
          /\ \A q \in given \ {r} : ~Overlap(r.addr, r.size, q.addr, q.size)
    /\ \A h \in out :
          /\ \E r \in given : /\ r.to = h.pool
                              /\ r.addr <= h.addr /\ h.addr + h.size <= r.addr + r.size
          /\ \A g \in out \ {h} : ~Overlap(h.addr, h.size, g.addr, g.size)
          /\ \A p \in DOMAIN pool : \A b \in TableBlks(p) :
                ~Overlap(h.addr, h.size, b, pool[p].BlkSize)
          /\ \A d \in {x \in DOMAIN dyn : DynInUse(x)} : \A b \in FreeBlks(d) :
                b \in Nat /\ ~Overlap(h.addr, h.size, b, dyn[d].BlkSize)

(* No pool loses a block, whatever clients write to blocks and however     *)
(* their calls interleave: a static pool's blocks are in its table or out, *)
(* and all memory given to a dynamic pool is linked, out or on its way     *)
(* back.  Its count is the number of blocks that are out or being taken,   *)
(* and of the gets that failed.                                            *)
PoolsKeepBlocks ==
    /\ \A p \in DOMAIN pool :
          /\ TableBlks(p) \cup OutOf(p) =
                {pool[p].PoolAddrStart + i * pool[p].BlkSize : i \in 0 .. pool[p].BlkNbr - 1}
          /\ pool[p].BlkFreeTblIx = pool[p].BlkNbr - Cardinality(OutOf(p))
    /\ \A d \in {x \in DOMAIN dyn : DynInUse(x)} :
          LET ours == FreeBlks(d) \cup OutOf(d) \cup Freeing(d)
          IN  /\ \A r \in given : r.to = d =>
                    \A a \in r.addr .. r.addr + r.size - 1 :
                        \E b \in ours : a - b \in 0 .. RoundUp(dyn[d].BlkSize, dyn[d].BlkAlign) - 1
              /\ Limited(d) =>
                    /\ dyn[d].BlkAllocCnt = Cardinality(OutOf(d)) + Cardinality(Getting(d)) + failed[d]
                    /\ dyn[d].BlkAllocCnt <= dyn[d].BlkQtyMax

-----------------------------------------------------------------------------
(***************************************************************************)
(* Mem_Set, Mem_Copy, Mem_Move and Mem_Cmp of uC/LIB's lib_mem.c.  Where   *)
(* both buffers lie alike in their words they go word by word, and byte by *)
(* byte before the first and after the last whole word: a call is a        *)
(* sequence of accesses, each an offset and a width.                       *)
(***************************************************************************)

CONSTANTS
    ALIGN,      \* sizeof(CPU_ALIGN)
    OCTETS,     \* the size of the memory
    FILL        \* what Mem_Set writes

VARIABLES
    octets,     \* the memory
    before,     \* history: the memory before the last call
    asked       \* history: the last call

bytesVars == <<octets, before, asked>>

Address == 0 .. OCTETS - 1
Least(a, b) == IF a < b THEN a ELSE b

Octetwise(from, n) == [i \in 1 .. n |-> [at |-> from + i - 1, width |-> 1]]
Wordwise(from, n) == [i \in 1 .. n |-> [at |-> from + (i - 1) * ALIGN, width |-> ALIGN]]

UpwardsUnaligned(a, size) ==                                             \* mutant
    Wordwise(0, size \div ALIGN) \o Octetwise((size \div ALIGN) * ALIGN, size % ALIGN)

(* From the start of a buffer at a. *)
Upwards(a, size) ==
    LET head == Least(size, (ALIGN - (a % ALIGN)) % ALIGN)
        words == (size - head) \div ALIGN
    IN  Octetwise(0, head) \o Wordwise(head, words)
            \o Octetwise(head + words * ALIGN, size - head - words * ALIGN)

(* From its end. *)
Downwards(a, size) ==
    LET tail == Least(size, (a + size) % ALIGN)
        words == (size - tail) \div ALIGN
        head == size - tail - words * ALIGN
    IN  Reverse(Octetwise(0, head) \o Wordwise(head, words) \o Octetwise(size - tail, tail))

Alike(a, b) == a % ALIGN = b % ALIGN

(* The gap is unsigned: a destination above the source is far from it.     *)
CopyAccesses(dest, src, size) ==
    IF Alike(dest, src) /\ (src < dest \/ src - dest >= ALIGN) THEN Upwards(dest, size)
    ELSE Octetwise(0, size)

MoveAccesses(dest, src, size) ==
    IF src > dest THEN CopyAccesses(dest, src, size)
    ELSE IF Alike(dest, src) /\ dest - src >= ALIGN THEN Downwards(dest, size)
    ELSE Reverse(Octetwise(0, size))

CmpAccesses(a, b, size) ==
    IF Alike(a + size, b + size) THEN Downwards(a, size) ELSE Reverse(Octetwise(0, size))

(* Each access reads its octets before it writes them. *)
Transfer(m, dest, src, accesses) ==
    LET Access(mem, x) ==
            [o \in Address |-> IF o - dest \in x.at .. x.at + x.width - 1
                               THEN mem[o - dest + src] ELSE mem[o]]
    IN  FoldLeft(Access, m, accesses)

Fits(a, size) == a + size <= OCTETS
Asks(call) == asked' = call /\ before' = octets

Mem_Set(dest, size) ==
    /\ octets' = [o \in Address |->
                    IF \E i \in DOMAIN Upwards(dest, size) :
                          LET x == Upwards(dest, size)[i]
                          IN  o - dest \in x.at .. x.at + x.width - 1
                    THEN FILL ELSE octets[o]]
    /\ Asks([op |-> "Set", dest |-> dest, src |-> dest, size |-> size])

(* The caller of Mem_Copy sees to it that the destination does not begin   *)
(* inside the source.                                                      *)
Mem_Copy(dest, src, size) ==
    /\ dest <= src \/ dest >= src + size
    /\ octets' = Transfer(octets, dest, src, CopyAccesses(dest, src, size))
    /\ Asks([op |-> "Copy", dest |-> dest, src |-> src, size |-> size])

Mem_Move(dest, src, size) ==
    /\ octets' = Transfer(octets, dest, src, MoveAccesses(dest, src, size))
    /\ Asks([op |-> "Move", dest |-> dest, src |-> src, size |-> size])

Mem_Cmp(m, a, b, size) ==
    \A i \in DOMAIN CmpAccesses(a, b, size) :
        LET x == CmpAccesses(a, b, size)[i]
        IN  \A o \in x.at .. x.at + x.width - 1 : m[a + o] = m[b + o]

Fresh == [o \in Address |-> o]
NoCall == [op |-> "none", dest |-> 0, src |-> 0, size |-> 0]

BytesInit == octets = Fresh /\ before = Fresh /\ asked = NoCall

(* What a call does with the octets does not depend on them: after a call  *)
(* the memory is filled anew.                                              *)
Refill == octets' = Fresh /\ before' = Fresh /\ asked' = NoCall

BytesNext ==
    \/ /\ asked = NoCall
       /\ \E dest, src \in Address, size \in 0 .. OCTETS :
             /\ Fits(dest, size) /\ Fits(src, size)
             /\ Mem_Set(dest, size) \/ Mem_Copy(dest, src, size) \/ Mem_Move(dest, src, size)
    \/ asked # NoCall /\ Refill

-----------------------------------------------------------------------------
Accesses(c) == CASE c.op = "Set" -> Upwards(c.dest, c.size)
                 [] c.op = "Copy" -> CopyAccesses(c.dest, c.src, c.size)
                 [] c.op = "Move" -> MoveAccesses(c.dest, c.src, c.size)
                 [] OTHER -> <<>>

(* A call writes what it is asked to and nothing else, also when Mem_Move's*)
(* buffers or those of a downward Mem_Copy overlap; a word is only accessed*)
(* where one lies; and Mem_Cmp tells whether buffers are equal.            *)
BytesAsAsked ==
    asked # NoCall =>
    /\ \A o \in Address :
          octets[o] = IF o \notin asked.dest .. asked.dest + asked.size - 1 THEN before[o]
                      ELSE IF asked.op = "Set" THEN FILL ELSE before[asked.src + o - asked.dest]
    /\ \A i \in DOMAIN Accesses(asked) :
          LET x == Accesses(asked)[i]
          IN  x.width # 1 => \A a \in {asked.dest, asked.src} : (a + x.at) % ALIGN = 0
    /\ \A a \in Address, size \in 0 .. OCTETS :
          Fits(a, size) /\ Fits(asked.dest, size) =>
             (Mem_Cmp(octets, a, asked.dest, size)
                <=> \A o \in 0 .. size - 1 : octets[a + o] = octets[asked.dest + o])
=============================================================================
