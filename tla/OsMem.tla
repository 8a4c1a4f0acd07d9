-------------------------------- MODULE OsMem -------------------------------
(***************************************************************************)
(* os_mem.c of uC/OS-II: memory partitions.  A free block holds the        *)
(* address of the next one in its first word, which is the user's while    *)
(* the block is; a partition that is not in use is linked to the next one  *)
(* by its OSMemFreeList.  Blocks are numbered by where they lie.           *)
(***************************************************************************)
EXTENDS OsCore

CONSTANTS
    Part,           \* OSMemTbl
    Caller,         \* tasks and interrupt handlers
    Area,           \* the memory there is for partitions: sets of blocks in a row
    DATA            \* what a user writes to a block

VARIABLES
    OSMemTbl,
    OSMemPool,      \* the global OSMemFreeList
    word,           \* the first word of each block
    creating,       \* the pmem a caller has in OSMemCreate, or NULL
    lent            \* history: the blocks users have

memVars == <<OSMemTbl, OSMemPool, word, creating, lent>>

Blk == UNION Area

(* Areas are apart, and of at least one block; no block is at address 0. *)
ASSUME MemAssumption ==
    /\ IsFiniteSet(Part) /\ Part # {} /\ NULL \notin Part
    /\ IsFiniteSet(Area) /\ NULL \notin Blk
    /\ \A r \in Area : r \subseteq Nat /\ \E a, b \in r : a <= b /\ r = a .. b
    /\ \A r, s \in Area : r # s => r \cap s = {}

(* OS_MemInit chains the partitions in some order. *)
MemInit ==
    LET order == CHOOSE o \in [1 .. Cardinality(Part) -> Part] :
                    \A i, j \in DOMAIN o : o[i] = o[j] => i = j
        Link(p) == LET i == CHOOSE j \in DOMAIN order : order[j] = p
                   IN  IF i + 1 \in DOMAIN order THEN order[i + 1] ELSE NULL
    IN  /\ OSMemTbl = [p \in Part |-> [OSMemAddr |-> {}, OSMemFreeList |-> Link(p),
                                       OSMemNFree |-> 0, OSMemNBlks |-> 0]]
        /\ OSMemPool = order[1]
        /\ word = [b \in Blk |-> DATA]
        /\ creating = [c \in Caller |-> NULL]
        /\ lent = {}

InUse(p) == OSMemTbl[p].OSMemAddr # {}

(* The critical section of OSMemCreate takes a partition off the free      *)
(* list.  The rest runs with interrupts enabled.                           *)
OSMemCreate(c) ==
    /\ creating[c] = NULL /\ OSMemPool # NULL
    /\ creating' = [creating EXCEPT ![c] = OSMemPool]
    /\ OSMemPool' = OSMemTbl[OSMemPool].OSMemFreeList
    /\ UNCHANGED <<OSMemTbl, word, lent>>

FirstOf(area) == CHOOSE b \in area : \A x \in area : b <= x

(* The application gives each area to one partition. *)
OSMemCreate_Blocks(c) ==
    /\ creating[c] # NULL
    /\ \E area \in Area :
          /\ \A p \in Part : OSMemTbl[p].OSMemAddr # area
          /\ word' = [b \in Blk |-> IF b \notin area THEN word[b]
                                      ELSE IF b + 1 \in area THEN b + 1 ELSE NULL]
          /\ OSMemTbl' = [OSMemTbl EXCEPT ![creating[c]] =
                            [OSMemAddr |-> area, OSMemFreeList |-> FirstOf(area),
                             OSMemNFree |-> Cardinality(area), OSMemNBlks |-> Cardinality(area)]]
    /\ creating' = [creating EXCEPT ![c] = NULL]
    /\ UNCHANGED <<OSMemPool, lent>>

OSMemGet(p) ==
    LET blk == OSMemTbl[p].OSMemFreeList
    IN  /\ InUse(p) /\ OSMemTbl[p].OSMemNFree > 0
        /\ OSMemTbl' = [OSMemTbl EXCEPT ![p].OSMemFreeList = word[blk],
                                        ![p].OSMemNFree = @ - 1]
        /\ lent' = lent \cup {<<p, blk>>}
        /\ UNCHANGED <<OSMemPool, word, creating>>

OSMemPutLinkedLast(p, blk) ==                                            \* mutant
    /\ OSMemTbl[p].OSMemNFree < OSMemTbl[p].OSMemNBlks
    /\ word' = [word EXCEPT ![blk] = blk]
    /\ OSMemTbl' = [OSMemTbl EXCEPT ![p].OSMemFreeList = blk, ![p].OSMemNFree = @ + 1]
    /\ lent' = lent \ {<<p, blk>>}
    /\ UNCHANGED <<OSMemPool, creating>>

OSMemPut(p, blk) ==
    /\ OSMemTbl[p].OSMemNFree < OSMemTbl[p].OSMemNBlks
    /\ word' = [word EXCEPT ![blk] = OSMemTbl[p].OSMemFreeList]
    /\ OSMemTbl' = [OSMemTbl EXCEPT ![p].OSMemFreeList = blk, ![p].OSMemNFree = @ + 1]
    /\ lent' = lent \ {<<p, blk>>}
    /\ UNCHANGED <<OSMemPool, creating>>

(* The user of a block writes to all of it. *)
WriteTo(blk) ==
    /\ word' = [word EXCEPT ![blk] = DATA]
    /\ UNCHANGED <<OSMemTbl, OSMemPool, creating, lent>>

MemNext ==
    \/ \E c \in Caller : OSMemCreate(c) \/ OSMemCreate_Blocks(c)
    \/ \E p \in Part : OSMemGet(p)
    \/ \E x \in lent : OSMemPut(x[1], x[2]) \/ WriteTo(x[2])

MemSpec == MemInit /\ [][MemNext]_memVars

-----------------------------------------------------------------------------
(* The blocks the links reach from a partition's OSMemFreeList. *)
FreeBlocks(p) ==
    LET at[n \in 0 .. Cardinality(Blk)] ==
            IF n = 0 THEN OSMemTbl[p].OSMemFreeList
            ELSE IF at[n - 1] \in Blk THEN word[at[n - 1]] ELSE NULL
    IN  {at[n] : n \in DOMAIN at} \ {NULL}

Pools == INSTANCE BlockPools
    WITH Region <- Area,
         free <- [p \in Part |-> IF InUse(p) THEN FreeBlocks(p) ELSE {}],
         count <- [p \in Part |-> IF InUse(p) THEN OSMemTbl[p].OSMemNFree ELSE 0],
         used <- {p \in Part : InUse(p)}

(* Whatever users write to the blocks they have, and however creations     *)
(* interleave, a block that OSMemGet returns was free, nothing is lost from*)
(* a partition, and its count tells how many blocks the links reach.       *)
ImplementsPools == Pools!Spec
=============================================================================
