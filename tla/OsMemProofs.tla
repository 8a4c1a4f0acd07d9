---------------------------- MODULE OsMemProofs ----------------------------
(***************************************************************************)
(* However many partitions, callers and blocks there are, and whatever is  *)
(* written to the blocks that are lent, partitions lose no block and lend  *)
(* none twice.                                                             *)
(***************************************************************************)
EXTENDS OsMem, Sequences, FiniteSetTheorems, WellFoundedInduction, TLAPS

Free(p) == {b \in OSMemTbl[p].OSMemAddr : <<p, b>> \notin lent}

Partitions == [OSMemAddr : Area \cup {{}}, OSMemFreeList : Part \cup Blk \cup {NULL},
               OSMemNFree : Nat, OSMemNBlks : Nat]

MemTypeOK ==
  /\ OSMemTbl \in [Part -> Partitions]
  /\ OSMemPool \in Part \cup {NULL}
  /\ DOMAIN word = Blk
  /\ creating \in [Caller -> Part \cup {NULL}]
  /\ lent \subseteq Part \X Blk

(* The partitions that are not in use, from OSMemFreeList on: the last     *)
(* ones of the order in which OS_MemInit chained them.                     *)
Order == CHOOSE o \in [1 .. Cardinality(Part) -> Part] :
            \A i, j \in DOMAIN o : o[i] = o[j] => i = j
After(i) == IF i + 1 \in 1 .. Cardinality(Part) THEN Order[i + 1] ELSE NULL
UnusedFrom(i) ==
  /\ OSMemPool = IF i \in 1 .. Cardinality(Part) THEN Order[i] ELSE NULL
  /\ \A j \in i .. Cardinality(Part) :
        /\ ~InUse(Order[j]) /\ OSMemTbl[Order[j]].OSMemFreeList = After(j)
        /\ \A c \in Caller : creating[c] # Order[j]
UnusedChained == \E i \in 1 .. Cardinality(Part) + 1 : UnusedFrom(i)

(* A partition that is being created is not in use, and is one caller's. *)
CreatedOnce ==
  \A c \in Caller : creating[c] # NULL =>
    ~InUse(creating[c]) /\ \A d \in Caller : creating[d] = creating[c] => d = c

(* Partitions have areas of their own, and lend their own blocks. *)
Apart == \A p, q \in Part : InUse(p) /\ OSMemTbl[p].OSMemAddr = OSMemTbl[q].OSMemAddr => p = q
LentOwn == \A x \in lent : x[2] \in OSMemTbl[x[1]].OSMemAddr

(* The links from a partition's OSMemFreeList go once through the blocks   *)
(* that are not lent.                                                      *)
First(q) == IF Len(q) = 0 THEN NULL ELSE q[1]
Links(w, q) ==
  \A i \in 1 .. Len(q) : w[q[i]] = IF i + 1 \in 1 .. Len(q) THEN q[i + 1] ELSE NULL
Linked(p, q) ==
  /\ OSMemTbl[p].OSMemFreeList = First(q)
  /\ Len(q) = OSMemTbl[p].OSMemNFree
  /\ \A b \in Blk : b \in Free(p) <=> \E i \in 1 .. Len(q) : q[i] = b
  /\ \A i, j \in 1 .. Len(q) : q[i] = q[j] => i = j
  /\ Links(word, q)
FreeLinked == \A p \in Part : InUse(p) => \E q \in Seq(Blk) : Linked(p, q)

MemInv == MemTypeOK /\ UnusedChained /\ CreatedOnce /\ Apart /\ LentOwn /\ FreeLinked

-----------------------------------------------------------------------------

LEMMA LeastElement ==
  ASSUME NEW S \in SUBSET Nat, S # {}
  PROVE  \E n \in S : \A m \in S : n <= m
<1> DEFINE Upto(n) == 1 .. n
           T == {Upto(n) : n \in S}
<1>1. T \subseteq FiniteSubsetsOf(Nat)
  <2>1. \A n \in Nat : IsFiniteSet(1 .. n)
    BY FS_Interval
  <2> QED
    BY <2>1 DEF FiniteSubsetsOf
<1>2. T # {}
  OBVIOUS
<1> HIDE DEF T
<1>3. PICK x \in T : \A y \in T : ~(<<y, x>> \in StrictSubsetOrdering(Nat))
  BY <1>1, <1>2, FS_StrictSubsetOrderingWellFounded, WFMin
<1>4. PICK n \in S : x = Upto(n)
  BY DEF T
<1>5. ASSUME NEW m \in S, m < n
      PROVE  FALSE
  <2>1. /\ Upto(m) \subseteq Upto(n) /\ Upto(m) # Upto(n)
        /\ Upto(m) \in SUBSET Nat /\ Upto(n) \in SUBSET Nat
    BY <1>5
  <2>2. <<Upto(m), Upto(n)>> \in StrictSubsetOrdering(Nat)
    BY <2>1 DEF StrictSubsetOrdering
  <2> QED
    BY <2>2, <1>3, <1>4 DEF T
<1> QED
  BY <1>5

LEMMA BlocksAre ==
  /\ IsFiniteSet(Blk) /\ Cardinality(Blk) \in Nat /\ Blk \subseteq Nat /\ NULL \notin Blk
  /\ \A r \in Area : r # {} /\ r \subseteq Blk /\ IsFiniteSet(r)
<1>1. \A r \in Area : r # {} /\ r \subseteq Blk /\ IsFiniteSet(r) /\ r \subseteq Nat
  <2> SUFFICES ASSUME NEW r \in Area
               PROVE  r # {} /\ r \subseteq Blk /\ IsFiniteSet(r) /\ r \subseteq Nat
    OBVIOUS
  <2>1. PICK a \in r, b \in r : a <= b /\ r = a .. b /\ r \subseteq Nat
    BY MemAssumption
  <2>2. a \in Int /\ b \in Int
    BY <2>1
  <2>3. IsFiniteSet(a .. b)
    BY <2>2, FS_Interval
  <2> QED
    BY <2>1, <2>3 DEF Blk
<1>2. IsFiniteSet(Blk) /\ NULL \notin Blk
  BY <1>1, FS_UNION, MemAssumption DEF Blk
<1>3. Cardinality(Blk) \in Nat
  BY <1>2, FS_CardinalityType
<1> QED
  BY <1>1, <1>2, <1>3 DEF Blk

LEMMA OrderIs ==
  /\ Cardinality(Part) \in Nat /\ 1 <= Cardinality(Part)
  /\ Order \in [1 .. Cardinality(Part) -> Part]
  /\ \A i, j \in 1 .. Cardinality(Part) : Order[i] = Order[j] => i = j
  /\ \A i \in 1 .. Cardinality(Part) : Order[i] \in Part /\ Order[i] # NULL
<1>1. Cardinality(Part) \in Nat /\ ExistsBijection(1 .. Cardinality(Part), Part)
  BY MemAssumption, FS_CardinalityType
<1>2. Cardinality(Part) # 0
  BY MemAssumption, FS_EmptySet
<1>3. PICK f \in [1 .. Cardinality(Part) -> Part] :
         \A i, j \in DOMAIN f : f[i] = f[j] => i = j
  BY <1>1 DEF ExistsBijection, Bijection, Injection, IsInjective
<1>4. /\ Order \in [1 .. Cardinality(Part) -> Part]
      /\ \A i, j \in DOMAIN Order : Order[i] = Order[j] => i = j
  BY <1>3 DEF Order
<1> QED
  BY <1>1, <1>2, <1>4, MemAssumption

(* The walk along the links that FreeBlocks is made of. *)
WalkFrom(h, w, B, n) ==
  CHOOSE at : at = [k \in 0 .. n |->
     IF k = 0 THEN h ELSE IF at[k - 1] \in B THEN w[at[k - 1]] ELSE NULL]

LEMMA Walk ==
  ASSUME NEW n \in Nat, NEW w, NEW B, NEW q \in Seq(B), NULL \notin B, Len(q) <= n,
         Links(w, q), NEW h, h = First(q)
  PROVE  WalkFrom(h, w, B, n) = [k \in 0 .. n |-> IF k + 1 \in 1 .. Len(q) THEN q[k + 1] ELSE NULL]
<1> DEFINE Next1(at) == [k \in 0 .. n |->
              IF k = 0 THEN h ELSE IF at[k - 1] \in B THEN w[at[k - 1]] ELSE NULL]
           walk == [k \in 0 .. n |-> IF k + 1 \in 1 .. Len(q) THEN q[k + 1] ELSE NULL]
<1>1. walk = Next1(walk)
  <2> SUFFICES ASSUME NEW k \in 0 .. n PROVE walk[k] = Next1(walk)[k]
    OBVIOUS
  <2>1. CASE k = 0
    BY <2>1 DEF First
  <2>2. CASE k # 0
    <3>1. k - 1 \in 0 .. n /\ k \in Nat
      BY <2>2
    <3>2. CASE k \in 1 .. Len(q)
      <4>1. walk[k - 1] = q[k] /\ q[k] \in B
        BY <3>1, <3>2
      <4> QED
        BY <2>2, <3>1, <3>2, <4>1 DEF Links
    <3>3. CASE k \notin 1 .. Len(q)
      <4>1. walk[k - 1] = NULL
        BY <3>1, <3>3
      <4>2. k + 1 \notin 1 .. Len(q)
        BY <3>1, <3>3, <2>2
      <4> QED
        BY <2>2, <3>1, <4>1, <4>2
    <3> QED
      BY <3>2, <3>3
  <2> QED
    BY <2>1, <2>2
<1>2. ASSUME NEW at, at = Next1(at)
      PROVE  at = walk
  <2> DEFINE Bad == {k \in 0 .. n : at[k] # walk[k]}
  <2>1. ASSUME Bad # {} PROVE FALSE
    <3>1. PICK k \in Bad : \A m \in Bad : k <= m
      <4>1. Bad \in SUBSET Nat
        OBVIOUS
      <4> HIDE DEF Bad
      <4> QED
        BY <2>1, <4>1, LeastElement
    <3>2. k # 0
      BY <1>2
    <3>3. k - 1 \in 0 .. n /\ at[k - 1] = walk[k - 1]
      BY <3>1, <3>2
    <3>4. at[k] = IF at[k - 1] \in B THEN w[at[k - 1]] ELSE NULL
      BY <1>2, <3>2
    <3>5. walk[k] = IF walk[k - 1] \in B THEN w[walk[k - 1]] ELSE NULL
      BY <1>1, <3>2
    <3> QED
      BY <3>3, <3>4, <3>5
  <2>2. at \in [0 .. n -> {at[k] : k \in 0 .. n}]
    BY <1>2
  <2> QED
    BY <2>1, <1>2
<1> QED
  <2>1. \A at : at = Next1(at) <=> at = walk
    BY <1>1, <1>2
  <2> QED
    BY <2>1 DEF WalkFrom

(* What the links reach is what is free, and its count is kept. *)
LEMMA FreeBlocksAre ==
  MemInv => \A p \in Part : InUse(p) =>
    /\ FreeBlocks(p) = Free(p)
    /\ OSMemTbl[p].OSMemNFree = Cardinality(Free(p))
<1> SUFFICES ASSUME MemInv, NEW p \in Part, InUse(p)
             PROVE  FreeBlocks(p) = Free(p) /\ OSMemTbl[p].OSMemNFree = Cardinality(Free(p))
  OBVIOUS
<1>1. PICK q \in Seq(Blk) : Linked(p, q)
  BY DEF MemInv, FreeLinked
<1>2. PICK n \in Nat : n = Len(q)
  OBVIOUS
<1>3. PICK F : F = Free(p)
  OBVIOUS
<1>4. F \subseteq Blk /\ IsFiniteSet(F)
  <2>1. OSMemTbl[p].OSMemAddr \subseteq Blk
    BY BlocksAre DEF MemInv, MemTypeOK, Partitions
  <2>2. F \subseteq Blk
    BY <1>3, <2>1 DEF Free
  <2> QED
    BY <2>2, BlocksAre, FS_Subset
<1>5. \A b : b \in F <=> \E i \in 1 .. n : q[i] = b
  <2>1. \A i \in 1 .. n : q[i] \in Blk
    BY <1>2
  <2> QED
    BY <1>1, <1>2, <1>3, <1>4, <2>1 DEF Linked
<1>6. Cardinality(F) = n
  <2> DEFINE f == [i \in 1 .. n |-> q[i]]
  <2>1. f \in [1 .. n -> F]
    BY <1>5
  <2>2. \A i, j \in 1 .. n : f[i] = f[j] => i = j
    BY <1>1, <1>2 DEF Linked
  <2>3. \A b \in F : \E i \in 1 .. n : f[i] = b
    BY <1>5
  <2>4. f \in Bijection(1 .. n, F)
    <3> HIDE DEF f
    <3> QED
      BY <2>1, <2>2, <2>3 DEF Bijection, Injection, Surjection, IsInjective
  <2> QED
    BY <2>4, FS_CountingElements DEF ExistsBijection
<1>7. n <= Cardinality(Blk)
  BY <1>4, <1>6, BlocksAre, FS_Subset
<1>8. FreeBlocks(p) = F
  <2>1. PICK N, w, h : N = Cardinality(Blk) /\ w = word /\ h = OSMemTbl[p].OSMemFreeList
    OBVIOUS
  <2> N \in Nat
    BY <2>1, BlocksAre
  <2>2. WalkFrom(h, w, Blk, N) = [k \in 0 .. N |-> IF k + 1 \in 1 .. Len(q) THEN q[k + 1] ELSE NULL]
    <3>1. Links(w, q)
      BY <1>1, <2>1 DEF Linked
    <3>2. h = First(q)
      BY <1>1, <2>1 DEF Linked
    <3>3. Len(q) <= N /\ NULL \notin Blk
      BY <1>2, <1>7, <2>1, BlocksAre
    <3> QED
      BY <3>1, <3>2, <3>3, Walk
  <2> DEFINE walk == [k \in 0 .. N |-> IF k + 1 \in 1 .. Len(q) THEN q[k + 1] ELSE NULL]
  <2>3. FreeBlocks(p) = {walk[k] : k \in DOMAIN walk} \ {NULL}
    <3> DEFINE at == WalkFrom(OSMemTbl[p].OSMemFreeList, word, Blk, Cardinality(Blk))
    <3>1. FreeBlocks(p) = {at[k] : k \in DOMAIN at} \ {NULL}
      BY DEF FreeBlocks, WalkFrom
    <3>2. at = WalkFrom(h, w, Blk, N)
      BY <2>1
    <3> HIDE DEF at
    <3> QED
      BY <2>2, <3>1, <3>2, Zenon
  <2>4. ASSUME NEW b PROVE b \in {walk[k] : k \in DOMAIN walk} \ {NULL} <=> b \in F
    <3>1. ASSUME b \in F PROVE b \in {walk[k] : k \in DOMAIN walk} \ {NULL}
      <4>1. PICK i \in 1 .. n : q[i] = b
        BY <1>5, <3>1
      <4>2. i - 1 \in 0 .. N /\ (i - 1) + 1 = i /\ i \in 1 .. Len(q)
        BY <1>2, <1>7, <2>1, <4>1
      <4>3. walk[i - 1] = b
        BY <4>1, <4>2
      <4> QED
        BY <1>4, <3>1, <4>2, <4>3, BlocksAre
    <3>2. ASSUME b # NULL, NEW k \in 0 .. N, b = walk[k] PROVE b \in F
      BY <1>2, <1>5, <3>2
    <3> QED
      BY <3>1, <3>2
  <2> QED
    BY <2>3, <2>4
<1> QED
  BY <1>1, <1>2, <1>3, <1>6, <1>8 DEF Linked

LEMMA SameCardinality == \A S : Pools!Cardinality(S) = Cardinality(S)
BY DEF Cardinality, Pools!Cardinality

(* The state that the users of partitions see. *)
FreeSets == [p \in Part |-> IF InUse(p) THEN FreeBlocks(p) ELSE {}]
Counts == [p \in Part |-> IF InUse(p) THEN OSMemTbl[p].OSMemNFree ELSE 0]
Used == {p \in Part : InUse(p)}

SeenAsFree ==
  /\ FreeSets = [p \in Part |-> Free(p)]
  /\ Counts = [p \in Part |-> Cardinality(Free(p))]

LEMMA SeenByUsers == MemInv => SeenAsFree
<1> SUFFICES ASSUME MemInv
             PROVE  SeenAsFree
  OBVIOUS
<1>1. \A p \in Part : ~InUse(p) => Free(p) = {}
  BY DEF InUse, Free
<1>2. Cardinality({}) = 0
  BY FS_EmptySet
<1> QED
  BY <1>1, <1>2, FreeBlocksAre DEF FreeSets, Counts, SeenAsFree

LEMMA SeenStep ==
  ASSUME MemInv, MemInv', NEW p \in Part, NEW F,
         \A r \in Part : Free(r)' = IF r = p THEN F ELSE Free(r)
  PROVE  /\ FreeSets' = [FreeSets EXCEPT ![p] = F] /\ FreeSets[p] = Free(p)
         /\ Counts' = [Counts EXCEPT ![p] = Cardinality(FreeSets'[p])]
<1>1. FreeSets = [r \in Part |-> Free(r)] /\ Counts = [r \in Part |-> Cardinality(Free(r))]
  BY SeenByUsers DEF SeenAsFree
<1>2. SeenAsFree'
  BY SeenByUsers, PTL
<1>3. /\ FreeSets' = [r \in Part |-> Free(r)']
      /\ Counts' = [r \in Part |-> Cardinality(Free(r)')]
  BY <1>2 DEF SeenAsFree
<1> QED
  BY <1>1, <1>3

LEMMA SeenSame ==
  ASSUME MemInv, MemInv', \A r \in Part : Free(r)' = Free(r)
  PROVE  UNCHANGED <<FreeSets, Counts>>
<1>1. FreeSets = [r \in Part |-> Free(r)] /\ Counts = [r \in Part |-> Cardinality(Free(r))]
  BY SeenByUsers DEF SeenAsFree
<1>2. SeenAsFree'
  BY SeenByUsers, PTL
<1>3. /\ FreeSets' = [r \in Part |-> Free(r)']
      /\ Counts' = [r \in Part |-> Cardinality(Free(r)')]
  BY <1>2 DEF SeenAsFree
<1> QED
  BY <1>1, <1>3

LEMMA LinkedKept ==
  ASSUME NEW p, NEW q \in Seq(Blk), Linked(p, q), OSMemTbl'[p] = OSMemTbl[p], Free(p)' = Free(p),
         \A b \in Free(p) : word'[b] = word[b]
  PROVE  Linked(p, q)'
<1>1. \A i \in 1 .. Len(q) : q[i] \in Blk /\ q[i] \in Free(p)
  BY DEF Linked
<1> QED
  BY <1>1 DEF Linked, Links, First

-----------------------------------------------------------------------------

LEMMA InitHolds ==
  ASSUME MemInit
  PROVE  MemInv /\ Pools!Init
<1> DEFINE Link(p) == LET i == CHOOSE j \in DOMAIN Order : Order[j] = p
                      IN  IF i + 1 \in DOMAIN Order THEN Order[i + 1] ELSE NULL
<1>1. /\ OSMemTbl = [p \in Part |-> [OSMemAddr |-> {}, OSMemFreeList |-> Link(p),
                                     OSMemNFree |-> 0, OSMemNBlks |-> 0]]
      /\ OSMemPool = Order[1] /\ word = [b \in Blk |-> DATA]
      /\ creating = [c \in Caller |-> NULL] /\ lent = {}
  BY DEF MemInit, Order
<1>2. \A p \in Part : Link(p) \in Part \cup {NULL}
  BY OrderIs
<1>3. \A j \in 1 .. Cardinality(Part) : Link(Order[j]) = After(j)
  <2> SUFFICES ASSUME NEW j \in 1 .. Cardinality(Part)
               PROVE  Link(Order[j]) = After(j)
    OBVIOUS
  <2>1. (CHOOSE k \in DOMAIN Order : Order[k] = Order[j]) = j
    BY OrderIs
  <2> QED
    BY <2>1, OrderIs DEF After
<1> HIDE DEF Link
<1>4. \A p \in Part : ~InUse(p) /\ OSMemTbl[p].OSMemFreeList = Link(p)
  BY <1>1 DEF InUse
<1>5. MemTypeOK
  BY <1>1, <1>2, OrderIs DEF MemTypeOK, Partitions
<1>6. UnusedChained
  <2>1. 1 \in 1 .. Cardinality(Part) + 1 /\ 1 \in 1 .. Cardinality(Part)
    BY OrderIs
  <2>2. UnusedFrom(1)
    BY <1>1, <1>3, <1>4, <2>1, OrderIs DEF UnusedFrom
  <2> QED
    BY <2>1, <2>2 DEF UnusedChained
<1>7. CreatedOnce /\ Apart /\ LentOwn /\ FreeLinked
  BY <1>1, <1>4 DEF CreatedOnce, Apart, LentOwn, FreeLinked
<1>8. Pools!Init
  BY <1>1, <1>4 DEF Pools!Init
<1> QED
  BY <1>5, <1>6, <1>7, <1>8 DEF MemInv

LEMMA CreateStep ==
  ASSUME MemInv, NEW c \in Caller, OSMemCreate(c)
  PROVE  MemInv' /\ UNCHANGED <<FreeSets, Counts, Used, lent>>
<1>1. MemTypeOK /\ CreatedOnce /\ Apart /\ LentOwn /\ FreeLinked
  BY DEF MemInv
<1>2. PICK i \in 1 .. Cardinality(Part) + 1 : UnusedFrom(i)
  BY DEF MemInv, UnusedChained
<1>3. PICK p : p = OSMemPool
  OBVIOUS
<1>4. /\ creating[c] = NULL /\ p # NULL /\ creating' = [creating EXCEPT ![c] = p]
      /\ OSMemPool' = OSMemTbl[p].OSMemFreeList /\ UNCHANGED <<OSMemTbl, word, lent>>
  BY <1>3 DEF OSMemCreate
<1>5. i \in 1 .. Cardinality(Part) /\ p = Order[i]
  BY <1>2, <1>3, <1>4 DEF UnusedFrom
<1>6. ~InUse(p) /\ p \in Part /\ OSMemPool' = After(i) /\ \A d \in Caller : creating[d] # p
  BY <1>2, <1>4, <1>5, OrderIs DEF UnusedFrom
<1>7. After(i) \in Part \cup {NULL}
  BY OrderIs DEF After
<1>8. MemTypeOK'
  BY <1>1, <1>4, <1>6, <1>7 DEF MemTypeOK
<1>9. UnusedChained'
  <2>1. i + 1 \in 1 .. Cardinality(Part) + 1
    BY <1>5, OrderIs
  <2>2. ASSUME NEW j \in i + 1 .. Cardinality(Part)
        PROVE  /\ ~InUse(Order[j])' /\ OSMemTbl'[Order[j]].OSMemFreeList = After(j)
               /\ \A d \in Caller : creating'[d] # Order[j]
    <3>1. j \in i .. Cardinality(Part) /\ j \in 1 .. Cardinality(Part) /\ j # i
      BY <1>5, OrderIs
    <3>2. Order[j] # p
      BY <1>5, <3>1, OrderIs
    <3> QED
      BY <1>1, <1>2, <1>4, <3>1, <3>2 DEF UnusedFrom, InUse, MemTypeOK
  <2>3. UnusedFrom(i + 1)'
    BY <1>6, <2>2 DEF UnusedFrom, After
  <2> QED
    BY <2>1, <2>3 DEF UnusedChained
<1>10. CreatedOnce'
  BY <1>1, <1>4, <1>6 DEF CreatedOnce, InUse, MemTypeOK
<1>11. Apart' /\ LentOwn' /\ FreeLinked'
  BY <1>1, <1>4 DEF Apart, LentOwn, FreeLinked, InUse, Linked, Links, Free
<1>12. MemInv'
  BY <1>8, <1>9, <1>10, <1>11 DEF MemInv
<1> QED
  BY <1>4, <1>12 DEF FreeSets, Counts, Used, InUse, FreeBlocks

(* A partition gets an area that no other has. *)
LEMMA BlocksStep ==
  ASSUME MemInv, NEW c \in Caller, OSMemCreate_Blocks(c)
  PROVE  MemInv' /\ \E p \in Part : Pools!Create(p)
<1>1. MemTypeOK /\ CreatedOnce /\ Apart /\ LentOwn /\ FreeLinked
  BY DEF MemInv
<1>2. PICK p : p = creating[c]
  OBVIOUS
<1>3. PICK area \in Area :
        /\ \A r \in Part : OSMemTbl[r].OSMemAddr # area
        /\ word' = [b \in Blk |-> IF b \notin area THEN word[b]
                                    ELSE IF b + 1 \in area THEN b + 1 ELSE NULL]
        /\ OSMemTbl' = [OSMemTbl EXCEPT ![p] =
              [OSMemAddr |-> area, OSMemFreeList |-> FirstOf(area),
               OSMemNFree |-> Cardinality(area), OSMemNBlks |-> Cardinality(area)]]
  BY <1>2 DEF OSMemCreate_Blocks
<1>4. /\ p # NULL /\ creating' = [creating EXCEPT ![c] = NULL] /\ UNCHANGED <<OSMemPool, lent>>
      /\ p \in Part /\ ~InUse(p)
  BY <1>1, <1>2 DEF OSMemCreate_Blocks, CreatedOnce, MemTypeOK
<1>5. PICK a \in area, z \in area : a <= z /\ area = a .. z /\ a \in Nat /\ z \in Nat
  BY MemAssumption
<1>6. PICK m \in Nat : m = z - a + 1
  BY <1>5
<1>7. FirstOf(area) = a
  BY <1>5 DEF FirstOf
<1>8. Cardinality(area) = m
  BY <1>5, <1>6, FS_Interval
<1>9. area \subseteq Blk /\ area # {}
  BY BlocksAre
<1>10. MemTypeOK'
  BY <1>1, <1>3, <1>4, <1>7, <1>8, <1>9 DEF MemTypeOK, Partitions
<1>11. \A r \in Part : r # p => OSMemTbl'[r] = OSMemTbl[r] /\ (InUse(r)' <=> InUse(r))
  BY <1>1, <1>3 DEF MemTypeOK, InUse
<1>12. OSMemTbl'[p] = [OSMemAddr |-> area, OSMemFreeList |-> a, OSMemNFree |-> m,
                       OSMemNBlks |-> m]
  BY <1>1, <1>3, <1>4, <1>7, <1>8 DEF MemTypeOK
<1>13. \A r \in Part : OSMemTbl[r].OSMemAddr \cap area = {}
  <2>1. \A r \in Part : OSMemTbl[r].OSMemAddr \in Area \cup {{}}
    BY <1>1 DEF MemTypeOK, Partitions
  <2> QED
    BY <1>3, <2>1, MemAssumption
<1>14. UnusedChained'
  <2>1. PICK i \in 1 .. Cardinality(Part) + 1 : UnusedFrom(i)
    BY DEF MemInv, UnusedChained
  <2>2. ASSUME NEW j \in i .. Cardinality(Part)
        PROVE  /\ ~InUse(Order[j])' /\ OSMemTbl'[Order[j]].OSMemFreeList = After(j)
               /\ \A d \in Caller : creating'[d] # Order[j]
    <3>1. j \in 1 .. Cardinality(Part) /\ Order[j] \in Part /\ Order[j] # NULL
      BY <2>1, OrderIs
    <3>2. Order[j] # p
      BY <1>2, <2>1, <2>2 DEF UnusedFrom
    <3> QED
      BY <1>1, <1>4, <1>11, <2>1, <3>1, <3>2 DEF UnusedFrom, MemTypeOK
  <2>3. UnusedFrom(i)'
    BY <1>4, <2>1, <2>2 DEF UnusedFrom, After
  <2> QED
    BY <2>3 DEF UnusedChained
<1>15. CreatedOnce'
  <2> SUFFICES ASSUME NEW d \in Caller, creating'[d] # NULL
               PROVE  /\ OSMemTbl'[creating'[d]].OSMemAddr = {}
                      /\ \A e \in Caller : creating'[e] = creating'[d] => e = d
    BY DEF CreatedOnce, InUse
  <2>1. d # c /\ creating'[d] = creating[d]
    BY <1>1, <1>4 DEF MemTypeOK
  <2>2. creating[d] # p /\ creating[d] \in Part
    BY <1>1, <1>2, <2>1 DEF CreatedOnce, MemTypeOK
  <2> QED
    BY <1>1, <1>4, <1>11, <2>1, <2>2 DEF CreatedOnce, MemTypeOK, InUse
<1>16. Apart'
  BY <1>1, <1>3, <1>11, <1>12 DEF Apart
<1>17. LentOwn'
  <2>1. \A x \in lent : x[1] \in Part /\ x[1] # p
    BY <1>1, <1>4 DEF MemTypeOK, LentOwn, InUse
  <2> QED
    BY <1>1, <1>4, <1>11, <2>1 DEF LentOwn
<1>18. \A r \in Part : Free(r)' = IF r = p THEN area ELSE Free(r)
  <2>1. Free(p)' = area
    <3>1. \A b : <<p, b>> \notin lent
      BY <1>1, <1>4 DEF LentOwn, InUse
    <3> QED
      BY <1>4, <1>12, <3>1 DEF Free
  <2> QED
    BY <1>4, <1>11, <2>1 DEF Free
<1>19. FreeLinked'
  <2>1. ASSUME NEW r \in Part, r # p, InUse(r)'
        PROVE  \E q \in Seq(Blk) : Linked(r, q)'
    <3>1. PICK q \in Seq(Blk) : Linked(r, q)
      BY <1>1, <1>11, <2>1 DEF FreeLinked
    <3>2. Free(r) \subseteq Blk \ area
      BY <1>1, <1>13, BlocksAre DEF Free, MemTypeOK, Partitions
    <3>3. \A b \in Free(r) : word'[b] = word[b]
      BY <1>3, <3>2
    <3> QED
      BY <1>11, <1>18, <2>1, <3>1, <3>3, LinkedKept
  <2>2. \E q \in Seq(Blk) : Linked(p, q)'
    <3>1. PICK q : q = [i \in 1 .. m |-> a + i - 1]
      OBVIOUS
    <3>2. \A i \in 1 .. m : q[i] \in area /\ q[i] = a + i - 1
      BY <1>5, <1>6, <3>1
    <3>3. q \in Seq(Blk) /\ Len(q) = m
      BY <1>9, <3>1, <3>2
    <3>4. \A b \in area : \E i \in 1 .. m : q[i] = b
      <4> SUFFICES ASSUME NEW b \in area PROVE \E i \in 1 .. m : q[i] = b
        OBVIOUS
      <4>1. b - a + 1 \in 1 .. m /\ a + (b - a + 1) - 1 = b
        BY <1>5, <1>6
      <4> QED
        BY <3>2, <4>1
    <3>5. Links(word', q)
      <4> SUFFICES ASSUME NEW i \in 1 .. m
                   PROVE  word'[q[i]] = IF i + 1 \in 1 .. m THEN q[i + 1] ELSE NULL
        BY <3>3 DEF Links
      <4>1. word'[q[i]] = IF q[i] + 1 \in area THEN q[i] + 1 ELSE NULL
        BY <1>3, <1>9, <3>2
      <4>2. q[i] + 1 \in area <=> i + 1 \in 1 .. m
        BY <1>5, <1>6, <3>2
      <4> QED
        BY <1>5, <3>2, <4>1, <4>2
    <3>6. a = First(q)
      BY <1>5, <1>6, <3>2, <3>3 DEF First
    <3>7. \A b \in Blk : b \in Free(p)' <=> \E i \in 1 .. m : q[i] = b
      BY <1>4, <1>18, <3>2, <3>4
    <3>8. \A i, j \in 1 .. m : q[i] = q[j] => i = j
      BY <1>5, <3>2
    <3> QED
      BY <1>12, <3>3, <3>5, <3>6, <3>7, <3>8 DEF Linked
  <2> QED
    BY <2>1, <2>2 DEF FreeLinked
<1>20. MemInv'
  BY <1>10, <1>14, <1>15, <1>16, <1>17, <1>19 DEF MemInv
<1>21. Pools!Create(p)
  <2>1. /\ FreeSets' = [FreeSets EXCEPT ![p] = area]
        /\ Counts' = [Counts EXCEPT ![p] = Cardinality(FreeSets'[p])]
    BY <1>4, <1>18, <1>20, SeenStep
  <2>2. p \notin Used /\ Used' = Used \cup {p}
    BY <1>4, <1>9, <1>11, <1>12 DEF Used, InUse
  <2>3. \A r \in Used : FreeSets[r] \cap area = {}
    BY <1>13, SeenByUsers DEF Used, Free, SeenAsFree
  <2>4. \A x \in lent : x[2] \notin area
    BY <1>1, <1>13 DEF LentOwn, MemTypeOK
  <2> QED
    BY <1>4, <2>1, <2>2, <2>3, <2>4, SameCardinality
       DEF Pools!Create, Pools!Counted, FreeSets, Counts, Used
<1> QED
  BY <1>4, <1>20, <1>21

LEMMA AreasApart ==
  ASSUME MemInv, NEW p \in Part, NEW r \in Part, p # r
  PROVE  OSMemTbl[p].OSMemAddr \cap OSMemTbl[r].OSMemAddr = {}
<1>1. OSMemTbl[p].OSMemAddr \in Area \cup {{}} /\ OSMemTbl[r].OSMemAddr \in Area \cup {{}}
  BY DEF MemInv, MemTypeOK, Partitions
<1>2. InUse(p) => OSMemTbl[p].OSMemAddr # OSMemTbl[r].OSMemAddr
  BY DEF MemInv, Apart
<1> QED
  BY <1>1, <1>2, MemAssumption DEF InUse

(* The list of a partition after a block has gone or come. *)
LEMMA PartitionKept ==
  ASSUME NEW t \in Partitions, NEW b \in Blk \cup {NULL}, NEW n \in Nat
  PROVE  [t EXCEPT !.OSMemFreeList = b, !.OSMemNFree = n] \in Partitions
BY DEF Partitions

LEMMA GetStep ==
  ASSUME MemInv, NEW p \in Part, OSMemGet(p)
  PROVE  MemInv' /\ Pools!Get(p)
<1>1. MemTypeOK /\ CreatedOnce /\ Apart /\ LentOwn /\ FreeLinked /\ InUse(p)
  BY DEF MemInv, OSMemGet
<1>2. PICK q \in Seq(Blk) : Linked(p, q)
  BY <1>1 DEF FreeLinked
<1>3. PICK n \in Nat : n = Len(q)
  OBVIOUS
<1>4. n > 0
  BY <1>2, <1>3 DEF OSMemGet, Linked
<1>5. PICK b \in Blk : b = q[1]
  BY <1>3, <1>4
<1>6. OSMemTbl[p].OSMemFreeList = b /\ OSMemTbl[p].OSMemNFree = n
      /\ b \in Free(p)
  BY <1>2, <1>3, <1>4, <1>5 DEF Linked, First
<1>7. PICK q2 \in Seq(Blk) : /\ Len(q2) = n - 1
                             /\ \A i \in 1 .. n - 1 : q2[i] = q[i + 1]
  <2>1. /\ Tail(q) \in Seq(Blk) /\ Len(Tail(q)) = n - 1
        /\ \A i \in 1 .. n - 1 : Tail(q)[i] = q[i + 1]
    BY <1>3, <1>4
  <2> QED
    BY <2>1
<1>8. word[b] = First(q2)
  BY <1>2, <1>3, <1>4, <1>5, <1>7 DEF Linked, Links, First
<1>9. First(q2) \in Blk \cup {NULL}
  BY <1>7 DEF First
<1>10. /\ OSMemTbl' = [OSMemTbl EXCEPT ![p].OSMemFreeList = First(q2), ![p].OSMemNFree = n - 1]
       /\ lent' = lent \cup {<<p, b>>} /\ UNCHANGED <<OSMemPool, word, creating>>
  BY <1>6, <1>8 DEF OSMemGet
<1>11. /\ OSMemTbl'[p].OSMemFreeList = First(q2) /\ OSMemTbl'[p].OSMemNFree = n - 1
       /\ \A r \in Part : /\ OSMemTbl'[r].OSMemAddr = OSMemTbl[r].OSMemAddr
                          /\ r # p => OSMemTbl'[r] = OSMemTbl[r]
  BY <1>1, <1>10 DEF MemTypeOK
<1>12. MemTypeOK'
  <2>1. OSMemTbl' = [OSMemTbl EXCEPT ![p] =
                        [OSMemTbl[p] EXCEPT !.OSMemFreeList = First(q2), !.OSMemNFree = n - 1]]
    BY <1>10
  <2>2. OSMemTbl' \in [Part -> Partitions]
    <3>1. OSMemTbl[p] \in Partitions /\ n - 1 \in Nat
      BY <1>1, <1>4 DEF MemTypeOK
    <3>2. [OSMemTbl[p] EXCEPT !.OSMemFreeList = First(q2), !.OSMemNFree = n - 1] \in Partitions
      BY <1>9, <3>1, PartitionKept
    <3> QED
      BY <1>1, <2>1, <3>2 DEF MemTypeOK
  <2> QED
    BY <1>1, <1>10, <2>2 DEF MemTypeOK
<1>13. \A r \in Part : InUse(r)' <=> InUse(r)
  BY <1>11 DEF InUse
<1>14. \A r \in Part : Free(r)' = IF r = p THEN Free(p) \ {b} ELSE Free(r)
  BY <1>10, <1>11 DEF Free
<1>15. UnusedChained'
  <2>1. PICK i \in 1 .. Cardinality(Part) + 1 : UnusedFrom(i)
    BY DEF MemInv, UnusedChained
  <2>2. ASSUME NEW j \in i .. Cardinality(Part)
        PROVE  /\ ~InUse(Order[j])' /\ OSMemTbl'[Order[j]].OSMemFreeList = After(j)
               /\ \A d \in Caller : creating'[d] # Order[j]
    <3>1. Order[j] \in Part /\ ~InUse(Order[j])
      BY <2>1, OrderIs DEF UnusedFrom
    <3> QED
      BY <1>1, <1>10, <1>11, <1>13, <2>1, <3>1 DEF UnusedFrom
  <2>3. UnusedFrom(i)'
    BY <1>10, <2>1, <2>2 DEF UnusedFrom, After
  <2> QED
    BY <2>3 DEF UnusedChained
<1>16. CreatedOnce' /\ Apart'
  BY <1>1, <1>10, <1>11, <1>13 DEF CreatedOnce, Apart, MemTypeOK, InUse
<1>17. LentOwn'
  <2>1. b \in OSMemTbl[p].OSMemAddr
    BY <1>6 DEF Free
  <2> QED
    BY <1>1, <1>10, <1>11, <2>1 DEF LentOwn, MemTypeOK
<1>18. FreeLinked'
  <2>1. ASSUME NEW r \in Part, r # p, InUse(r)'
        PROVE  \E s \in Seq(Blk) : Linked(r, s)'
    BY <1>1, <1>10, <1>11, <1>13, <1>14, <2>1, LinkedKept DEF FreeLinked
  <2>2. Linked(p, q2)'
    <3>1. \A i, j \in 1 .. n - 1 : q2[i] = q2[j] => i = j
      <4>1. \A i \in 1 .. n - 1 : i + 1 \in 1 .. n
        OBVIOUS
      <4> SUFFICES ASSUME NEW i \in 1 .. n - 1, NEW j \in 1 .. n - 1, q2[i] = q2[j]
                   PROVE  i = j
        OBVIOUS
      <4>2. i + 1 = j + 1
        BY <1>2, <1>3, <1>7, <4>1 DEF Linked
      <4> QED
        BY <4>2
    <3>2. Links(word', q2)
      <4> SUFFICES ASSUME NEW i \in 1 .. n - 1
                   PROVE  word[q2[i]] = IF i + 1 \in 1 .. n - 1 THEN q2[i + 1] ELSE NULL
        BY <1>7, <1>10 DEF Links
      <4>1. i + 1 \in 1 .. n /\ (i + 1) + 1 = i + 2
        OBVIOUS
      <4>2. word[q[i + 1]] = IF i + 2 \in 1 .. n THEN q[i + 2] ELSE NULL
        BY <1>2, <1>3, <4>1 DEF Linked, Links
      <4> QED
        BY <1>7, <4>1, <4>2
    <3>3. ASSUME NEW x \in Blk
          PROVE  x \in Free(p)' <=> \E i \in 1 .. n - 1 : q2[i] = x
      <4>1. ASSUME x \in Free(p), x # b PROVE \E i \in 1 .. n - 1 : q2[i] = x
        <5>1. PICK i \in 1 .. n : q[i] = x
          BY <1>2, <1>3, <4>1 DEF Linked
        <5>2. i - 1 \in 1 .. n - 1 /\ (i - 1) + 1 = i
          BY <1>5, <4>1, <5>1
        <5> QED
          BY <1>7, <5>1, <5>2
      <4>2. ASSUME NEW i \in 1 .. n - 1, q2[i] = x PROVE x \in Free(p) /\ x # b
        <5>1. i + 1 \in 1 .. n /\ 1 \in 1 .. n /\ q[i + 1] = x
          BY <1>7, <4>2
        <5> QED
          BY <1>2, <1>3, <1>5, <5>1 DEF Linked
      <4> QED
        BY <1>14, <4>1, <4>2
    <3> QED
      BY <1>7, <1>11, <3>1, <3>2, <3>3 DEF Linked, First
  <2> QED
    BY <2>1, <2>2 DEF FreeLinked
<1>19. MemInv'
  BY <1>12, <1>15, <1>16, <1>17, <1>18 DEF MemInv
<1>20. Pools!Get(p)
  <2>1. PICK F : F = Free(p) \ {b}
    OBVIOUS
  <2>2. /\ FreeSets' = [FreeSets EXCEPT ![p] = F] /\ FreeSets[p] = Free(p)
        /\ Counts' = [Counts EXCEPT ![p] = Cardinality(FreeSets'[p])]
    BY <1>14, <1>19, <2>1, SeenStep
  <2>3. FreeSets' = [FreeSets EXCEPT ![p] = @ \ {b}]
    BY <2>1, <2>2
  <2>4. p \in Used /\ Used' = Used
    BY <1>1, <1>13 DEF Used
  <2> QED
    BY <1>6, <1>10, <2>2, <2>3, <2>4, SameCardinality
       DEF Pools!Get, Pools!Counted, FreeSets, Counts, Used
<1> QED
  BY <1>19, <1>20

LEMMA PutStep ==
  ASSUME MemInv, NEW p, NEW b, <<p, b>> \in lent, OSMemPut(p, b)
  PROVE  MemInv' /\ p \in Part /\ Pools!Put(p)
<1>1. MemTypeOK /\ CreatedOnce /\ Apart /\ LentOwn /\ FreeLinked /\ p \in Part /\ b \in Blk
  BY DEF MemInv, MemTypeOK
<1>2. b \in OSMemTbl[p].OSMemAddr /\ InUse(p) /\ b \notin Free(p)
  BY <1>1 DEF LentOwn, InUse, Free
<1>3. PICK q \in Seq(Blk) : Linked(p, q)
  BY <1>1, <1>2 DEF FreeLinked
<1>4. PICK n \in Nat : n = Len(q)
  OBVIOUS
<1>5. PICK q2 \in Seq(Blk) : /\ Len(q2) = n + 1 /\ q2[1] = b
                             /\ \A i \in 1 .. n : q2[i + 1] = q[i]
  <2>1. /\ <<b>> \o q \in Seq(Blk) /\ Len(<<b>> \o q) = n + 1 /\ (<<b>> \o q)[1] = b
        /\ \A i \in 1 .. n : (<<b>> \o q)[i + 1] = q[i]
    BY <1>1, <1>4
  <2> QED
    BY <2>1
<1>6. OSMemTbl[p].OSMemFreeList = First(q) /\ OSMemTbl[p].OSMemNFree = n
  BY <1>3, <1>4 DEF Linked
<1>7. /\ word' = [word EXCEPT ![b] = First(q)]
      /\ OSMemTbl' = [OSMemTbl EXCEPT ![p].OSMemFreeList = b, ![p].OSMemNFree = n + 1]
      /\ lent' = lent \ {<<p, b>>} /\ UNCHANGED <<OSMemPool, creating>>
  BY <1>6 DEF OSMemPut
<1>8. /\ OSMemTbl'[p].OSMemFreeList = b /\ OSMemTbl'[p].OSMemNFree = n + 1
      /\ \A r \in Part : /\ OSMemTbl'[r].OSMemAddr = OSMemTbl[r].OSMemAddr
                         /\ r # p => OSMemTbl'[r] = OSMemTbl[r]
  BY <1>1, <1>7 DEF MemTypeOK
<1>9. MemTypeOK'
  <2>1. OSMemTbl' = [OSMemTbl EXCEPT ![p] =
                        [OSMemTbl[p] EXCEPT !.OSMemFreeList = b, !.OSMemNFree = n + 1]]
    BY <1>7
  <2>2. OSMemTbl' \in [Part -> Partitions]
    <3>1. OSMemTbl[p] \in Partitions /\ n + 1 \in Nat /\ b \in Blk \cup {NULL}
      BY <1>1 DEF MemTypeOK
    <3>2. [OSMemTbl[p] EXCEPT !.OSMemFreeList = b, !.OSMemNFree = n + 1] \in Partitions
      BY <3>1, PartitionKept
    <3> QED
      BY <1>1, <2>1, <3>2 DEF MemTypeOK
  <2> QED
    BY <1>1, <1>7, <2>2 DEF MemTypeOK
<1>10. \A r \in Part : InUse(r)' <=> InUse(r)
  BY <1>8 DEF InUse
<1>11. \A r \in Part : Free(r)' = IF r = p THEN Free(p) \cup {b} ELSE Free(r)
  BY <1>2, <1>7, <1>8 DEF Free
<1>12. UnusedChained'
  <2>1. PICK i \in 1 .. Cardinality(Part) + 1 : UnusedFrom(i)
    BY DEF MemInv, UnusedChained
  <2>2. ASSUME NEW j \in i .. Cardinality(Part)
        PROVE  /\ ~InUse(Order[j])' /\ OSMemTbl'[Order[j]].OSMemFreeList = After(j)
               /\ \A d \in Caller : creating'[d] # Order[j]
    <3>1. Order[j] \in Part /\ ~InUse(Order[j])
      BY <2>1, OrderIs DEF UnusedFrom
    <3> QED
      BY <1>2, <1>7, <1>8, <1>10, <2>1, <3>1 DEF UnusedFrom
  <2>3. UnusedFrom(i)'
    BY <1>7, <2>1, <2>2 DEF UnusedFrom, After
  <2> QED
    BY <2>3 DEF UnusedChained
<1>13. CreatedOnce' /\ Apart'
  BY <1>1, <1>7, <1>8, <1>10 DEF CreatedOnce, Apart, MemTypeOK, InUse
<1>14. LentOwn'
  BY <1>1, <1>7, <1>8 DEF LentOwn, MemTypeOK
<1>15. FreeLinked'
  <2>1. ASSUME NEW r \in Part, r # p, InUse(r)'
        PROVE  \E s \in Seq(Blk) : Linked(r, s)'
    <3>1. PICK s \in Seq(Blk) : Linked(r, s)
      BY <1>1, <1>10, <2>1 DEF FreeLinked
    <3>2. b \notin OSMemTbl[r].OSMemAddr
      BY <1>1, <1>2, <2>1, AreasApart
    <3>3. \A x \in Free(r) : word'[x] = word[x]
      BY <1>1, <1>7, <3>2 DEF Free
    <3> QED
      BY <1>8, <1>11, <2>1, <3>1, <3>3, LinkedKept
  <2>2. Linked(p, q2)'
    <3>1. \A i \in 1 .. n : q[i] \in Blk /\ q[i] \in Free(p) /\ q[i] # b
      BY <1>2, <1>3, <1>4 DEF Linked
    <3>2. \A i \in 1 .. n + 1 : i = 1 \/ (i - 1 \in 1 .. n /\ q2[i] = q[i - 1])
      <4> SUFFICES ASSUME NEW i \in 1 .. n + 1, i # 1
                   PROVE  i - 1 \in 1 .. n /\ q2[i] = q[i - 1]
        OBVIOUS
      <4>1. i - 1 \in 1 .. n /\ (i - 1) + 1 = i
        OBVIOUS
      <4> QED
        BY <1>5, <4>1
    <3>3. \A i, j \in 1 .. n + 1 : q2[i] = q2[j] => i = j
      <4> SUFFICES ASSUME NEW i \in 1 .. n + 1, NEW j \in 1 .. n + 1, q2[i] = q2[j]
                   PROVE  i = j
        OBVIOUS
      <4>1. CASE i = 1 \/ j = 1
        BY <1>5, <3>1, <3>2, <4>1
      <4>2. CASE i # 1 /\ j # 1
        <5>1. i - 1 \in 1 .. n /\ j - 1 \in 1 .. n /\ q[i - 1] = q[j - 1]
          BY <3>2, <4>2
        <5>2. i - 1 = j - 1
          BY <1>3, <1>4, <5>1 DEF Linked
        <5> QED
          BY <5>2
      <4> QED
        BY <4>1, <4>2
    <3>4. Links(word', q2)
      <4> SUFFICES ASSUME NEW i \in 1 .. n + 1
                   PROVE  word'[q2[i]] = IF i + 1 \in 1 .. n + 1 THEN q2[i + 1] ELSE NULL
        BY <1>5 DEF Links
      <4>1. CASE i = 1
        <5>1. word'[b] = First(q)
          BY <1>1, <1>7 DEF MemTypeOK
        <5> QED
          BY <1>4, <1>5, <4>1, <5>1 DEF First
      <4>2. CASE i # 1
        <5>1. i - 1 \in 1 .. n /\ q2[i] = q[i - 1]
          BY <3>2, <4>2
        <5>2. word'[q[i - 1]] = word[q[i - 1]]
          BY <1>1, <1>7, <3>1, <5>1 DEF MemTypeOK
        <5>3. word[q[i - 1]] = IF i \in 1 .. n THEN q[i] ELSE NULL
          BY <1>3, <1>4, <5>1 DEF Linked, Links
        <5> QED
          BY <1>5, <5>1, <5>2, <5>3
      <4> QED
        BY <4>1, <4>2
    <3>5. ASSUME NEW x \in Blk
          PROVE  x \in Free(p)' <=> \E i \in 1 .. n + 1 : q2[i] = x
      <4>1. ASSUME x \in Free(p) PROVE \E i \in 1 .. n + 1 : q2[i] = x
        <5>1. PICK i \in 1 .. n : q[i] = x
          BY <1>3, <1>4, <4>1 DEF Linked
        <5>2. i + 1 \in 1 .. n + 1
          OBVIOUS
        <5> QED
          BY <1>5, <5>1, <5>2
      <4>2. ASSUME NEW i \in 1 .. n + 1, q2[i] = x PROVE x \in Free(p) \cup {b}
        BY <1>5, <3>1, <3>2, <4>2
      <4>3. 1 \in 1 .. n + 1
        OBVIOUS
      <4> QED
        BY <1>5, <1>11, <1>1, <4>1, <4>2, <4>3
    <3> QED
      BY <1>5, <1>8, <3>3, <3>4, <3>5 DEF Linked, First
  <2> QED
    BY <2>1, <2>2 DEF FreeLinked
<1>16. MemInv'
  BY <1>9, <1>12, <1>13, <1>14, <1>15 DEF MemInv
<1>17. Pools!Put(p)
  <2>1. PICK F : F = Free(p) \cup {b}
    OBVIOUS
  <2>2. /\ FreeSets' = [FreeSets EXCEPT ![p] = F] /\ FreeSets[p] = Free(p)
        /\ Counts' = [Counts EXCEPT ![p] = Cardinality(FreeSets'[p])]
    BY <1>1, <1>11, <1>16, <2>1, SeenStep
  <2>3. FreeSets' = [FreeSets EXCEPT ![p] = @ \cup {b}]
    BY <2>1, <2>2
  <2>4. Used' = Used
    BY <1>10 DEF Used
  <2>5. b \in {x[2] : x \in {y \in lent : y[1] = p}}
    BY <1>1
  <2> QED
    BY <1>7, <2>2, <2>3, <2>4, <2>5, SameCardinality
       DEF Pools!Put, Pools!Counted, FreeSets, Counts, Used
<1> QED
  BY <1>1, <1>16, <1>17

(* What is written to a block that is lent reaches no link. *)
LEMMA WriteStep ==
  ASSUME MemInv, NEW p, NEW b, <<p, b>> \in lent, WriteTo(b)
  PROVE  MemInv' /\ UNCHANGED <<FreeSets, Counts, Used, lent>>
<1>1. MemTypeOK /\ UnusedChained /\ CreatedOnce /\ Apart /\ LentOwn /\ FreeLinked /\ p \in Part
      /\ b \in Blk
  BY DEF MemInv, MemTypeOK
<1>2. word' = [word EXCEPT ![b] = DATA] /\ UNCHANGED <<OSMemTbl, OSMemPool, creating, lent>>
  BY DEF WriteTo
<1>3. \A r \in Part : (InUse(r)' <=> InUse(r)) /\ Free(r)' = Free(r)
  BY <1>2 DEF InUse, Free
<1>4. MemTypeOK' /\ UnusedChained' /\ CreatedOnce' /\ Apart' /\ LentOwn'
  BY <1>1, <1>2 DEF MemTypeOK, UnusedChained, UnusedFrom, After, CreatedOnce, Apart, LentOwn,
                    InUse
<1>5. FreeLinked'
  <2> SUFFICES ASSUME NEW r \in Part, InUse(r) PROVE \E q \in Seq(Blk) : Linked(r, q)'
    BY <1>3 DEF FreeLinked
  <2>1. PICK q \in Seq(Blk) : Linked(r, q)
    BY <1>1 DEF FreeLinked
  <2>2. b \notin Free(r)
    <3>1. CASE r = p
      BY <3>1 DEF Free
    <3>2. CASE r # p
      <4>1. b \in OSMemTbl[p].OSMemAddr
        BY <1>1 DEF LentOwn
      <4> QED
        BY <1>1, <3>2, <4>1, AreasApart DEF Free
    <3> QED
      BY <3>1, <3>2
  <2>3. \A x \in Free(r) : word'[x] = word[x]
    BY <1>1, <1>2, <2>2 DEF MemTypeOK
  <2> QED
    BY <1>2, <1>3, <2>1, <2>3, LinkedKept
<1>6. MemInv'
  BY <1>4, <1>5 DEF MemInv
<1>7. UNCHANGED <<FreeSets, Counts>>
  BY <1>3, <1>6, SeenSame
<1> QED
  BY <1>2, <1>3, <1>6, <1>7 DEF Used

LEMMA StepHolds ==
  ASSUME MemInv, [MemNext]_memVars
  PROVE  MemInv' /\ [Pools!Next]_<<FreeSets, Counts, Used, lent>>
<1>1. ASSUME NEW c \in Caller, OSMemCreate(c) \/ OSMemCreate_Blocks(c)
      PROVE  MemInv' /\ [Pools!Next]_<<FreeSets, Counts, Used, lent>>
  BY <1>1, CreateStep, BlocksStep DEF Pools!Next
<1>2. ASSUME NEW p \in Part, OSMemGet(p)
      PROVE  MemInv' /\ Pools!Next
  BY <1>2, GetStep DEF Pools!Next
<1>3. ASSUME NEW x \in lent, OSMemPut(x[1], x[2]) \/ WriteTo(x[2])
      PROVE  MemInv' /\ [Pools!Next]_<<FreeSets, Counts, Used, lent>>
  <2>1. x = <<x[1], x[2]>>
    BY DEF MemInv, MemTypeOK
  <2>2. CASE OSMemPut(x[1], x[2])
    BY <2>1, <2>2, PutStep DEF Pools!Next
  <2>3. CASE WriteTo(x[2])
    BY <2>1, <2>3, WriteStep
  <2> QED
    BY <1>3, <2>2, <2>3
<1>4. CASE UNCHANGED memVars
  <2>1. MemInv'
    BY <1>4 DEF memVars, MemInv, MemTypeOK, UnusedChained, UnusedFrom, After, CreatedOnce, Apart,
                LentOwn, FreeLinked, Linked, Links, First, Free, InUse
  <2> QED
    BY <1>4, <2>1 DEF memVars, FreeSets, Counts, Used, FreeBlocks, InUse
<1> QED
  BY <1>1, <1>2, <1>3, <1>4 DEF MemNext

(* Whatever users write to the blocks they have, and however creations     *)
(* interleave, OSMemGet lends a free block and OSMemPut gives it back.     *)
THEOREM Refinement == MemSpec => ImplementsPools
<1>1. MemInit => MemInv /\ Pools!Init
  BY InitHolds
<1>2. MemInv /\ [MemNext]_memVars => MemInv' /\ [Pools!Next]_Pools!poolVars
  BY StepHolds DEF Pools!poolVars, FreeSets, Counts, Used
<1> QED
  BY <1>1, <1>2, PTL DEF MemSpec, ImplementsPools, Pools!Spec
=============================================================================
