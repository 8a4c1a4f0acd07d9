----------------------------- MODULE BlockPools -----------------------------
(***************************************************************************)
(* What memory partitions promise: a partition is a set of blocks; a block *)
(* that is got was free and is its user's alone until it is put back.      *)
(***************************************************************************)
EXTENDS FiniteSets

CONSTANTS Part, Region      \* the sets of blocks partitions are made of

VARIABLES
    free,       \* the free blocks of each partition
    count,      \* how many there are
    used,       \* the partitions that exist
    lent        \* the blocks users have, with the partition each is from

poolVars == <<free, count, used, lent>>

Counted(p) == count' = [count EXCEPT ![p] = Cardinality(free'[p])]

Create(p) ==
    /\ p \notin used
    /\ \E r \in Region :
          /\ \A q \in used : free[q] \cap r = {}
          /\ \A x \in lent : x[2] \notin r
          /\ free' = [free EXCEPT ![p] = r]
    /\ Counted(p)
    /\ used' = used \cup {p}
    /\ UNCHANGED lent

Get(p) ==
    /\ p \in used
    /\ \E b \in free[p] :
          /\ free' = [free EXCEPT ![p] = @ \ {b}]
          /\ lent' = lent \cup {<<p, b>>}
    /\ Counted(p)
    /\ UNCHANGED used

Put(p) ==
    /\ \E b \in {x[2] : x \in {y \in lent : y[1] = p}} :
          /\ free' = [free EXCEPT ![p] = @ \cup {b}]
          /\ lent' = lent \ {<<p, b>>}
    /\ Counted(p)
    /\ UNCHANGED used

Init ==
    /\ free = [p \in Part |-> {}] /\ count = [p \in Part |-> 0]
    /\ used = {} /\ lent = {}
Next == \E p \in Part : Create(p) \/ Get(p) \/ Put(p)
Spec == Init /\ [][Next]_poolVars
=============================================================================
