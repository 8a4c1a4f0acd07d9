---------------------------- MODULE BoundedQueue ----------------------------
(***************************************************************************)
(* What the UART driver and the packet multiplexer rely on when they       *)
(* instantiate module fifo: a first-in first-out queue of at most SIZE     *)
(* items, sampled once per clock.  A write to a full queue is lost, even   *)
(* when the same clock edge takes an item out of it.                       *)
(***************************************************************************)
EXTENDS Naturals, Sequences

CONSTANTS
    SIZE,       \* capacity, 1 << SIZE_BIT in the code
    Data,       \* values an entry can hold
    Zero        \* the value every register has after RST

VARIABLES
    q,          \* the items held, oldest first
    taken       \* history: the item the last successful read returned

Init == q = << >> /\ taken = Zero

Accepts == Len(q) < SIZE

Take == q # << >> /\ q' = Tail(q) /\ taken' = Head(q)

Put(d) == Accepts /\ q' = Append(q, d) /\ UNCHANGED taken

TakeAndPut(d) ==
    /\ q # << >> /\ Accepts
    /\ q' = Append(Tail(q), d) /\ taken' = Head(q)

Reset == q' = << >> /\ taken' = Zero

Next == Take \/ Reset \/ \E d \in Data : Put(d) \/ TakeAndPut(d)

Spec == Init /\ [][Next]_<<q, taken>>
=============================================================================
