----------------------------- MODULE MemoryOps ------------------------------
(***************************************************************************)
(* Words, accesses and their effects, shared by every level of the memory  *)
(* system: the caches, the memory controller and the environment that      *)
(* holds the memory (Environment::ReadMemory and WriteMemory).             *)
(***************************************************************************)
EXTENDS Naturals

CONSTANTS
    Addr,               \* word addresses
    LANES, BYTE,        \* bytes of a word, values of a byte
    IN_ADDR, OUT_ADDR,  \* the input and output ports of the environment
    Requests,           \* what the clients ask for
    InitMem

Lanes  == 0 .. LANES - 1
Byte   == 0 .. BYTE - 1
Word   == [Lanes -> Byte]
Access == [rw : {"r", "w", "none"}, addr : Addr, w_data : Word,
           mask : SUBSET Lanes]

ZeroWord == [l \in Lanes |-> 0]
NoRequest ==
    [rw |-> "none", addr |-> IN_ADDR, w_data |-> ZeroWord, mask |-> {}]

(* The k-th character of the input, in the low byte of a word. *)
Char(k) == [l \in Lanes |-> IF l = 0 THEN k ELSE 0]
Next1(k) == (k + 1) % BYTE

(* Only the bytes the mask selects are written. *)
Masked(old, new, mask) == [l \in Lanes |-> IF l \in mask THEN new[l] ELSE old[l]]

(* Memory and output port after the write request r. *)
Written(m, r) ==
    IF r.rw # "w" \/ r.addr \in {IN_ADDR, OUT_ADDR} THEN m
    ELSE [m EXCEPT ![r.addr] = Masked(@, r.w_data, r.mask)]
Shown(o, r) ==
    IF r.rw # "w" \/ r.addr # OUT_ADDR \/ 0 \notin r.mask THEN o
    ELSE [count |-> Next1(o.count), last |-> r.w_data[0]]

(* What a client sees of its port.  While the port is busy, and at the     *)
(* edge that answers, req is the request: an answer belongs to one.        *)
Idle    == [busy |-> FALSE, done |-> FALSE, req |-> NoRequest, data |-> ZeroWord]
Busy(r) == [busy |-> TRUE, done |-> FALSE, req |-> r, data |-> ZeroWord]
Done(r, d) == [busy |-> FALSE, done |-> TRUE, req |-> r, data |-> d]

(* What a read returns. *)
Value(m, k, a) == IF a = IN_ADDR THEN Char(k) ELSE m[a]

(* Characters consumed after the request r. *)
Consumed(k, r) == IF r.rw = "r" /\ r.addr = IN_ADDR THEN Next1(k) ELSE k
=============================================================================
