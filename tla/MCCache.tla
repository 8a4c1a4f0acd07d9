------------------------------ MODULE MCCache -------------------------------
(* Small instances of Cache.  The words of a block differ from each other  *)
(* and from the same words of the other blocks.                            *)
EXTENDS Cache

A(t, s, k) == [tag |-> t, index |-> s, ws |-> k]

MCInitMem ==
    [a \in WordAddr |-> [l \in 0 .. LANES - 1 |->
        IF l = 0 THEN (a.tag + a.ws) % BYTE ELSE ((a.tag + a.index + a.ws) \div BYTE) % BYTE]]

Load(a) ==
    [rw |-> "r", addr |-> a, w_data |-> [l \in 0 .. LANES - 1 |-> 0], mask |-> {}]

(* A store of the low byte; the lanes it does not select hold another one. *)
StoreByte(a, v) ==
    [rw |-> "w", addr |-> a,
     w_data |-> [l \in 0 .. LANES - 1 |-> IF l = 0 THEN v ELSE (v + 1) % BYTE],
     mask |-> {0}]

(* The block of the uncached address, and of the output port, is the last  *)
(* block of the last tag.                                                  *)
MC_IN  == A(TAGS - 1, SETS - 1, 0)
MC_OUT == A(TAGS - 1, SETS - 1, 1)

(* Every word of one block, some of two others that compete with it for    *)
(* the ways, one of the other set; a store that changes a cached byte, and *)
(* both ports.                                                             *)
MixedRequests ==
    {Load(A(0, 0, k)) : k \in Ws}
      \cup {Load(A(1, 0, 0)), Load(A(1, 0, 2)), Load(A(2, 0, 3)), Load(A(0, 1, 1))}
      \cup {StoreByte(A(0, 0, 1), 0), StoreByte(MC_OUT, 1), Load(MC_IN)}

(* Loads of one word of each block. *)
OneWordReads == {Load(A(t, 0, 1)) : t \in 0 .. TAGS - 2}

(* Loads of one block and the uncached address. *)
DeviceRequests == {Load(A(0, 0, k)) : k \in Ws} \cup {Load(MC_IN)}

(* Loads of the uncached address and of its neighbour. *)
NeighbourRequests == {Load(MC_IN), Load(MC_OUT)}
=============================================================================
