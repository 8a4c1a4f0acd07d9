---------------------------- MODULE SharedMemory ----------------------------
(* A memory with several ports of the kind of MemoryPort.  Every access    *)
(* takes effect at the clock edge that answers it, and at most one access  *)
(* is answered at an edge: the accesses of all clients are in one order.   *)
EXTENDS MemoryOps

CONSTANT PORT_COUNT

VARIABLES ports, mem, inputs, outputs

sharedVars == <<ports, mem, inputs, outputs>>

Ports == 0 .. PORT_COUNT - 1

Init ==
    /\ ports = [i \in Ports |-> Idle]
    /\ mem = InitMem
    /\ inputs = 0
    /\ outputs = [count |-> 0, last |-> 0]

(* What port i has been asked, when its client presents r. *)
Asked(i, r) == IF ports[i].busy THEN ports[i].req ELSE r

Waiting(r) == IF r.rw = "none" THEN Idle ELSE Busy(r)

(* A clock edge at which client i presents rs[i] and nobody is answered. *)
Quiet(rs) ==
    /\ ports' = [i \in Ports |-> Waiting(Asked(i, rs[i]))]
    /\ UNCHANGED <<mem, inputs, outputs>>

(* A clock edge at which client c is answered.  The data that comes with   *)
(* the answer to a write is not specified.                                 *)
Serve(rs, c) ==
    LET r == Asked(c, rs[c])
    IN  /\ r.rw # "none"
        /\ \E d \in IF r.rw = "r" THEN {Value(mem, inputs, r.addr)} ELSE Word :
              ports' = [i \in Ports |->
                           IF i = c THEN Done(r, d) ELSE Waiting(Asked(i, rs[i]))]
        /\ mem' = Written(mem, r)
        /\ inputs' = Consumed(inputs, r)
        /\ outputs' = Shown(outputs, r)

Next ==
    \E rs \in [Ports -> Requests \cup {NoRequest}] :
        Quiet(rs) \/ \E c \in Ports : Serve(rs, c)

Spec == Init /\ [][Next]_sharedVars
=============================================================================
