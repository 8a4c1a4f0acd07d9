----------------------------- MODULE MemoryPort -----------------------------
(***************************************************************************)
(* What the client of a memory sees, one clock edge at a time: a request   *)
(* presented while the port is not busy is answered at that edge or makes  *)
(* the port busy until some later edge answers it.  The access takes       *)
(* effect, once, at the edge that raises done.  This is the interface of   *)
(* the caches towards the pipeline (Cache.v) and of the memory controller  *)
(* towards the caches (Mem_controller_tmp.v); a level of the memory system *)
(* is correct if it implements it above an instance of itself.             *)
(***************************************************************************)
EXTENDS MemoryOps

VARIABLES
    port,       \* [busy, done, req, data]
    mem,
    inputs,     \* characters consumed from the input, modulo BYTE
    outputs     \* characters written to the output: how many, and the last

portVars == <<port, mem, inputs, outputs>>

Init ==
    /\ port = Idle
    /\ mem = InitMem
    /\ inputs = 0
    /\ outputs = [count |-> 0, last |-> 0]

(* The access takes effect and is answered. *)
Complete(r) ==
    /\ port' = Done(r, IF r.rw = "r" THEN Value(mem, inputs, r.addr) ELSE ZeroWord)
    /\ mem' = Written(mem, r)
    /\ inputs' = Consumed(inputs, r)
    /\ outputs' = Shown(outputs, r)

Wait(r) ==
    /\ port' = Busy(r)
    /\ UNCHANGED <<mem, inputs, outputs>>

(* A clock edge at which the client presents r, or NoRequest. *)
Edge(r) ==
    \/ /\ port.busy
       /\ Wait(port.req) \/ Complete(port.req)
    \/ /\ ~port.busy /\ r.rw # "none"
       /\ Wait(r) \/ Complete(r)
    \/ /\ ~port.busy /\ r.rw = "none"
       /\ port' = Idle
       /\ UNCHANGED <<mem, inputs, outputs>>

Next == \E r \in Requests \cup {NoRequest} : Edge(r)

Spec == Init /\ [][Next]_portVars
=============================================================================
