------------------------------- MODULE MCLink -------------------------------
(* A small instance of the link, and beside it the environment of the PC,  *)
(* asked for any address: a behaviour is of one or of the other.           *)
EXTENDS Link, Environment

(* Octets of a memory that does not end with a whole word. *)
MCAddr == {0, 2, 4, 6, 8}
MCInitMem == [a \in MCAddr |-> ZeroWord]

(* Nothing, one octet less than behind which there is room, and too much. *)
MCImages == {[k \in 1 .. n |-> k % BYTE] : n \in {0, 9, 11}}

(* Every kind of word, an address that is none, and the end of memory. *)
MCCalls ==
    LET At == {0, IN_ADDR, OUT_ADDR, FINISH_ADDR, 8, 9, 10, 12}
    IN  [rw : {"r"}, addr : At, w_data : {ZeroWord}, mask : {{}}]
        \cup [rw : {"w"}, addr : At, w_data : {[l \in Lanes |-> v] : v \in Byte},
              mask : SUBSET Lanes]

VARIABLE subject

(* The other part stays as it is initialised. *)
MCInit ==
    /\ subject \in {"link", "environment"} /\ Init /\ EnvironmentInit
    /\ subject = "link" => image = <<>> /\ ioIn = [left |-> 0, good |-> TRUE]

LinkStep == subject = "link" /\ UNCHANGED <<environmentVars, subject>>

MCNext ==
    \/ Next /\ LinkStep
    \/ subject = "environment" /\ EnvironmentNext /\ UNCHANGED <<vars, subject>>

MCVars == <<vars, environmentVars, subject>>

(* Liveness is asked of the link alone. *)
MCSpec ==
    /\ MCInit /\ [][MCNext]_MCVars
    /\ WF_MCVars(Send /\ LinkStep) /\ WF_MCVars(onRecv /\ LinkStep)
    /\ WF_MCVars(Receive /\ LinkStep) /\ WF_MCVars(Take /\ LinkStep)
=============================================================================
