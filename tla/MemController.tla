--------------------------- MODULE MemController ----------------------------
(***************************************************************************)
(* Module memory_controller (Source/tmpSource/Mem_controller_tmp.v): the   *)
(* two caches share one packet channel to the memory on the PC.  Port 0 is *)
(* the data cache, port 1 the instruction cache, and the lower port goes   *)
(* first.                                                                  *)
(*                                                                         *)
(* The channel is a pair of first-in-first-out queues: requestq holds the  *)
(* packets from the send buffer of multchan_comm to the adapter, responseq *)
(* the packets back.  A response names no request; the req field kept with *)
(* it is history.  Adapter is Adapter::data_handler on the PC, which takes *)
(* one packet at a time.                                                   *)
(***************************************************************************)
EXTENDS MemoryOps, Sequences

CONSTANTS PORT_COUNT,
          QUEUE         \* packets the channel holds before it is not writable

ASSUME ControllerAssumption ==
    /\ PORT_COUNT \in Nat \ {0} /\ QUEUE \in Nat \ {0}
    /\ LANES \in Nat \ {0} /\ BYTE \in Nat \ {0}
    /\ IN_ADDR \in Addr /\ OUT_ADDR \in Addr
    /\ Requests \subseteq {r \in Access : r.rw # "none"}
    /\ InitMem \in [Addr -> Word]

Ports   == 0 .. PORT_COUNT - 1
NO_PORT == PORT_COUNT

VARIABLES
    busy, done, read_data,      \* the outputs to each client
    pending,                    \* pending_flag, _addr, _write_data, _write_mask
    state, serv_port,
    requestq, responseq,        \* the channel
    mem, inputs, outputs,       \* the environment on the PC
    answered                    \* history: what the client done is raised for asked

clientVars  == <<busy, done, read_data, pending>>
channelVars == <<requestq, responseq>>
envVars     == <<mem, inputs, outputs>>
vars == <<clientVars, state, serv_port, channelVars, envVars, answered>>

Init ==
    /\ busy = [i \in Ports |-> FALSE] /\ done = [i \in Ports |-> FALSE]
    /\ read_data = [i \in Ports |-> ZeroWord]
    /\ pending = [i \in Ports |-> NoRequest]
    /\ state = "IDLE" /\ serv_port = NO_PORT
    /\ requestq = <<>> /\ responseq = <<>>
    /\ answered = NoRequest
    /\ mem = InitMem /\ inputs = 0 /\ outputs = [count |-> 0, last |-> 0]

sendable   == Len(requestq) < QUEUE
receivable == responseq # <<>>

(* The request of port i at an edge at which its client presents r. *)
Asked(i, r) == IF pending[i].rw # "none" THEN pending[i] ELSE r

wait_port_last(rs) ==                                            \* mutant
    LET asking == {i \in Ports : Asked(i, rs[i]).rw # "none"}
    IN  IF asking = {} THEN NO_PORT
        ELSE CHOOSE i \in asking : \A j \in asking : i >= j

(* The lowest port with a request, NO_PORT if there is none. *)
wait_port(rs) ==
    LET asking == {i \in Ports : Asked(i, rs[i]).rw # "none"}
    IN  IF asking = {} THEN NO_PORT
        ELSE CHOOSE i \in asking : \A j \in asking : i <= j

(* set_pending on the ports in S, which the controller does not serve now. *)
set_pending(rs, S) ==
    [i \in Ports |-> IF i \in S /\ rs[i].rw # "none" /\ ~busy[i] THEN rs[i]
                     ELSE pending[i]]
set_busy(rs, S) ==
    [i \in Ports |-> busy[i] \/ (i \in S /\ rs[i].rw # "none")]

NoneDone == [i \in Ports |-> FALSE]

-----------------------------------------------------------------------------

(* STATE_IDLE with nothing to send, or no room to send it in. *)
Hold(rs) ==
    /\ state = "IDLE"
    /\ wait_port(rs) = NO_PORT \/ ~sendable
    /\ pending' = set_pending(rs, Ports) /\ busy' = set_busy(rs, Ports)
    /\ done' = NoneDone
    /\ UNCHANGED <<read_data, state, serv_port, channelVars, envVars>>

SendWriteTwice(rs) ==                                            \* mutant
    LET w == wait_port(rs)
    IN  /\ state = "IDLE" /\ w # NO_PORT /\ sendable
        /\ Asked(w, rs[w]).rw = "w"
        /\ requestq' = Append(requestq, Asked(w, rs[w]))
        /\ pending' = set_pending(rs, Ports \ {w})
        /\ busy' = [set_busy(rs, Ports \ {w}) EXCEPT ![w] = FALSE]
        /\ done' = [NoneDone EXCEPT ![w] = TRUE]
        /\ UNCHANGED <<read_data, state, serv_port, responseq, envVars>>

(* A write is done as soon as its packet is queued. *)
SendWrite(rs) ==
    LET w == wait_port(rs)
    IN  /\ state = "IDLE" /\ w # NO_PORT /\ sendable
        /\ Asked(w, rs[w]).rw = "w"
        /\ requestq' = Append(requestq, Asked(w, rs[w]))
        /\ pending' = [set_pending(rs, Ports \ {w}) EXCEPT ![w] = NoRequest]
        /\ busy' = [set_busy(rs, Ports \ {w}) EXCEPT ![w] = FALSE]
        /\ done' = [NoneDone EXCEPT ![w] = TRUE]
        /\ UNCHANGED <<read_data, state, serv_port, responseq, envVars>>

SendReadPipelined(rs) ==                                         \* mutant
    LET w == wait_port(rs)
    IN  /\ state = "IDLE" /\ w # NO_PORT /\ sendable
        /\ Asked(w, rs[w]).rw = "r"
        /\ requestq' = Append(requestq, Asked(w, rs[w]))
        /\ pending' = set_pending(rs, Ports \ {w})
        /\ busy' = [set_busy(rs, Ports \ {w}) EXCEPT ![w] = TRUE]
        /\ done' = NoneDone
        /\ serv_port' = w
        /\ state' = IF requestq = <<>> THEN "WAIT" ELSE "IDLE"
        /\ UNCHANGED <<read_data, responseq, envVars>>

SendRead(rs) ==
    LET w == wait_port(rs)
    IN  /\ state = "IDLE" /\ w # NO_PORT /\ sendable
        /\ Asked(w, rs[w]).rw = "r"
        /\ requestq' = Append(requestq, Asked(w, rs[w]))
        /\ pending' = set_pending(rs, Ports \ {w})
        /\ busy' = [set_busy(rs, Ports \ {w}) EXCEPT ![w] = TRUE]
        /\ done' = NoneDone
        /\ serv_port' = w /\ state' = "WAIT"
        /\ UNCHANGED <<read_data, responseq, envVars>>

(* STATE_WAIT_FOR_RECV *)
AwaitResponse(rs) ==
    /\ state = "WAIT" /\ ~receivable
    /\ pending' = set_pending(rs, Ports) /\ busy' = set_busy(rs, Ports)
    /\ done' = NoneDone
    /\ UNCHANGED <<read_data, state, serv_port, channelVars, envVars>>

Receive(rs) ==
    /\ state = "WAIT" /\ receivable
    /\ responseq' = Tail(responseq)
    /\ read_data' = [read_data EXCEPT ![serv_port] = Head(responseq).data]
    /\ pending' = [set_pending(rs, Ports) EXCEPT ![serv_port] = NoRequest]
    /\ busy' = [set_busy(rs, Ports) EXCEPT ![serv_port] = FALSE]
    /\ done' = [NoneDone EXCEPT ![serv_port] = TRUE]
    /\ serv_port' = NO_PORT /\ state' = "IDLE"
    /\ UNCHANGED <<requestq, envVars>>

(* The read under way. *)
UnderWay == IF responseq # <<>> THEN Head(responseq).req ELSE requestq[Len(requestq)]

(* A clock edge.  A cache presents a request only while its port is not    *)
(* busy.                                                                   *)
Clock ==
    \E rs \in [Ports -> Requests \cup {NoRequest}] :
        /\ \A i \in Ports : rs[i].rw # "none" => ~busy[i]
        /\ \/ Hold(rs) \/ SendWrite(rs) \/ SendRead(rs)
           \/ AwaitResponse(rs) \/ Receive(rs)
        /\ answered' = IF \E i \in Ports : done'[i]
                        THEN IF state = "WAIT" THEN UnderWay
                             ELSE LET w == wait_port(rs)
                                  IN  IF busy[w] THEN pending[w] ELSE rs[w]
                        ELSE NoRequest

(* The PC takes the next packet and, if it is a read, sends the answer. *)
Adapter ==
    /\ requestq # <<>>
    /\ LET r == Head(requestq)
       IN  /\ mem' = Written(mem, r)
           /\ inputs' = Consumed(inputs, r)
           /\ outputs' = Shown(outputs, r)
           /\ responseq' =
                IF r.rw = "r"
                THEN Append(responseq, [data |-> Value(mem, inputs, r.addr), req |-> r])
                ELSE responseq
    /\ requestq' = Tail(requestq)
    /\ UNCHANGED <<clientVars, state, serv_port, answered>>

Next == Clock \/ Adapter

Spec == Init /\ [][Next]_vars

(* The clock runs and the PC takes the packets that reach it. *)
FairSpec == Spec /\ WF_vars(Clock) /\ WF_vars(Adapter)

-----------------------------------------------------------------------------

Response == [data : Word, req : Access]

(* Every register and every packet is well formed. *)
TypeOK ==
    /\ busy \in [Ports -> BOOLEAN] /\ done \in [Ports -> BOOLEAN]
    /\ read_data \in [Ports -> Word]
    /\ pending \in [Ports -> Access]
    /\ state \in {"IDLE", "WAIT"} /\ serv_port \in Ports \cup {NO_PORT}
    /\ requestq \in Seq(Access) /\ Len(requestq) <= QUEUE
    /\ responseq \in Seq(Response)
    /\ mem \in [Addr -> Word] /\ inputs \in Byte /\ answered \in Access
    /\ outputs \in [count : Byte, last : Byte]

(* A response carries no id.  It can only be taken for the right request   *)
(* because at most one read is under way, it is the last packet sent, and  *)
(* the controller is waiting for it.  A busy port is remembered in pending *)
(* or being served, and registers keep to their widths.                    *)
OneReadUnderWay ==
    /\ TypeOK
    /\ Len(responseq) <= 1
    /\ \A k \in 1 .. Len(requestq) :
          requestq[k].rw = "r" => k = Len(requestq) /\ responseq = <<>>
    /\ (state = "WAIT") <=>
          (responseq # <<>> \/ \E k \in 1 .. Len(requestq) : requestq[k].rw = "r")
    /\ (state = "WAIT") <=> (serv_port # NO_PORT)
    /\ \A i \in Ports : busy[i] <=> (pending[i].rw # "none" \/ serv_port = i)

(* The environment after each of the packets in q. *)
AfterPackets(m, o, q) ==
    LET env[k \in 0 .. Len(q)] ==
            IF k = 0 THEN [mem |-> m, outputs |-> o]
            ELSE [mem |-> Written(env[k - 1].mem, q[k]),
                  outputs |-> Shown(env[k - 1].outputs, q[k])]
    IN  env

(* The memory as the clients believe it to be: with the queued writes.     *)
SharedEnv == AfterPackets(mem, outputs, requestq)[Len(requestq)]

SharedPorts ==
    [i \in Ports |->
        IF busy[i] THEN Busy(IF serv_port = i THEN UnderWay ELSE pending[i])
        ELSE IF done[i] THEN Done(answered, read_data[i]) ELSE Idle]
SharedInputs ==
    IF responseq # <<>> /\ UnderWay.addr = IN_ADDR
    THEN Head(responseq).data[0] ELSE inputs

Shared == INSTANCE SharedMemory
    WITH ports <- SharedPorts, mem <- SharedEnv.mem, outputs <- SharedEnv.outputs,
         inputs <- SharedInputs

(* Posted writes, priorities and the latency of the channel do not show:   *)
(* the accesses of both caches take effect in one order, each once, when   *)
(* it is answered, and a read sees every write answered before it.         *)
ImplementsShared == Shared!Spec

(* A request of the data cache is answered. *)
DataPortAnswered == busy[0] ~> done[0]
=============================================================================
