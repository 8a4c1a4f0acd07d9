--------------------------- MODULE PacketChannel ----------------------------
(***************************************************************************)
(* What memory_controller takes the serial link for: two lossless queues.  *)
(* Requests reach the PC in the order they were put in, each once; a       *)
(* response comes back for every read, in order.  A reset of the FPGA      *)
(* forgets the responses, and the requests from before it may be lost, but *)
(* the ones after it are performed after them, from the first.             *)
(***************************************************************************)
EXTENDS Naturals, Sequences

CONSTANTS Request, NoRequest, IsRead(_)

VARIABLES
    requestq,   \* requests put in and not yet performed
    stale,      \* how many of those are from before the last reset
    responseq,  \* reads performed whose response has not been taken
    performed   \* history: the request performed last

channelVars == <<requestq, stale, responseq, performed>>

Init == requestq = <<>> /\ stale = 0 /\ responseq = <<>> /\ performed = NoRequest

Put(m) == requestq' = Append(requestq, m) /\ UNCHANGED <<stale, responseq, performed>>

Perform ==
    \E k \in 1 .. Len(requestq) :
        /\ k - 1 <= stale
        /\ performed' = requestq[k]
        /\ requestq' = SubSeq(requestq, k + 1, Len(requestq))
        /\ stale' = IF stale > k THEN stale - k ELSE 0
        /\ responseq' = IF IsRead(requestq[k]) /\ k > stale
                        THEN Append(responseq, requestq[k]) ELSE responseq

Take ==
    /\ responseq # <<>>
    /\ responseq' = Tail(responseq)
    /\ UNCHANGED <<requestq, stale, performed>>

Reset ==
    /\ stale' = Len(requestq) /\ responseq' = <<>>
    /\ UNCHANGED <<requestq, performed>>

Next == Perform \/ Take \/ Reset \/ \E m \in Request : Put(m)

Spec == Init /\ [][Next]_channelVars
=============================================================================
