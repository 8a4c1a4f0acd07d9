------------------------------ MODULE ByteLine ------------------------------
(***************************************************************************)
(* What the users of uart_comm rely on: bytes leave the send buffer in     *)
(* order, are on the line one after the other, and each either arrives in  *)
(* the receive buffer as it was sent or not at all: damaged, or finding    *)
(* the buffer full.                                                        *)
(***************************************************************************)
EXTENDS Naturals, Sequences

CONSTANTS Byte, SIZE

VARIABLES sending, line, received

lineVars == <<sending, line, received>>

Init == sending = <<>> /\ line = <<>> /\ received = <<>>

Put(b) ==
    /\ Len(sending) < SIZE
    /\ sending' = Append(sending, b)
    /\ UNCHANGED <<line, received>>

Start ==
    /\ sending # <<>>
    /\ line' = Append(line, [byte |-> Head(sending), damaged |-> FALSE])
    /\ sending' = Tail(sending)
    /\ UNCHANGED received

Damage ==
    /\ line # <<>>
    /\ line' = [line EXCEPT ![Len(line)].damaged = TRUE]
    /\ UNCHANGED <<sending, received>>

Arrive ==
    /\ line # <<>>
    /\ received' = IF Head(line).damaged \/ Len(received) = SIZE THEN received
                   ELSE Append(received, Head(line).byte)
    /\ line' = Tail(line)
    /\ UNCHANGED sending

Take ==
    /\ received # <<>>
    /\ received' = Tail(received)
    /\ UNCHANGED <<sending, line>>

Next == Start \/ Damage \/ Arrive \/ Take \/ \E b \in Byte : Put(b)

Spec == Init /\ [][Next]_lineVars
=============================================================================
