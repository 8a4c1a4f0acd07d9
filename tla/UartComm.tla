------------------------------ MODULE UartComm ------------------------------
(***************************************************************************)
(* Module uart_comm (Source/uart_comm.v): the sender of one end, the       *)
(* receiver of the other, and the wire between them.  A frame is a start   *)
(* bit, BITS data bits, a parity bit and a stop bit, each T clock edges    *)
(* long by the sender's clock; the receiver samples it by its own.  The    *)
(* two clocks may slip against each other by some edges in a frame, and    *)
(* the wire may turn over one data or parity bit of a frame.  Its two      *)
(* buffers are queues of BUFFER bytes; module Fifo says what they are.     *)
(***************************************************************************)
EXTENDS Naturals, Sequences

CONSTANTS
    BITS,           \* data bits of a frame, 8 in the code
    T,              \* SAMPLE_INTERVAL
    BUFFER,         \* bytes in either buffer
    EARLY, LATE     \* bound: edges the receiver may be ahead or behind in a frame

ASSUME UartAssumption ==
    /\ BITS \in Nat \ {0} /\ T \in Nat \ {0, 1, 2, 3} /\ BUFFER \in Nat \ {0}
    /\ EARLY \in Nat /\ LATE \in Nat \ {0}

(* In a frame the clocks slip by less than it takes to get from the middle *)
(* of a bit to its neighbours.                                             *)
ASSUME DriftAssumption == EARLY <= T \div 2 + 1 /\ LATE < T - T \div 2

Bit  == {0, 1}
Octet == [0 .. BITS - 1 -> Bit]

VARIABLES
    send_buffer, counter, send_status, send_bit, send_parity, send_data, Tx,
    noise, flipped,         \* the bit on the wire is turned over; one was in this frame
    recv_status, recv_bit, recv_parity, recv_counter, recv_clock, recv_data,
    recv_buffer,
    ahead,                  \* edges the receiver is ahead of the sender, plus LATE
    line                    \* history: the bytes on the wire

sendVars == <<counter, send_status, send_bit, send_parity, send_data, Tx, noise, flipped>>
recvVars == <<recv_status, recv_bit, recv_parity, recv_counter, recv_clock, recv_data>>
uartVars == <<send_buffer, sendVars, recvVars, recv_buffer, ahead, line>>

Zeros == [b \in 0 .. BITS - 1 |-> 0]

XorBit(a, b) == (a + b) % 2
Rx == XorBit(Tx, noise)

UartInit ==
    /\ send_buffer = <<>> /\ counter = 0
    /\ send_status = "IDLE" /\ send_bit = 0 /\ send_parity = 0 /\ send_data = Zeros
    /\ Tx = 1 /\ noise = 0 /\ flipped = FALSE
    /\ recv_status = "IDLE" /\ recv_bit = 0 /\ recv_parity = 0
    /\ recv_counter = 0 /\ recv_clock = FALSE /\ recv_data = Zeros
    /\ recv_buffer = <<>>
    /\ ahead = LATE /\ line = <<>>

-----------------------------------------------------------------------------
(* The sender: one bit each time its counter comes round.                  *)

sendable == Len(send_buffer) < BUFFER

(* Bound: nothing more is put in while two bytes are on the wire. *)
Put(b) ==
    /\ sendable /\ Len(line) < 2
    /\ send_buffer' = Append(send_buffer, b)
    /\ UNCHANGED <<sendVars, recvVars, recv_buffer, ahead, line>>

(* The wire turns over at most one of the bits the parity bit covers. *)
Wire ==
    \/ noise' = 0 /\ UNCHANGED <<flipped, line>>
    \/ /\ ~flipped /\ noise' = 1 /\ flipped' = TRUE
       /\ line' = [line EXCEPT ![Len(line)].damaged = TRUE]

StartBit ==
    /\ send_status = "IDLE" /\ send_buffer # <<>>
    /\ send_data' = Head(send_buffer) /\ send_buffer' = Tail(send_buffer)
    /\ line' = Append(line, [byte |-> Head(send_buffer), damaged |-> FALSE])
    /\ Tx' = 0 /\ noise' = 0 /\ flipped' = FALSE
    /\ send_status' = "DATA" /\ send_bit' = 0 /\ send_parity' = 0

DataBit ==
    /\ send_status = "DATA"
    /\ Tx' = send_data[send_bit]
    /\ send_parity' = XorBit(send_parity, send_data[send_bit])
    /\ send_bit' = (send_bit + 1) % BITS
    /\ send_status' = IF send_bit = BITS - 1 THEN "VALID" ELSE "DATA"
    /\ Wire
    /\ UNCHANGED <<send_buffer, send_data>>

ParityBit ==
    /\ send_status = "VALID"
    /\ Tx' = send_parity
    /\ send_status' = "END"
    /\ Wire
    /\ UNCHANGED <<send_buffer, send_data, send_bit, send_parity>>

StopBit ==
    /\ send_status = "END"
    /\ Tx' = 1 /\ noise' = 0
    /\ send_status' = "IDLE"
    /\ UNCHANGED <<send_buffer, send_data, send_bit, send_parity, flipped, line>>

Idle ==
    /\ send_status = "IDLE" /\ send_buffer = <<>>
    /\ UNCHANGED <<send_buffer, send_data, send_bit, send_parity, send_status, Tx,
                   noise, flipped, line>>

SendEdge ==
    /\ counter' = (counter + 1) % T
    /\ IF counter = 0
       THEN StartBit \/ DataBit \/ ParityBit \/ StopBit \/ Idle
       ELSE UNCHANGED <<send_buffer, send_data, send_bit, send_parity, send_status,
                        Tx, noise, flipped, line>>

-----------------------------------------------------------------------------
(* The receiver: from the falling edge of the start bit on, it samples in  *)
(* the middle of every bit.                                                *)

sample == recv_counter = T \div 2

recv_counter_next ==
    IF ~recv_clock THEN recv_counter
    ELSE IF recv_counter = T - 1 THEN 0 ELSE recv_counter + 1

DetectStart ==
    /\ recv_status = "IDLE" /\ Rx = 0
    /\ recv_status' = "BEGIN" /\ recv_counter' = 0 /\ recv_clock' = TRUE
    /\ UNCHANGED <<recv_bit, recv_parity, recv_data, recv_buffer>>

SampleStart ==
    /\ recv_status = "BEGIN" /\ sample
    /\ IF Rx = 0
       THEN /\ recv_status' = "DATA" /\ recv_bit' = 0 /\ recv_parity' = 0
            /\ UNCHANGED recv_clock
       ELSE /\ recv_status' = "IDLE" /\ recv_clock' = FALSE
            /\ UNCHANGED <<recv_bit, recv_parity>>
    /\ recv_counter' = recv_counter_next
    /\ UNCHANGED <<recv_data, recv_buffer>>

SampleData ==
    /\ recv_status = "DATA" /\ sample
    /\ recv_parity' = XorBit(recv_parity, Rx)
    /\ recv_data' = [recv_data EXCEPT ![recv_bit] = Rx]
    /\ recv_bit' = (recv_bit + 1) % BITS
    /\ recv_status' = IF recv_bit = BITS - 1 THEN "VALID" ELSE "DATA"
    /\ recv_counter' = recv_counter_next
    /\ UNCHANGED <<recv_clock, recv_buffer>>

AcceptedUnchecked == Len(recv_buffer) < BUFFER                     \* mutant
Accepted == recv_parity = Rx /\ Len(recv_buffer) < BUFFER

SampleParity ==
    /\ recv_status = "VALID" /\ sample
    /\ recv_buffer' = IF Accepted THEN Append(recv_buffer, recv_data) ELSE recv_buffer
    /\ recv_status' = "END"
    /\ recv_counter' = recv_counter_next
    /\ UNCHANGED <<recv_bit, recv_parity, recv_data, recv_clock>>

SampleStopHeld ==                                                \* mutant
    /\ recv_status = "END" /\ sample
    /\ recv_status' = IF Rx = recv_parity THEN "IDLE" ELSE "END"
    /\ recv_clock' = FALSE
    /\ recv_counter' = recv_counter_next
    /\ UNCHANGED <<recv_bit, recv_parity, recv_data, recv_buffer>>

SampleStop ==
    /\ recv_status = "END" /\ sample
    /\ recv_status' = "IDLE" /\ recv_clock' = FALSE
    /\ recv_counter' = recv_counter_next
    /\ UNCHANGED <<recv_bit, recv_parity, recv_data, recv_buffer>>

NoSample ==
    /\ IF recv_status = "IDLE" THEN Rx = 1 ELSE ~sample
    /\ recv_counter' = recv_counter_next
    /\ UNCHANGED <<recv_status, recv_bit, recv_parity, recv_data, recv_clock, recv_buffer>>

RecvEdge ==
    \/ DetectStart \/ SampleStart \/ SampleData \/ SampleParity \/ SampleStop
    \/ NoSample

Take ==
    /\ recv_buffer # <<>>
    /\ recv_buffer' = Tail(recv_buffer)
    /\ UNCHANGED <<send_buffer, sendVars, recvVars, ahead, line>>

-----------------------------------------------------------------------------
(* The two clocks.  While the receiver is idle their edges alternate; in a *)
(* frame the receiver's may fall behind by LATE edges or get ahead by      *)
(* EARLY, and the next start bit brings them together again.               *)

SenderEdge ==
    /\ ahead > (IF recv_status = "IDLE" THEN LATE - 1 ELSE 0)
    /\ ahead' = ahead - 1
    /\ SendEdge
    /\ UNCHANGED <<recvVars, recv_buffer>>

ReceiverEdge ==
    /\ ahead < (IF recv_status = "IDLE" THEN LATE ELSE LATE + EARLY)
    /\ RecvEdge
    /\ ahead' = IF recv_status' = "IDLE" THEN LATE ELSE ahead + 1
    /\ line' = IF recv_status = "VALID" /\ sample THEN Tail(line) ELSE line
    /\ UNCHANGED <<send_buffer, sendVars>>

UartNext == SenderEdge \/ ReceiverEdge \/ Take \/ \E b \in Octet : Put(b)

UartSpec == UartInit /\ [][UartNext]_uartVars

(* Both clocks run. *)
UartFairSpec == UartSpec /\ WF_uartVars(SenderEdge) /\ WF_uartVars(ReceiverEdge)

-----------------------------------------------------------------------------

Wires == INSTANCE ByteLine
             WITH Byte <- Octet, SIZE <- BUFFER, sending <- send_buffer, received <- recv_buffer

(* Although the clocks drift, no frame is missed, invented or read across  *)
(* its boundaries: bytes arrive in order and as they were sent, and one    *)
(* with a bit turned over, or that finds the buffer full, does not arrive. *)
ImplementsByteLine == Wires!Spec

(* The wire does not stay taken: every frame comes to its end at the       *)
(* receiver, which is then ready for the next one.                         *)
Arrives == line # <<>> ~> line = <<>>
=============================================================================
