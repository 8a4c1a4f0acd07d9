----------------------------- MODULE MCUartComm -----------------------------
(* A small instance of UartComm, and beside it one of the ring buffers it  *)
(* is built with: a behaviour is of one or of the other.                   *)
EXTENDS UartComm, Fifo

VARIABLE fifo

MCInit == UartInit /\ FifoInit /\ fifo \in BOOLEAN
UartStep == ~fifo /\ UartNext /\ UNCHANGED <<fifo, fifoVars>>
FifoStep == fifo /\ FifoNext /\ UNCHANGED <<fifo, uartVars>>

MCVars == <<fifo, fifoVars, uartVars>>
MCSpec ==
    /\ MCInit /\ [][UartStep \/ FifoStep]_MCVars
    /\ WF_MCVars(UartStep /\ SenderEdge) /\ WF_MCVars(UartStep /\ ReceiverEdge)
=============================================================================
