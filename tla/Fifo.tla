-------------------------------- MODULE Fifo --------------------------------
(***************************************************************************)
(* Module fifo (Source/tmpSource/fifo_tmp.v), the ring buffer behind both  *)
(* directions of the UART and every channel of the packet multiplexer.     *)
(* One action per branch of its always block; the two request flags and    *)
(* the data input are whatever the surrounding logic drives at the clock   *)
(* edge.                                                                   *)
(***************************************************************************)
EXTENDS Naturals, Sequences

CONSTANTS
    SIZE,       \* entries, 1 << SIZE_BIT
    Data,       \* values of a WIDTH-bit entry
    Zero        \* the reset value

ASSUME FifoAssumption == SIZE \in Nat \ {0} /\ Zero \in Data

VARIABLES
    buffer,
    read_ptr,
    write_ptr,
    buffer_size,
    taken       \* history: read_data at the last edge that consumed it

fifoVars == <<buffer, read_ptr, write_ptr, buffer_size, taken>>

Slots == 0 .. SIZE - 1

(* A pointer is SIZE_BIT bits wide, so adding one wraps at SIZE. *)
Inc(p) == IF p + 1 = SIZE THEN 0 ELSE p + 1

empty == buffer_size = 0

full  == buffer_size = SIZE
read_data == buffer[read_ptr]

FifoInit ==
    /\ buffer = [i \in Slots |-> Zero]
    /\ read_ptr = 0 /\ write_ptr = 0 /\ buffer_size = 0
    /\ taken = Zero

ReadWriteCounted(d) ==                                           \* mutant
    /\ ~empty /\ ~full
    /\ buffer' = [buffer EXCEPT ![write_ptr] = d]
    /\ read_ptr' = Inc(read_ptr) /\ write_ptr' = Inc(write_ptr)
    /\ taken' = read_data
    /\ buffer_size' = buffer_size - 1

ReadWrite(d) ==
    /\ ~empty /\ ~full
    /\ buffer' = [buffer EXCEPT ![write_ptr] = d]
    /\ read_ptr' = Inc(read_ptr)
    /\ write_ptr' = Inc(write_ptr)
    /\ taken' = read_data
    /\ UNCHANGED buffer_size

(* read_flag alone, or together with a write_flag that finds the buffer    *)
(* full: the written item is dropped.                                      *)
ReadOnly ==
    /\ ~empty
    /\ read_ptr' = Inc(read_ptr)
    /\ buffer_size' = buffer_size - 1
    /\ taken' = read_data
    /\ UNCHANGED <<buffer, write_ptr>>

WriteOnlyAfterIncrement(d) ==                                    \* mutant
    /\ ~full
    /\ buffer' = [buffer EXCEPT ![Inc(write_ptr)] = d]
    /\ write_ptr' = Inc(write_ptr)
    /\ buffer_size' = buffer_size + 1
    /\ UNCHANGED <<read_ptr, taken>>

WriteOnly(d) ==
    /\ ~full
    /\ buffer' = [buffer EXCEPT ![write_ptr] = d]
    /\ write_ptr' = Inc(write_ptr)
    /\ buffer_size' = buffer_size + 1
    /\ UNCHANGED <<read_ptr, taken>>

(* negedge CLK with the flags the neighbours drive. *)
Edge(read_flag, write_flag, d) ==
    LET read  == read_flag /\ ~empty
        write == write_flag /\ ~full
    IN  \/ read /\ write /\ ReadWrite(d)
        \/ read /\ ~write /\ ReadOnly
        \/ ~read /\ write /\ WriteOnly(d)
        \/ ~read /\ ~write /\ UNCHANGED fifoVars

(* posedge RST *)
Reset ==
    /\ buffer' = [i \in Slots |-> Zero]
    /\ read_ptr' = 0 /\ write_ptr' = 0 /\ buffer_size' = 0
    /\ taken' = Zero

FifoNext ==
    \/ Reset
    \/ \E read_flag, write_flag \in BOOLEAN, d \in Data :
          Edge(read_flag, write_flag, d)

FifoSpec == FifoInit /\ [][FifoNext]_fifoVars

-----------------------------------------------------------------------------

(* Every register stays within its declared width. *)
FifoTypeOK ==
    /\ buffer \in [Slots -> Data]
    /\ read_ptr \in Slots /\ write_ptr \in Slots
    /\ buffer_size \in 0 .. SIZE
    /\ taken \in Data

(* The entry k places behind entry p. *)
Slot(p, k) == IF p + k < SIZE THEN p + k ELSE p + k - SIZE

(* The count and the two pointers are three registers that are updated     *)
(* separately; the write pointer is always exactly buffer_size entries     *)
(* after the read pointer, so a full buffer is never taken for an empty    *)
(* one.                                                                    *)
PointersAgree ==
    write_ptr = IF buffer_size = SIZE THEN read_ptr ELSE Slot(read_ptr, buffer_size)

(* The queue the ring buffer holds. *)
Contents == [k \in 1 .. buffer_size |-> buffer[Slot(read_ptr, k - 1)]]

Queue == INSTANCE BoundedQueue WITH q <- Contents

(* The ring buffer implements the bounded queue: no item is lost,          *)
(* duplicated or reordered, and only a write that found it full is         *)
(* dropped.                                                                *)
ImplementsQueue == Queue!Spec
=============================================================================
