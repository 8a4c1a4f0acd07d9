---------------------------- MODULE Environment -----------------------------
(***************************************************************************)
(* environment.cpp: the memory and the devices on the PC, octet by octet.  *)
(* Run loads the image, then lets the adapter or the simulator call        *)
(* ReadMemory and WriteMemory until the program stores to the finish port  *)
(* or a call throws an exception.                                          *)
(***************************************************************************)
EXTENDS MemoryOps, Integers, Sequences

CONSTANTS
    FINISH_ADDR, HIGH_ADDR,     \* addrFinish, addrHighMem
    MEM_SIZE,                   \* octets of memory, not always whole words
    Images,                     \* contents of memory files
    Calls,                      \* what programs ask for, at any address
    INPUT                       \* bound: characters of the input file

ASSUME EnvironmentAssumption ==
    /\ LANES \in Nat \ {0} /\ BYTE \in Nat \ {0, 1} /\ INPUT \in Nat
    /\ MEM_SIZE \in Nat /\ HIGH_ADDR \in Nat /\ Images \subseteq Seq(Byte)
    /\ Calls \subseteq [rw : {"r", "w"}, addr : Nat, w_data : Word, mask : SUBSET Lanes]
    /\ IN_ADDR \in Addr /\ OUT_ADDR \in Addr /\ FINISH_ADDR \in Addr
    /\ Addr = {a \in 0 .. MEM_SIZE - LANES : a % LANES = 0}

VARIABLES
    image,              \* contents of the memory file
    phase, ret, pos,    \* where Run is, what it returns, octets loaded
    fin, ioIn,          \* streams: can the last read be trusted, what is left
    memory, is_running, is_timing, ioOut,
    data,               \* the word ReadMemory returned last
    call                \* history: the last call

runVars == <<phase, ret, pos, fin>>
environmentVars ==
    <<image, runVars, ioIn, memory, is_running, is_timing, ioOut, data, call>>

Octets == 0 .. MEM_SIZE - 1

EnvironmentInit ==
    /\ image \in Images
    /\ phase = "open" /\ ret = 0 /\ pos = 0 /\ fin = FALSE
    /\ ioIn \in [left : 0 .. INPUT, good : BOOLEAN] /\ (~ioIn.good => ioIn.left = 0)
    /\ memory = [i \in Octets |-> 0]
    /\ is_running = FALSE /\ is_timing = FALSE
    /\ ioOut = [count |-> 0, last |-> 0]
    /\ data = ZeroWord /\ call = NoRequest

Return(n) == ret' = n /\ phase' = "end"

-----------------------------------------------------------------------------
(* Run, up to its loop.                                                    *)

OpenFile ==
    /\ phase = "open"
    /\ \/ Return(-1) /\ UNCHANGED fin
       \/ phase' = "load" /\ fin' = TRUE /\ UNCHANGED ret
    /\ UNCHANGED <<image, pos, ioIn, memory, is_running, is_timing, ioOut, data, call>>

(* Reading behind the last octet fails and leaves c what it was. *)
LoadOctet ==
    /\ phase = "load" /\ fin /\ pos < MEM_SIZE
    /\ \E c \in IF pos < Len(image) THEN {image[pos + 1]} ELSE Byte :
          memory' = [memory EXCEPT ![pos] = c]
    /\ fin' = (pos < Len(image))
    /\ pos' = pos + 1
    /\ UNCHANGED <<image, phase, ret, ioIn, is_running, is_timing, ioOut, data, call>>

LoadTooMuch ==
    /\ phase = "load" /\ fin /\ pos >= MEM_SIZE
    /\ Return(-2)
    /\ UNCHANGED <<image, pos, fin, ioIn, memory, is_running, is_timing, ioOut, data, call>>

(* Unless the program is simulated, the serial port may not open. *)
Start ==
    /\ phase = "load" /\ ~fin
    /\ \/ Return(-3) /\ UNCHANGED is_running
       \/ phase' = "run" /\ is_running' = TRUE /\ UNCHANGED ret
    /\ UNCHANGED <<image, pos, fin, ioIn, memory, is_timing, ioOut, data, call>>

-----------------------------------------------------------------------------
(* The loop.  A program may ask for any address.                           *)

Running == phase = "run" /\ is_running

(* AddressUnalignedException, AddressOutofRangeException, or memory.at     *)
(* when the last word is not whole.                                        *)
Throws(a) == a % LANES # 0 \/ a >= MEM_SIZE
Partial(a) == ~Throws(a) /\ a + LANES > MEM_SIZE

Raise == Return(-4) /\ UNCHANGED <<image, pos, fin, ioIn, is_running, ioOut, data>>

WordAt(a) == [l \in Lanes |-> memory[a + l]]
AllSet == [l \in Lanes |-> BYTE - 1]

(* ioIn->read: at the end it stores nothing and the stream turns bad. *)
ReadInput ==
    \/ ~ioIn.good /\ data' = AllSet /\ UNCHANGED ioIn
    \/ ioIn.good /\ ioIn.left > 0
       /\ data' = Char((INPUT - ioIn.left) % BYTE)
       /\ ioIn' = [ioIn EXCEPT !.left = @ - 1]
    \/ ioIn.good /\ ioIn.left = 0
       /\ \E rbuf \in Byte : data' = Char(rbuf)
       /\ ioIn' = [ioIn EXCEPT !.good = FALSE]

ReadMemory(a) ==
    /\ Running
    /\ is_timing' = TRUE
    /\ \/ (Throws(a) \/ Partial(a)) /\ Raise
       \/ /\ ~Throws(a) /\ ~Partial(a)
          /\ IF a = IN_ADDR THEN ReadInput ELSE data' = WordAt(a) /\ UNCHANGED ioIn
          /\ UNCHANGED <<image, runVars, is_running, ioOut>>
    /\ UNCHANGED memory

(* The octets the mask selects, as far as memory goes. *)
Store(a, d, mask) ==
    memory' = [i \in Octets |->
                  IF i - a \in mask /\ i >= a THEN d[i - a] ELSE memory[i]]

StoredAbove(a) ==                                                \* mutant
    a \notin {IN_ADDR, OUT_ADDR, FINISH_ADDR} /\ a > HIGH_ADDR

(* Low memory is not written to. *)
Stored(a) == a \notin {IN_ADDR, OUT_ADDR, FINISH_ADDR} /\ a >= HIGH_ADDR

WriteMemory(a, d, mask) ==
    /\ Running
    /\ \/ Throws(a) /\ Raise /\ UNCHANGED memory
       \/ /\ ~Throws(a) /\ Stored(a)
          /\ Store(a, d, mask)
          /\ IF \E l \in mask : a + l >= MEM_SIZE THEN Raise
             ELSE UNCHANGED <<image, runVars, ioIn, is_running, ioOut, data>>
       \/ /\ ~Throws(a) /\ ~Stored(a)
          /\ ioOut' = IF a = OUT_ADDR /\ 0 \in mask
                      THEN [count |-> Next1(ioOut.count), last |-> d[0]] ELSE ioOut
          /\ is_running' = ~(a = FINISH_ADDR /\ 0 \in mask /\ d[0] = BYTE - 1)
          /\ UNCHANGED <<image, runVars, ioIn, memory, data>>
    /\ UNCHANGED is_timing

Finish ==
    /\ phase = "run" /\ ~is_running
    /\ Return(0) /\ is_timing' = FALSE
    /\ UNCHANGED <<image, pos, fin, ioIn, memory, is_running, ioOut, data, call>>

EnvironmentNext ==
    \/ OpenFile \/ LoadOctet \/ LoadTooMuch \/ Start \/ Finish
    \/ \E c \in Calls :
          /\ \/ c.rw = "r" /\ ReadMemory(c.addr)
             \/ c.rw = "w" /\ WriteMemory(c.addr, c.w_data, c.mask)
          /\ call' = c

EnvironmentSpec == EnvironmentInit /\ [][EnvironmentNext]_environmentVars

-----------------------------------------------------------------------------

loaded == phase = "run" \/ (phase = "end" /\ ret \in {0, -4})

DevicesStatus ==
    IF phase \in {"open", "load"} THEN "loading"
    ELSE IF Running THEN "running"
    ELSE IF ret = 0 THEN "finished" ELSE "failed"

DevicesMem == IF loaded THEN [a \in Addr |-> WordAt(a)] ELSE InitMem
DevicesCall == IF call.addr \in Addr THEN call ELSE NoRequest
DevicesInputs == (INPUT - ioIn.left) % BYTE

Machine == INSTANCE Devices
    WITH mem <- DevicesMem,
         Requests <- {c \in Calls : c.addr \in Addr},
         PROTECTED <- {a \in Addr : a < HIGH_ADDR} \cup {FINISH_ADDR},
         inputs <- DevicesInputs, left <- ioIn.left, past <- ~ioIn.good,
         outputs <- ioOut, reply <- data, status <- DevicesStatus,
         call <- DevicesCall

(* The octets of the PC are the words, the input, the output and the end   *)
(* of the run that the memory controller takes them for, from the image to *)
(* behind the end of the input; the only octet that may differ from the    *)
(* image is the one behind it, and the only character that is made up is   *)
(* the first one behind the last.                                          *)
ImplementsDevices == Machine!Spec
=============================================================================
