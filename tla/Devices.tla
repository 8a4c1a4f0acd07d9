------------------------------ MODULE Devices -------------------------------
(***************************************************************************)
(* What the PC promises the CPU: one memory, loaded with an image, and     *)
(* three device words.  The memory modules use the same operators for the  *)
(* words between the low addresses and the end of memory.                  *)
(***************************************************************************)
EXTENDS MemoryOps, Sequences

CONSTANTS
    FINISH_ADDR,    \* a store of the largest octet here ends the run
    PROTECTED       \* words that cannot be stored to

VARIABLES mem, image, inputs, left, past, outputs, reply, call, status

devicesVars == <<mem, image, inputs, left, past, outputs, reply, call, status>>

AllOnes == [l \in Lanes |-> BYTE - 1]

(* The octet of address a, when one octet behind the image is unspecified. *)
ImageOctet(a, junk) ==
    IF a < Len(image) THEN image[a + 1] ELSE IF a = Len(image) THEN junk ELSE 0
ImageWords(junk) == [a \in Addr |-> [l \in Lanes |-> ImageOctet(a + l, junk)]]

Init ==
    /\ mem = InitMem /\ image \in Seq(Byte)
    /\ inputs \in Byte /\ left \in Nat /\ past \in BOOLEAN /\ (past => left = 0)
    /\ outputs = [count |-> 0, last |-> 0]
    /\ reply = ZeroWord /\ call = NoRequest /\ status = "loading"

Load ==
    /\ status = "loading" /\ status' = "running"
    /\ \E junk \in Byte : mem' = ImageWords(junk)
    /\ UNCHANGED <<image, inputs, left, past, outputs, reply, call>>

(* There may be no image, it may be as large as memory, the serial port    *)
(* may be taken, the CPU may ask for a word that is not there.             *)
Fail ==
    /\ status \in {"loading", "running"} /\ status' = "failed"
    /\ call' \in Requests \cup {NoRequest}
    /\ UNCHANGED <<mem, image, inputs, left, past, outputs, reply>>

(* Memory may end with some octets that are no whole word. *)
StoreBehind ==
    /\ status = "running" /\ call' = NoRequest
    /\ UNCHANGED <<mem, image, inputs, left, past, outputs, reply, status>>

Read(r) ==
    /\ status = "running"
    /\ \/ /\ r.addr # IN_ADDR \/ left > 0
          /\ reply' = Value(mem, inputs, r.addr)
          /\ inputs' = Consumed(inputs, r)
          /\ left' = IF r.addr = IN_ADDR THEN left - 1 ELSE left
          /\ UNCHANGED past
       \/ /\ r.addr = IN_ADDR /\ left = 0 /\ ~past
          /\ \E junk \in Byte : reply' = Char(junk)
          /\ past' = TRUE
          /\ UNCHANGED <<inputs, left>>
       \/ /\ r.addr = IN_ADDR /\ past
          /\ reply' = AllOnes
          /\ UNCHANGED <<inputs, left, past>>
    /\ UNCHANGED <<mem, image, outputs, status>>

Write(r) ==
    /\ status = "running"
    /\ outputs' = Shown(outputs, r)
    /\ mem' = IF r.addr \in PROTECTED THEN mem ELSE Written(mem, r)
    /\ status' = IF r.addr = FINISH_ADDR /\ 0 \in r.mask /\ r.w_data[0] = BYTE - 1
                 THEN "finished" ELSE "running"
    /\ UNCHANGED <<image, inputs, left, past, reply>>

Next ==
    \/ Load \/ Fail \/ StoreBehind
    \/ call' \in Requests /\ IF call'.rw = "r" THEN Read(call') ELSE Write(call')

Spec == Init /\ [][Next]_devicesVars
=============================================================================
