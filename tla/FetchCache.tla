----------------------------- MODULE FetchCache -----------------------------
(***************************************************************************)
(* The instruction cache of cpu.v: an instance of Cache that only reads,   *)
(* beside the data cache's writes to the memory they share.  Nothing tells *)
(* it of them and its flush input is tied to zero.  The memory controller  *)
(* answers one access at a time (SharedMemory), so a write of the other    *)
(* port comes between two edges of this one.                               *)
(*                                                                         *)
(* A word is the number of writes to its address so far.                   *)
(***************************************************************************)
EXTENDS Cache

CONSTANTS Code,     \* the addresses the other cache writes
          WRITES    \* bounds the writes to each of them; less than BYTE

VARIABLE fetched    \* history: for each address, the last word fetched from it

fetchVars == <<vars, fetched>>

FetchInit ==
    /\ Init
    /\ fetched = [a \in WordAddr |-> 0]

Fetch ==
    /\ Next
    /\ fetched' = IF done' THEN [fetched EXCEPT ![answered'.addr] = r_data'[0]] ELSE fetched

(* A write of the data cache takes effect in memory. *)
WriteElsewhere(a) ==
    /\ mem[a][0] < WRITES
    /\ mem' = [mem EXCEPT ![a][0] = @ + 1]
    /\ UNCHANGED <<busy, pending, done, r_data, state, current, wayVars, lruVars,
                   port, inputs, outputs, answered, fetched>>

FetchNext == Fetch \/ \E a \in Code : WriteElsewhere(a)

-----------------------------------------------------------------------------
(* Fetches of a word may be stale for as long as its block is held, but    *)
(* they never go back to an older write than one already fetched, show no  *)
(* write that was not made, and are what a block's fill has brought: in    *)
(* memory no word is older than any fetched before.                        *)
FetchesNeverGoBack ==
    [][\A a \in WordAddr : fetched[a] <= fetched'[a] /\ fetched'[a] <= mem'[a][0]]_fetchVars
=============================================================================
