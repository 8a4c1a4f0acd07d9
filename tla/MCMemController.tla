-------------------------- MODULE MCMemController ---------------------------
(***************************************************************************)
(* Two clients that read and write one word of memory and both devices.    *)
(* The instruction cache, which assumes of the controller only what        *)
(* SharedMemory says, is the subject of behaviours of its own, and so are  *)
(* the parts of the library that program memory: its segments and pools,   *)
(* and the octets it moves.                                                *)
(***************************************************************************)
EXTENDS MemController, LibMem

CONSTANTS segA, poolA, poolB, dynA

MCAddr == {"in", "out", "x"}
MCInitMem == [a \in MCAddr |-> [l \in 0 .. LANES - 1 |-> 0]]

Load(a) ==
    [rw |-> "r", addr |-> a, w_data |-> [l \in 0 .. LANES - 1 |-> 0], mask |-> {}]
WriteTo(a, v, mask) ==
    [rw |-> "w", addr |-> a, w_data |-> [l \in 0 .. LANES - 1 |-> v], mask |-> mask]

MCRequests ==
    {Load("x"), Load("in"), WriteTo("x", 1, {0}), WriteTo("x", 0, {0}),
     WriteTo("out", 1, {0})}

(* Three blocks of code compete for two ways; two words of the first are   *)
(* written twice.  The devices are in a block that is not fetched.         *)
Fetched(t, k) == [tag |-> t, index |-> 0, ws |-> k]
MCCode == {Fetched(0, 0), Fetched(0, 2)}
MCFetches == {Load(a) : a \in MCCode \cup {Fetched(0, 1), Fetched(1, 3), Fetched(2, 0)}}

(* Two static pools, in a heap that has just room for them, or not ...     *)
None == <<>>
HeapTake == [seg |-> Heap, size |-> 5, align |-> 4, hw |-> FALSE]
StaticPools(base) ==
    [heap |-> [base |-> base, size |-> 32], seg |-> None, dyn |-> None, alloc |-> {HeapTake},
     pool |-> poolA :> [base |-> DEF_NULL, mem_size |-> 0, blk_nbr |-> 2, blk_size |-> 3, align |-> 4]
           @@ poolB :> [base |-> 96, mem_size |-> 9, blk_nbr |-> 2, blk_size |-> 4, align |-> 2]]

(* ... a dynamic pool that outgrows the heap ...                           *)
DynamicPool(base, init, max) ==
    [heap |-> [base |-> base, size |-> 15], seg |-> None, pool |-> None, alloc |-> {HeapTake},
     dyn |-> dynA :> [seg |-> Heap, blk_size |-> 4, align |-> 4, init |-> init, max |-> max,
                      hw |-> FALSE]]

(* ... and one in a padded segment that ends where the addresses do.       *)
PaddedPool(init, hw) ==
    [heap |-> [base |-> 16, size |-> 8], pool |-> None,
     seg |-> segA :> [base |-> 104, size |-> 24, padding |-> 8],
     alloc |-> {[seg |-> segA, size |-> 3, align |-> 2, hw |-> hw]},
     dyn |-> dynA :> [seg |-> segA, blk_size |-> 5, align |-> 2, init |-> init, max |-> 2,
                      hw |-> TRUE]]

MCApplication ==
    {StaticPools(base) : base \in {16, 18}}
        \cup {DynamicPool(base, init, max) : base \in {16, 18}, init \in {0, 2}, max \in {UNLIMITED, 2}}
        \cup {PaddedPool(init, hw) : init \in {0, 1}, hw \in BOOLEAN}

VARIABLES
    subject,
    i_busy, i_pending, i_done, i_r_data, i_state, i_current, i_tag, i_valid, i_data,
    i_recuse, i_recent_use_counter, i_port, i_mem, i_inputs, i_outputs, i_answered, i_fetched

ICache == INSTANCE FetchCache WITH
    TAGS <- 4, SETS <- 1, WAYS <- 2, WORDS <- 4, LANES <- 1, BYTE <- 3,
    IN_ADDR <- Fetched(3, 0), OUT_ADDR <- Fetched(3, 1),
    Requests <- MCFetches, Code <- MCCode, WRITES <- 2,
    InitMem <- [a \in [tag : 0 .. 3, index : {0}, ws : 0 .. 3] |-> [l \in {0} |-> 0]],
    busy <- i_busy, pending <- i_pending, done <- i_done, r_data <- i_r_data, state <- i_state,
    current <- i_current, tag <- i_tag, valid <- i_valid, data <- i_data, recuse <- i_recuse,
    recent_use_counter <- i_recent_use_counter, port <- i_port, mem <- i_mem,
    inputs <- i_inputs, outputs <- i_outputs, answered <- i_answered, fetched <- i_fetched

icacheVars == <<i_busy, i_pending, i_done, i_r_data, i_state, i_current, i_tag, i_valid, i_data,
                i_recuse, i_recent_use_counter, i_port, i_mem, i_inputs, i_outputs, i_answered,
                i_fetched>>
MCInit ==
    /\ subject \in {"controller", "icache", "segments", "octets"}
    /\ Init /\ ICache!FetchInit /\ LibInit /\ BytesInit
    /\ subject # "segments" => app = StaticPools(16)

(* The other parts stay as they are initialised. *)
Only(part) ==
    /\ subject = part /\ UNCHANGED subject
    /\ part # "controller" => UNCHANGED vars
    /\ part # "icache" => UNCHANGED icacheVars
    /\ part # "segments" => UNCHANGED libVars
    /\ part # "octets" => UNCHANGED bytesVars

MCNext ==
    \/ Only("controller") /\ Next
    \/ Only("icache") /\ ICache!FetchNext
    \/ Only("segments") /\ LibNext
    \/ Only("octets") /\ BytesNext

mcVars == <<vars, icacheVars, libVars, bytesVars, subject>>

(* Fairness is of the controller and the PC. *)
MCSpec ==
    /\ MCInit /\ [][MCNext]_mcVars
    /\ WF_mcVars(Only("controller") /\ Clock) /\ WF_mcVars(Only("controller") /\ Adapter)

(* What the instruction cache fetches never goes back, whatever the data   *)
(* cache writes meanwhile.                                                 *)
FetchesNeverGoBack == ICache!FetchesNeverGoBack
=============================================================================
