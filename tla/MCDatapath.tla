----------------------------- MODULE MCDatapath -----------------------------
(***************************************************************************)
(* Eight-bit words of four two-bit bytes, with the values where signs,     *)
(* carries and bytes change.  One behaviour runs instructions in the CPU,  *)
(* another in the simulator.                                               *)
(***************************************************************************)
EXTENDS Datapath, Simulator

MCOperands == {0, 1, 3, 27, 127, 128, 254, 255}
MCPcs      == {8, 252}
MCValues   == {0, 1, 27, 128, 255}

VARIABLE machine

MCInit == machine \in {"CPU", "simulator"} /\ Init /\ SimInit

MCNext ==
    \/ machine = "CPU" /\ Next /\ UNCHANGED <<simVars, machine>>
    \/ machine = "simulator" /\ SimNext /\ UNCHANGED <<vars, machine>>

machineVars == <<vars, simVars, machine>>

MCSpec == MCInit /\ [][MCNext]_machineVars
=============================================================================
