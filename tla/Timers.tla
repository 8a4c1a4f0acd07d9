------------------------------- MODULE Timers -------------------------------
(***************************************************************************)
(* What software timers promise: a timer that runs expires at exactly the  *)
(* tick its delay or period says, once, and before the next tick; nothing  *)
(* that is done to one timer changes another.  remain is what              *)
(* OSTmrRemainGet returns.                                                 *)
(***************************************************************************)
EXTENDS Naturals

CONSTANTS
    Timer,
    Kind        \* the timers there can be: [dly, period, opt, ...]

VARIABLE timer      \* state, options and the ticks that remain

Unused == [state |-> "UNUSED", dly |-> 0, period |-> 0, opt |-> "NONE", remain |-> 0]

(* The ticks from a start to the first expiry. *)
First(tm) == IF tm.dly = 0 THEN tm.period ELSE tm.dly

Becomes(t, tm) == timer' = [timer EXCEPT ![t] = tm]

Create(t) ==
    /\ timer[t].state = "UNUSED"
    /\ \E k \in Kind :
          Becomes(t, [state |-> "STOPPED", dly |-> k.dly, period |-> k.period, opt |-> k.opt,
                      remain |-> First(k)])
Delete(t) == timer[t].state # "UNUSED" /\ Becomes(t, Unused)
Start(t) ==
    /\ timer[t].state # "UNUSED"
    /\ Becomes(t, [timer[t] EXCEPT !.state = "RUNNING", !.remain = First(timer[t])])
Stop(t) ==
    /\ timer[t].state = "RUNNING"
    /\ Becomes(t, [timer[t] EXCEPT !.state = "STOPPED", !.remain = First(timer[t])])
Expire(t) ==
    /\ timer[t].state = "RUNNING" /\ timer[t].remain = 0
    /\ IF timer[t].opt = "PERIODIC" THEN Becomes(t, [timer[t] EXCEPT !.remain = timer[t].period])
       ELSE Becomes(t, [timer[t] EXCEPT !.state = "COMPLETED"])

Runs(t) == timer[t].state = "RUNNING"
Tick ==
    /\ \A t \in Timer : Runs(t) => timer[t].remain > 0
    /\ timer' = [t \in Timer |-> IF Runs(t) THEN [timer[t] EXCEPT !.remain = @ - 1] ELSE timer[t]]

Init == timer = [t \in Timer |-> Unused]
Next == Tick \/ \E t \in Timer : Create(t) \/ Delete(t) \/ Start(t) \/ Stop(t) \/ Expire(t)
Spec == Init /\ [][Next]_timer
=============================================================================
