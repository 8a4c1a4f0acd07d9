-------------------------------- MODULE OsTmr -------------------------------
(***************************************************************************)
(* os_tmr.c of uC/OS-II: software timers, hashed by the time they expire   *)
(* into the spokes of a wheel.  Every service and each turn of OSTmr_Task  *)
(* runs with the scheduler locked, so that services are one step and none  *)
(* of another task comes between two steps of the timer task.  OSTmrTime   *)
(* is 32 bits wide in the code and wraps at TIME here; the number of       *)
(* spokes does not divide either.                                          *)
(***************************************************************************)
EXTENDS OsCore

CONSTANTS
    Timer,          \* OSTmrTbl
    WHEEL,          \* OS_TMR_CFG_WHEEL_SIZE
    TIME,
    Kind            \* what timers are created with: [dly, period, opt]

(* Delays and periods are counted in as many bits as the time. *)
ASSUME TmrAssumption ==
    /\ IsFiniteSet(Timer) /\ Timer # {} /\ NULL \notin Timer
    /\ WHEEL \in Nat \ {0} /\ TIME \in Nat \ {0}
    /\ \A k \in Kind : k.dly \in 0 .. TIME - 1 /\ k.period \in 0 .. TIME - 1
                        /\ k.opt \in {"ONE_SHOT", "PERIODIC"}

VARIABLES
    tmr,            \* OSTmrTbl
    OSTmrFirst,     \* OSTmrWheelTbl, by spoke
    OSTmrFreeList,
    OSTmrTime,
    task            \* OSTmr_Task: [at, ptmr, next]

tmrVars == <<tmr, OSTmrFirst, OSTmrFreeList, OSTmrTime, task>>

Pends == [at |-> "pend", ptmr |-> NULL, next |-> NULL]

FreeTmr ==
    [OSTmrState |-> "UNUSED", OSTmrNext |-> NULL, OSTmrPrev |-> NULL, OSTmrMatch |-> 0,
     OSTmrDly |-> 0, OSTmrPeriod |-> 0, OSTmrOpt |-> "NONE"]

(* OSTmr_Init chains the timers in some order. *)
OSTmr_Init ==
    LET order == CHOOSE o \in [1 .. Cardinality(Timer) -> Timer] :
                    \A i, j \in DOMAIN o : o[i] = o[j] => i = j
    IN  /\ tmr = [t \in Timer |->
                    LET i == CHOOSE j \in DOMAIN order : order[j] = t
                    IN  [FreeTmr EXCEPT !.OSTmrNext =
                            IF i + 1 \in DOMAIN order THEN order[i + 1] ELSE NULL]]
        /\ OSTmrFreeList = order[1]
TmrInit ==
    /\ OSTmr_Init
    /\ OSTmrFirst = [s \in 0 .. WHEEL - 1 |-> NULL] /\ OSTmrTime = 0
    /\ task = Pends

-----------------------------------------------------------------------------
(* The wheel: w = [tmr, first].                                            *)

Wheel == [tmr |-> tmr, first |-> OSTmrFirst]
Spoke(w, t) == w.tmr[t].OSTmrMatch % WHEEL

OSTmr_Link(w, t, ticks) ==
    LET match  == (OSTmrTime + ticks) % TIME
        spoke  == match % WHEEL
        old    == w.first[spoke]
        linked == [w EXCEPT
                     !.first[spoke] = t,
                     !.tmr[t].OSTmrState = "RUNNING", !.tmr[t].OSTmrMatch = match,
                     !.tmr[t].OSTmrNext = old, !.tmr[t].OSTmrPrev = NULL]
    IN  IF old = NULL THEN linked ELSE [linked EXCEPT !.tmr[old].OSTmrPrev = t]

OSTmr_UnlinkHead(w, t) ==                                                \* mutant
    [w EXCEPT !.first[Spoke(w, t)] = w.tmr[t].OSTmrNext,
              !.tmr[t].OSTmrState = "STOPPED", !.tmr[t].OSTmrNext = NULL,
              !.tmr[t].OSTmrPrev = NULL]

OSTmr_Unlink(w, t) ==
    LET next == w.tmr[t].OSTmrNext
        prev == w.tmr[t].OSTmrPrev
        head == w.first[Spoke(w, t)] = t
        a == IF head THEN [w EXCEPT !.first[Spoke(w, t)] = next]
                     ELSE [w EXCEPT !.tmr[prev].OSTmrNext = next]
        b == IF next = NULL THEN a
             ELSE [a EXCEPT !.tmr[next].OSTmrPrev = IF head THEN NULL ELSE prev]
    IN  [b EXCEPT !.tmr[t].OSTmrState = "STOPPED", !.tmr[t].OSTmrNext = NULL,
                  !.tmr[t].OSTmrPrev = NULL]

(* OSTmr_Link with OS_TMR_LINK_DLY. *)
FirstDly(t) == IF tmr[t].OSTmrDly = 0 THEN tmr[t].OSTmrPeriod ELSE tmr[t].OSTmrDly

Becomes(w) == tmr' = w.tmr /\ OSTmrFirst' = w.first

-----------------------------------------------------------------------------
(* The services, called by tasks and from callback functions.              *)

OSTmrCreate(dly, period, opt) ==
    /\ IF opt = "PERIODIC" THEN period > 0 ELSE dly > 0
    /\ OSTmrFreeList # NULL
    /\ OSTmrFreeList' = tmr[OSTmrFreeList].OSTmrNext
    /\ tmr' = [tmr EXCEPT ![OSTmrFreeList] =
                 [FreeTmr EXCEPT !.OSTmrState = "STOPPED", !.OSTmrDly = dly,
                                 !.OSTmrPeriod = period, !.OSTmrOpt = opt]]
    /\ UNCHANGED OSTmrFirst

(* OSTmr_Free leaves OSTmrDly as it is; no one reads it. *)
OSTmr_Free(w, t) ==
    [w EXCEPT !.tmr[t] = [FreeTmr EXCEPT !.OSTmrNext = OSTmrFreeList]]

OSTmrDel(t) ==
    /\ tmr[t].OSTmrState # "UNUSED"
    /\ Becomes(OSTmr_Free(IF tmr[t].OSTmrState = "RUNNING" THEN OSTmr_Unlink(Wheel, t) ELSE Wheel, t))
    /\ OSTmrFreeList' = t

OSTmrStart(t) ==
    /\ tmr[t].OSTmrState # "UNUSED"
    /\ LET w == IF tmr[t].OSTmrState = "RUNNING" THEN OSTmr_Unlink(Wheel, t) ELSE Wheel
       IN  Becomes(OSTmr_Link(w, t, FirstDly(t)))
    /\ UNCHANGED OSTmrFreeList

OSTmrStop(t) ==
    /\ tmr[t].OSTmrState = "RUNNING"
    /\ Becomes(OSTmr_Unlink(Wheel, t))
    /\ UNCHANGED OSTmrFreeList

(* What the timer has left, as OSTmrRemainGet tells. *)
OSTmrRemainGet(t) ==
    CASE tmr[t].OSTmrState = "RUNNING" -> (TIME + tmr[t].OSTmrMatch - OSTmrTime) % TIME
      [] tmr[t].OSTmrState = "STOPPED" ->
            IF tmr[t].OSTmrOpt = "PERIODIC" /\ tmr[t].OSTmrDly = 0 THEN tmr[t].OSTmrPeriod
                                                                   ELSE tmr[t].OSTmrDly
      [] OTHER -> 0

(* The application's tasks.  They stop timers without asking for the       *)
(* callback (OS_TMR_OPT_NONE).                                             *)
Client ==
    /\ task.at = "pend"
    /\ \/ \E k \in Kind : OSTmrCreate(k.dly, k.period, k.opt)
       \/ \E t \in Timer : OSTmrDel(t) \/ OSTmrStart(t) \/ OSTmrStop(t)
    /\ UNCHANGED <<OSTmrTime, task>>

-----------------------------------------------------------------------------
(* One turn of OSTmr_Task: a tick, then a visit to every timer of its      *)
(* spoke.  The successor is read before the timer is relinked and its      *)
(* function is called.  A turn begins when OSTmrSemSignal has been posted, *)
(* by OSTmrSignal from the tick's hook: at any time.                       *)
Advance ==
    /\ task.at = "pend"
    /\ OSTmrTime' = (OSTmrTime + 1) % TIME
    /\ task' = [at |-> "visit", ptmr |-> OSTmrFirst[OSTmrTime' % WHEEL], next |-> NULL]
    /\ UNCHANGED <<tmr, OSTmrFirst, OSTmrFreeList>>

GoTo(t) == IF t = NULL THEN Pends ELSE [at |-> "visit", ptmr |-> t, next |-> NULL]

Expired(t) ==
    LET w == OSTmr_Unlink(Wheel, t)
    IN  IF tmr[t].OSTmrOpt = "PERIODIC" THEN OSTmr_Link(w, t, tmr[t].OSTmrPeriod)
        ELSE [w EXCEPT !.tmr[t].OSTmrState = "COMPLETED"]

Visit ==
    LET t == task.ptmr
        next == IF t = NULL THEN NULL ELSE tmr[t].OSTmrNext
    IN  /\ task.at = "visit"
        /\ IF t = NULL \/ OSTmrTime # tmr[t].OSTmrMatch
           THEN task' = GoTo(next) /\ UNCHANGED <<tmr, OSTmrFirst>>
           ELSE /\ Becomes(Expired(t))
                /\ task' = [at |-> "callback", ptmr |-> t, next |-> next]
        /\ UNCHANGED <<OSTmrFreeList, OSTmrTime>>

(* The timer's function, if it has one, may call a service for its timer. *)
Callback(t) ==
    \/ OSTmrStart(t) \/ OSTmrStop(t) \/ OSTmrDel(t)
    \/ UNCHANGED <<tmr, OSTmrFirst, OSTmrFreeList>>

RunCallback ==
    /\ task.at = "callback"
    /\ Callback(task.ptmr)
    /\ task' = GoTo(task.next)
    /\ UNCHANGED <<OSTmrTime>>

TmrNext == Client \/ Advance \/ Visit \/ RunCallback

TmrSpec == TmrInit /\ [][TmrNext]_tmrVars

-----------------------------------------------------------------------------
(* What a client sees of the timers. *)
Shown == [t \in Timer |-> [state  |-> tmr[t].OSTmrState,
                           dly    |-> tmr[t].OSTmrDly,
                           period |-> tmr[t].OSTmrPeriod,
                           opt    |-> tmr[t].OSTmrOpt,
                           remain |-> OSTmrRemainGet(t)]]

Promise == INSTANCE Timers WITH timer <- Shown

(* The wheel, its spokes and the wrapping clock do not show: every timer   *)
(* expires at the tick it was started for and at no other, whatever the    *)
(* others in its spoke do and whatever it does to itself when it expires.  *)
ImplementsTimers == Promise!Spec
=============================================================================
