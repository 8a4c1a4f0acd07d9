------------------------------- MODULE OsCore -------------------------------
(***************************************************************************)
(* os_core.c of uC/OS-II: the ready table, the wait lists of events, the   *)
(* scheduler, interrupt entry and exit, and the clock tick.                *)
(*                                                                         *)
(* The kernel's globals are the fields of a record s, named as in the      *)
(* source; an operator named after a C function returns the record that   *)
(* function leaves behind.  Each stands for code between OS_ENTER_CRITICAL *)
(* and OS_EXIT_CRITICAL: module Os says which of them are one step and     *)
(* what may come between.                                                  *)
(***************************************************************************)
EXTENDS Naturals, FiniteSets

CONSTANTS
    COLS,       \* bits in a row of a ready table (8)
    OS_LOWEST_PRIO,
    Task,       \* the application's task control blocks
    Idle,       \* the task control block of the idle task
    Event,      \* the event control blocks
    RESERVED,   \* OS_TCB_RESERVED
    NULL,       \* the null pointer
    NONE        \* OS_ERR_NONE

Prio == 0 .. OS_LOWEST_PRIO
Tcb  == Task \cup {Idle}

ASSUME KernelAssumption ==
    /\ COLS \in Nat \ {0} /\ OS_LOWEST_PRIO \in Nat
    /\ IsFiniteSet(Task) /\ Idle \notin Task /\ RESERVED \notin Tcb \cup {NULL}
    /\ NULL \notin Tcb \cup Event \cup Prio
    /\ NONE \notin {"EVENT_TYPE", "PEND_ISR", "PEND_LOCKED", "PEND_ABORT", "ABORT", "TIMEOUT",
                    "NOTHING", "SEM_OVF", "MBOX_FULL", "Q_EMPTY", "Q_FULL", "TASK_WAITING",
                    "NOT_MUTEX_OWNER", "DEL_ISR"}

OS_TASK_IDLE_PRIO == OS_LOWEST_PRIO

(***************************************************************************)
(* OSRdyGrp/OSRdyTbl and an event's OSEventGrp/OSEventTbl: tbl is the set  *)
(* of bits that are set, by the priority they stand for, grp the rows the  *)
(* group byte says are not empty.                                          *)
(***************************************************************************)
Y(prio) == prio \div COLS
X(prio) == prio % COLS

NoBits == [grp |-> {}, tbl |-> {}]
Row(list, y) == {p \in list.tbl : Y(p) = y}

SetBit(list, prio) ==
    [grp |-> list.grp \cup {Y(prio)}, tbl |-> list.tbl \cup {prio}]

ClearBit(list, prio) ==
    [tbl |-> list.tbl \ {prio},
     grp |-> IF Row(list, Y(prio)) \subseteq {prio} THEN list.grp \ {Y(prio)}
                                                    ELSE list.grp]

(* OSUnMapTbl: the position of the lowest bit, and 0 for no bits at all. *)
OSUnMapTbl(bits) ==
    IF bits = {} THEN 0 ELSE CHOOSE b \in bits : \A c \in bits : b <= c

Highest(list) ==
    LET y == OSUnMapTbl(list.grp)
    IN  y * COLS + OSUnMapTbl({X(p) : p \in Row(list, y)})

-----------------------------------------------------------------------------
(* Task and event control blocks.                                          *)

OS_STAT_PEND_ANY == {"SEM", "MBOX", "Q", "MUTEX", "FLAG"}

FreeTcb ==
    [OSTCBPrio |-> NULL, OSTCBStat |-> {}, OSTCBStatPend |-> "OK", OSTCBDly |-> 0,
     OSTCBEventPtr |-> NULL, OSTCBEventMultiPtr |-> {}, OSTCBMsg |-> NULL,
     OSTCBFlagNode |-> NULL, OSTCBFlagsRdy |-> {}, OSTCBDelReq |-> FALSE]

FreeEcb ==
    [OSEventType |-> "UNUSED", OSEventCnt |-> 0, OSEventPtr |-> NULL, pcp |-> NULL,
     wait |-> NoBits]

LiveTcbs(s) == {t \in Tcb : s.tcb[t].OSTCBPrio # NULL}
OSTCBFreeList(s) == Task \ LiveTcbs(s)
OSEventFreeList(s) == {e \in Event : s.ecb[e].OSEventType = "UNUSED"}
PrioOf(s, t) == s.tcb[t].OSTCBPrio

Ready(s, t) == [s EXCEPT !.OSRdy = SetBit(@, PrioOf(s, t))]
Unready(s, t) == [s EXCEPT !.OSRdy = ClearBit(@, PrioOf(s, t))]

(* The tables as OS_InitMisc, OS_InitRdyList, OS_InitEventList and         *)
(* OS_InitTCBList leave them, with the idle task OS_InitTaskIdle creates.  *)
OSInit ==
    [OSRunning |-> FALSE, OSIntNesting |-> 0, OSLockNesting |-> 0,
     OSPrioCur |-> 0, OSPrioHighRdy |-> 0, OSTCBCur |-> NULL, OSTCBHighRdy |-> NULL,
     OSRdy |-> SetBit(NoBits, OS_TASK_IDLE_PRIO),
     OSTCBPrioTbl |-> [p \in Prio |-> IF p = OS_TASK_IDLE_PRIO THEN Idle ELSE NULL],
     tcb |-> [t \in Tcb |-> IF t = Idle
                            THEN [FreeTcb EXCEPT !.OSTCBPrio = OS_TASK_IDLE_PRIO]
                            ELSE FreeTcb],
     ecb |-> [e \in Event |-> FreeEcb],
     msip |-> FALSE,      \* the pending software interrupt OSCtxSw raises
     flag |-> NULL]       \* what OS_FlagInit builds

-----------------------------------------------------------------------------
(* Scheduling.                                                             *)

OS_SchedNew(s) == [s EXCEPT !.OSPrioHighRdy = Highest(s.OSRdy)]

SwitchToHighest(s) ==
    LET n == OS_SchedNew(s)
    IN  [n EXCEPT !.OSTCBHighRdy = n.OSTCBPrioTbl[n.OSPrioHighRdy],
                  !.msip = @ \/ n.OSPrioHighRdy # n.OSPrioCur]

OS_Sched(s) ==
    IF s.OSIntNesting = 0 /\ s.OSLockNesting = 0 THEN SwitchToHighest(s) ELSE s

OSIntEnter(s) == IF s.OSRunning THEN [s EXCEPT !.OSIntNesting = @ + 1] ELSE s

OSIntExitTestedFirst(s) ==                                               \* mutant
    IF ~s.OSRunning THEN s
    ELSE LET n == [s EXCEPT !.OSIntNesting = @ - 1]
         IN  IF s.OSIntNesting = 0 /\ s.OSLockNesting = 0 THEN SwitchToHighest(n) ELSE n

OSIntExit(s) ==
    IF ~s.OSRunning THEN s
    ELSE LET n == [s EXCEPT !.OSIntNesting = @ - 1]
         IN  IF n.OSIntNesting = 0 /\ n.OSLockNesting = 0 THEN SwitchToHighest(n) ELSE n

(* Software_IRQHandler of the port. *)
ContextSwitch(s) ==
    [s EXCEPT !.msip = FALSE, !.OSPrioCur = s.OSPrioHighRdy, !.OSTCBCur = s.OSTCBHighRdy]

OSStart(s) ==
    LET n == OS_SchedNew(s)
    IN  [n EXCEPT !.OSPrioCur = n.OSPrioHighRdy,
                  !.OSTCBHighRdy = n.OSTCBPrioTbl[n.OSPrioHighRdy],
                  !.OSTCBCur = n.OSTCBPrioTbl[n.OSPrioHighRdy],
                  !.OSRunning = TRUE]

OSSchedLock(s) == [s EXCEPT !.OSLockNesting = @ + 1]
OSSchedUnlock(s) == [s EXCEPT !.OSLockNesting = IF @ > 0 THEN @ - 1 ELSE 0]

-----------------------------------------------------------------------------
(* Wait lists of events.                                                   *)

OS_EventTaskWait(s, e) ==
    LET t == s.OSTCBCur
    IN  [Unready(s, t) EXCEPT !.tcb[t].OSTCBEventPtr = e,
                              !.ecb[e].wait = SetBit(@, PrioOf(s, t))]

OS_EventTaskWaitMulti(s, events) ==
    LET t == s.OSTCBCur
    IN  [Unready(s, t) EXCEPT
            !.tcb[t].OSTCBEventPtr = NULL,
            !.tcb[t].OSTCBEventMultiPtr = events,
            !.ecb = [e \in Event |->
                       IF e \in events THEN [@[e] EXCEPT !.wait = SetBit(@, PrioOf(s, t))]
                                       ELSE @[e]]]

OS_EventTaskRemove(s, t, e) ==
    [s EXCEPT !.tcb[t].OSTCBEventPtr = NULL,
              !.ecb[e].wait = ClearBit(@, PrioOf(s, t))]

OS_EventTaskRemoveMulti(s, t, events) ==
    [s EXCEPT !.ecb = [e \in Event |->
                         IF e \in events THEN [@[e] EXCEPT !.wait = ClearBit(@, PrioOf(s, t))]
                                         ELSE @[e]]]

Waiting(s, e) == s.ecb[e].wait.grp # {}
HighestWaiting(s, e) == s.OSTCBPrioTbl[Highest(s.ecb[e].wait)]

(* The task's own bit in the row the event's wait list gave. *)
RdyBit(s, t, e) == Y(Highest(s.ecb[e].wait)) * COLS + X(PrioOf(s, t))

GivenTcb(tcb, msg, msk, pend_stat) ==
    [tcb EXCEPT !.OSTCBDly = 0, !.OSTCBMsg = msg, !.OSTCBStat = @ \ {msk},
                !.OSTCBStatPend = pend_stat]

(* The highest waiter gets msg.  It is made ready unless it is suspended,  *)
(* and of its status only msk, the type of this event, is cleared.         *)
OS_EventTaskRdy(s, e, msg, msk, pend_stat) ==
    LET t == HighestWaiting(s, e)
        n == [s EXCEPT
                !.tcb[t] = GivenTcb(@, msg, msk, pend_stat),
                !.OSRdy = IF "SUSPEND" \in s.tcb[t].OSTCBStat THEN @
                          ELSE [grp |-> @.grp \cup {Y(PrioOf(s, t))},
                                tbl |-> @.tbl \cup {RdyBit(s, t, e)}]]
        r == OS_EventTaskRemove(n, t, e)
    IN  IF r.tcb[t].OSTCBEventMultiPtr = {} THEN r
        ELSE [OS_EventTaskRemoveMulti(r, t, r.tcb[t].OSTCBEventMultiPtr)
                 EXCEPT !.tcb[t].OSTCBEventPtr = e]

(* while (pevent->OSEventGrp != 0) OS_EventTaskRdy(...) *)
OS_EventTaskRdyAll(s, e, msg, msk, pend_stat) ==
    LET after[n \in 0 .. Cardinality(Tcb)] ==
            IF n = 0 THEN s
            ELSE LET r == after[n - 1]
                 IN  IF Waiting(r, e) THEN OS_EventTaskRdy(r, e, msg, msk, pend_stat) ELSE r
    IN  after[Cardinality(Tcb)]

-----------------------------------------------------------------------------
(* OSTimeTick.  What it does to one task depends on that task alone, so    *)
(* the walk along OSTCBList is a single change to all of them.             *)

Expires(s, t) == s.tcb[t].OSTCBDly = 1

TickedTcb(tcb) ==
    [tcb EXCEPT
        !.OSTCBDly = @ - 1,
        !.OSTCBStat = IF tcb.OSTCBDly = 1 THEN @ \ OS_STAT_PEND_ANY ELSE @,
        !.OSTCBStatPend = IF tcb.OSTCBDly > 1 THEN @
                          ELSE IF tcb.OSTCBStat \cap OS_STAT_PEND_ANY # {} THEN "TO" ELSE "OK"]

OSTimeTickDelays(s) ==                                                   \* mutant
    LET woken == {t \in Task : Expires(s, t) /\ s.tcb[t].OSTCBStat = {}}
    IN  [s EXCEPT
            !.tcb = [t \in Tcb |-> IF @[t].OSTCBDly = 0 THEN @[t] ELSE TickedTcb(@[t])],
            !.OSRdy = [grp |-> @.grp \cup {Y(PrioOf(s, t)) : t \in woken},
                       tbl |-> @.tbl \cup {PrioOf(s, t) : t \in woken}]]

OSTimeTick(s) ==
    LET woken == {t \in Task : Expires(s, t) /\ "SUSPEND" \notin s.tcb[t].OSTCBStat}
    IN  [s EXCEPT
            !.tcb = [t \in Tcb |-> IF @[t].OSTCBDly = 0 THEN @[t] ELSE TickedTcb(@[t])],
            !.OSRdy = [grp |-> @.grp \cup {Y(PrioOf(s, t)) : t \in woken},
                       tbl |-> @.tbl \cup {PrioOf(s, t) : t \in woken}]]

-----------------------------------------------------------------------------
(* What a service leaves to its caller: the kernel, an error code, the     *)
(* value handed over, and whether OS_Sched is called before it returns     *)
(* ("sched") or before it goes on as a task that has waited ("block").     *)

Return(s, err)    == [s |-> s, err |-> err, val |-> NULL, then |-> "return"]
Deliver(s, val)   == [s |-> s, err |-> NONE, val |-> val, then |-> "return"]
ThenSched(s, err) == [s |-> s, err |-> err, val |-> NULL, then |-> "sched"]
Block(s)          == [s |-> s, err |-> NONE, val |-> NULL, then |-> "block"]

(* The checks most services make before they enter their critical section. *)
WrongType(s, e, type) == s.ecb[e].OSEventType # type

PendRefused(s, e, type) ==
    CASE WrongType(s, e, type)  -> "EVENT_TYPE"
      [] s.OSIntNesting > 0     -> "PEND_ISR"
      [] s.OSLockNesting > 0    -> "PEND_LOCKED"
      [] OTHER                  -> NONE

TypeRefused(s, e, type) == IF WrongType(s, e, type) THEN "EVENT_TYPE" ELSE NONE
DelRefused(s, e, type) ==
    CASE WrongType(s, e, type) -> "EVENT_TYPE"
      [] s.OSIntNesting > 0    -> "DEL_ISR"
      [] OTHER                 -> NONE

PendingTcb(tcb, stat, timeout) ==
    [tcb EXCEPT !.OSTCBStat = @ \cup {stat}, !.OSTCBStatPend = "OK", !.OSTCBDly = timeout]

(* OSSemPend and OSMutexPend leave OSTCBMsg as it is; it is null there, as *)
(* their waiters are sent no message and the other pends clear it.         *)
ReturnedTcb(tcb) ==
    [tcb EXCEPT !.OSTCBStat = {}, !.OSTCBStatPend = "OK", !.OSTCBEventPtr = NULL,
                !.OSTCBEventMultiPtr = {}, !.OSTCBMsg = NULL]

(* The current task joins the wait list of e, and tells a tick from a post *)
(* by the status it finds when it runs again.                              *)
Pend(s, e, stat, timeout) ==
    LET t == s.OSTCBCur
    IN  Block(OS_EventTaskWait([s EXCEPT !.tcb[t] = PendingTcb(@, stat, timeout)], e))

PendReturn(s, e) ==
    LET t    == s.OSTCBCur
        stat == s.tcb[t].OSTCBStatPend
        n    == IF stat = "TO" THEN OS_EventTaskRemove(s, t, e) ELSE s
    IN  [s    |-> [n EXCEPT !.tcb[t] = ReturnedTcb(@)],
         err  |-> CASE stat = "OK" -> NONE [] stat = "ABORT" -> "ABORT" [] stat = "TO" -> "TIMEOUT",
         val  |-> IF stat = "OK" THEN s.tcb[t].OSTCBMsg ELSE NULL,
         then |-> "return"]

(* OSSemPendAbort, OSMboxPendAbort, OSQPendAbort. *)
PendAbort(s, e, stat, broadcast) ==
    IF ~Waiting(s, e) THEN Return(s, NONE)
    ELSE ThenSched(IF broadcast THEN OS_EventTaskRdyAll(s, e, NULL, stat, "ABORT")
                                ELSE OS_EventTaskRdy(s, e, NULL, stat, "ABORT"), "PEND_ABORT")

(* OSSemDel, OSMboxDel, OSQDel. *)
EventDel(s, e, stat, always) ==
    LET n == OS_EventTaskRdyAll(s, e, NULL, stat, "ABORT")
        d == [n EXCEPT !.ecb[e] = [FreeEcb EXCEPT !.wait = n.ecb[e].wait]]
    IN  CASE Waiting(s, e) /\ ~always -> Return(s, "TASK_WAITING")
          [] Waiting(s, e) /\ always  -> ThenSched(d, NONE)
          [] OTHER                    -> Return(d, NONE)

(* An ECB leaves the free list with its wait list cleared. *)
NewEvent(s, e, ecb) == Return([s EXCEPT !.ecb[e] = ecb], NONE)
CreateRefused(s) == IF s.OSIntNesting > 0 THEN "CREATE_ISR" ELSE NONE
=============================================================================
