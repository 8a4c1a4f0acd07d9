------------------------------- MODULE OsTask -------------------------------
(***************************************************************************)
(* os_task.c and os_time.c: creating, deleting, suspending and delaying    *)
(* tasks and changing their priority.  A task is named by its priority.    *)
(***************************************************************************)
EXTENDS OsFlag

CONSTANT OS_TICKS_PER_SEC

NoTaskAt(s, prio) == s.OSTCBPrioTbl[prio] \notin Tcb
At(s, prio) == s.OSTCBPrioTbl[prio]

(* How a service that names a task by its priority fails. *)
NoTaskError(s, prio, free, reserved) ==
    Return(s, IF s.OSTCBPrioTbl[prio] = NULL THEN free ELSE reserved)

MaybeSched(s) == IF s.OSRunning THEN ThenSched(s, NONE) ELSE Return(s, NONE)

(* OSTaskCreate and OSTaskCreateExt reserve the priority, take a TCB and   *)
(* enter it in the table, and put it in the ready table in three critical  *)
(* sections.                                                               *)
OSTaskCreate(s, prio) ==
    CASE s.OSIntNesting > 0             -> Return(s, "TASK_CREATE_ISR")
      [] s.OSTCBPrioTbl[prio] # NULL    -> Return(s, "PRIO_EXIST")
      [] OTHER -> Return([s EXCEPT !.OSTCBPrioTbl[prio] = RESERVED], NONE)

TaskCreateTcb(s, prio, t) ==
    IF t = NULL
    THEN Return([s EXCEPT !.OSTCBPrioTbl[prio] = NULL], "TASK_NO_MORE_TCB")
    ELSE Return([s EXCEPT !.tcb[t] = [FreeTcb EXCEPT !.OSTCBPrio = prio],
                          !.OSTCBPrioTbl[prio] = t], NONE)

TaskCreateReady(s, prio) == MaybeSched([s EXCEPT !.OSRdy = SetBit(@, prio)])

(* The first critical section of OSTaskDel takes the task off every list   *)
(* and locks the scheduler, the second frees its TCB.                      *)
RemoveFromReadyList(s, t) ==                                             \* mutant
    [Unready(s, t) EXCEPT !.tcb[t].OSTCBDly = 0, !.tcb[t].OSTCBStat = {},
                          !.tcb[t].OSTCBStatPend = "OK"]

RemoveEverywhere(s, t) ==
    LET a == Unready(s, t)
        e == s.tcb[t].OSTCBEventPtr
        b == IF e = NULL THEN a ELSE OS_EventTaskRemove(a, t, e)
        c == OS_EventTaskRemoveMulti(b, t, s.tcb[t].OSTCBEventMultiPtr)
        d == IF s.tcb[t].OSTCBFlagNode = NULL THEN c ELSE OS_FlagUnlink(c, t)
    IN  [d EXCEPT !.tcb[t].OSTCBDly = 0, !.tcb[t].OSTCBStat = {}, !.tcb[t].OSTCBStatPend = "OK"]

OSTaskDel(s, prio) ==
    CASE s.OSIntNesting > 0 -> Return(s, "TASK_DEL_ISR")
      [] prio = OS_TASK_IDLE_PRIO -> Return(s, "TASK_DEL_IDLE")
      [] prio # OS_TASK_IDLE_PRIO /\ NoTaskAt(s, prio) ->
            NoTaskError(s, prio, "TASK_NOT_EXIST", "TASK_DEL")
      [] OTHER -> Return(OSSchedLock(RemoveEverywhere(s, At(s, prio))), NONE)

TaskDelFree(s, t, prio) ==
    MaybeSched([OSSchedUnlock(s) EXCEPT !.OSTCBPrioTbl[prio] = NULL,
                                        !.tcb[t] = FreeTcb,
                                        !.flag.node[t] = NoNode])

OSTaskDelReq(s, prio) ==
    CASE prio = OS_TASK_IDLE_PRIO -> Return(s, "TASK_DEL_IDLE")
      [] prio # OS_TASK_IDLE_PRIO /\ NoTaskAt(s, prio) ->
            NoTaskError(s, prio, "TASK_NOT_EXIST", "TASK_DEL")
      [] OTHER -> Return([s EXCEPT !.tcb[At(s, prio)].OSTCBDelReq = TRUE], NONE)

(* The task keeps its place in whichever lists it is on.  OSPrioCur is     *)
(* left alone, even when a task changes its own priority.                  *)
MoveTask(s, t, newprio) ==
    LET oldprio == PrioOf(s, t)
        Move(list) == SetBit(ClearBit(list, oldprio), newprio)
        events == s.tcb[t].OSTCBEventMultiPtr \cup ({s.tcb[t].OSTCBEventPtr} \ {NULL})
    IN  [s EXCEPT
            !.OSTCBPrioTbl[oldprio] = NULL, !.OSTCBPrioTbl[newprio] = t,
            !.OSRdy = IF oldprio \in @.tbl THEN Move(@) ELSE @,
            !.ecb = [e \in Event |-> IF e \in events THEN [@[e] EXCEPT !.wait = Move(@)]
                                                     ELSE @[e]],
            !.tcb[t].OSTCBPrio = newprio]

OSTaskChangePrio(s, oldprio, newprio) ==
    CASE s.OSTCBPrioTbl[newprio] # NULL -> Return(s, "PRIO_EXIST")
      [] s.OSTCBPrioTbl[newprio] = NULL /\ NoTaskAt(s, oldprio) ->
            NoTaskError(s, oldprio, "PRIO", "TASK_NOT_EXIST")
      [] OTHER -> MaybeSched(MoveTask(s, At(s, oldprio), newprio))

OSTaskSuspend(s, prio) ==
    LET t == At(s, prio)
        n == [Unready(s, t) EXCEPT !.tcb[t].OSTCBStat = @ \cup {"SUSPEND"}]
    IN  CASE prio = OS_TASK_IDLE_PRIO -> Return(s, "TASK_SUSPEND_IDLE")
          [] prio # OS_TASK_IDLE_PRIO /\ NoTaskAt(s, prio) ->
                NoTaskError(s, prio, "TASK_SUSPEND_PRIO", "TASK_NOT_EXIST")
          [] OTHER -> IF prio = PrioOf(s, s.OSTCBCur) THEN ThenSched(n, NONE) ELSE Return(n, NONE)

OSTaskResumeAtOnce(s, prio) ==                                           \* mutant
    LET t == At(s, prio)
        n == [s EXCEPT !.tcb[t].OSTCBStat = @ \ {"SUSPEND"}]
    IN  IF NoTaskAt(s, prio) THEN NoTaskError(s, prio, "TASK_RESUME_PRIO", "TASK_NOT_EXIST")
        ELSE MaybeSched(Ready(n, t))

OSTaskResume(s, prio) ==
    LET t == At(s, prio)
        n == [s EXCEPT !.tcb[t].OSTCBStat = @ \ {"SUSPEND"}]
    IN  CASE NoTaskAt(s, prio) -> NoTaskError(s, prio, "TASK_RESUME_PRIO", "TASK_NOT_EXIST")
          [] ~NoTaskAt(s, prio) /\ "SUSPEND" \notin s.tcb[t].OSTCBStat ->
                Return(s, "TASK_NOT_SUSPENDED")
          [] OTHER -> IF n.tcb[t].OSTCBStat \cap OS_STAT_PEND_ANY = {} /\ n.tcb[t].OSTCBDly = 0
                      THEN MaybeSched(Ready(n, t)) ELSE Return(n, NONE)

-----------------------------------------------------------------------------
(* os_time.c                                                               *)

OSTimeDly(s, ticks) ==
    IF s.OSIntNesting > 0 \/ s.OSLockNesting > 0 \/ ticks = 0 THEN Return(s, NONE)
    ELSE ThenSched([Unready(s, s.OSTCBCur) EXCEPT !.tcb[s.OSTCBCur].OSTCBDly = ticks], NONE)

(* OSTimeDlyHMSM rounds to the nearest tick. *)
DlyTicks(hours, minutes, seconds, ms) ==
    (hours * 3600 + minutes * 60 + seconds) * OS_TICKS_PER_SEC
      + (OS_TICKS_PER_SEC * (ms + 500 \div OS_TICKS_PER_SEC)) \div 1000

OSTimeDlyHMSM(s, hours, minutes, seconds, ms) ==
    CASE s.OSIntNesting > 0  -> Return(s, "TIME_DLY_ISR")
      [] s.OSLockNesting > 0 -> Return(s, "SCHED_LOCKED")
      [] hours = 0 /\ minutes = 0 /\ seconds = 0 /\ ms = 0 -> Return(s, "TIME_ZERO_DLY")
      [] minutes > 59 \/ seconds > 59 \/ ms > 999 -> Return(s, "TIME_INVALID")
      [] OTHER -> OSTimeDly(s, DlyTicks(hours, minutes, seconds, ms))

(* Ends a delay, or a wait with a timeout as if it had run out. *)
ResumedTcb(tcb) ==
    [tcb EXCEPT !.OSTCBDly = 0, !.OSTCBStat = @ \ OS_STAT_PEND_ANY,
                !.OSTCBStatPend = IF tcb.OSTCBStat \cap OS_STAT_PEND_ANY # {} THEN "TO" ELSE "OK"]

OSTimeDlyResume(s, prio) ==
    LET t == At(s, prio)
        n == [s EXCEPT !.tcb[t] = ResumedTcb(@)]
    IN  CASE NoTaskAt(s, prio) -> Return(s, "TASK_NOT_EXIST")
          [] ~NoTaskAt(s, prio) /\ s.tcb[t].OSTCBDly = 0 -> Return(s, "TIME_NOT_DLY")
          [] OTHER -> IF "SUSPEND" \in n.tcb[t].OSTCBStat THEN Return(n, NONE)
                                                         ELSE ThenSched(Ready(n, t), NONE)
=============================================================================
