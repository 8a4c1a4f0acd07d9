------------------------------- MODULE OsSync -------------------------------
(***************************************************************************)
(* os_sem.c and os_mutex.c: counting semaphores, and mutual exclusion      *)
(* semaphores with a priority ceiling; os_q.c and os_mbox.c: queues, and   *)
(* queues of one message; and OSEventPendMulti of os_core.c, which waits   *)
(* for any of several semaphores, mailboxes and queues.                    *)
(***************************************************************************)
EXTENDS OsCore

(***************************************************************************)
(* Semaphores.  OSEventCnt is 16 bits wide in the source; SEM_MAX is its   *)
(* largest value here.                                                     *)
(***************************************************************************)
CONSTANT SEM_MAX

OSSemCreate(s, e, cnt) ==
    NewEvent(s, e, [FreeEcb EXCEPT !.OSEventType = "SEM", !.OSEventCnt = cnt])

OSSemAccept(s, e) ==
    IF s.ecb[e].OSEventCnt > 0 THEN Return([s EXCEPT !.ecb[e].OSEventCnt = @ - 1], NONE)
                               ELSE Return(s, "NOTHING")

OSSemPend(s, e, timeout) ==
    IF s.ecb[e].OSEventCnt > 0 THEN Return([s EXCEPT !.ecb[e].OSEventCnt = @ - 1], NONE)
                               ELSE Pend(s, e, "SEM", timeout)

OSSemPendReturn(s, e) == PendReturn(s, e)

OSSemPostCounting(s, e) ==                                               \* mutant
    LET n == [s EXCEPT !.ecb[e].OSEventCnt = IF @ < SEM_MAX THEN @ + 1 ELSE @]
    IN  IF Waiting(s, e) THEN ThenSched(OS_EventTaskRdy(n, e, NULL, "SEM", "OK"), NONE)
                         ELSE Return(n, NONE)

OSSemPost(s, e) ==
    CASE Waiting(s, e) -> ThenSched(OS_EventTaskRdy(s, e, NULL, "SEM", "OK"), NONE)
      [] ~Waiting(s, e) /\ s.ecb[e].OSEventCnt < SEM_MAX ->
            Return([s EXCEPT !.ecb[e].OSEventCnt = @ + 1], NONE)
      [] OTHER -> Return(s, "SEM_OVF")

OSSemPendAbort(s, e, broadcast) == PendAbort(s, e, "SEM", broadcast)
OSSemDel(s, e, always) == EventDel(s, e, "SEM", always)

OSSemSet(s, e, cnt) ==
    IF s.ecb[e].OSEventCnt > 0 \/ ~Waiting(s, e)
    THEN Return([s EXCEPT !.ecb[e].OSEventCnt = cnt], NONE)
    ELSE Return(s, "TASK_WAITING")

(***************************************************************************)
(* Mutexes.  The two halves of OSEventCnt are kept apart: pcp is the       *)
(* ceiling, NULL for OS_PRIO_MUTEX_CEIL_DIS, OSEventCnt the priority the   *)
(* owner had when it took the mutex, NULL for OS_MUTEX_AVAILABLE;          *)
(* OSEventPtr is the owner.                                                *)
(***************************************************************************)
OSMutexCreate(s, e, prio) ==
    IF prio # NULL /\ s.OSTCBPrioTbl[prio] # NULL THEN Return(s, "PRIO_EXIST")
    ELSE NewEvent(IF prio = NULL THEN s ELSE [s EXCEPT !.OSTCBPrioTbl[prio] = RESERVED],
                  e, [FreeEcb EXCEPT !.OSEventType = "MUTEX", !.OSEventCnt = NULL,
                                     !.pcp = prio])

MutexAvailable(s, e) == s.ecb[e].OSEventCnt = NULL

OwnBy(s, e, t, prio) == [s EXCEPT !.ecb[e].OSEventCnt = prio, !.ecb[e].OSEventPtr = t]

CeilingError(s, e, prio) ==
    IF s.ecb[e].pcp # NULL /\ prio <= s.ecb[e].pcp THEN "PCP_LOWER" ELSE NONE

MutexTake(s, e) ==
    LET prio == PrioOf(s, s.OSTCBCur)
    IN  [Return(OwnBy(s, e, s.OSTCBCur, prio), CeilingError(s, e, prio)) EXCEPT !.val = e]

(* OSMutexAccept does not wait; val tells whether it got the mutex. *)
OSMutexAccept(s, e) == IF MutexAvailable(s, e) THEN MutexTake(s, e) ELSE Return(s, NONE)

(* The owner t of a mutex moves to the ceiling, in the ready table or in   *)
(* the wait list of the event it waits for.                                *)
RaiseOwner(s, t, pcp) ==
    LET rdy     == PrioOf(s, t) \in s.OSRdy.tbl
        pevent2 == s.tcb[t].OSTCBEventPtr
        Move(list) == SetBit(ClearBit(list, PrioOf(s, t)), pcp)
    IN  [s EXCEPT
            !.tcb[t].OSTCBPrio = pcp,
            !.OSTCBPrioTbl[pcp] = t,
            !.OSRdy = IF rdy THEN Move(@) ELSE @,
            !.ecb = IF ~rdy /\ pevent2 # NULL THEN [@ EXCEPT ![pevent2].wait = Move(@)] ELSE @]

InheritNever(s, e) == s                                                  \* mutant
InheritPriority(s, e) ==
    LET ecb == s.ecb[e]
    IN  IF /\ ecb.pcp # NULL
           /\ PrioOf(s, ecb.OSEventPtr) > ecb.pcp
           /\ ecb.OSEventCnt > PrioOf(s, s.OSTCBCur)
        THEN RaiseOwner(s, ecb.OSEventPtr, ecb.pcp)
        ELSE s

OSMutexPend(s, e, timeout) ==
    IF MutexAvailable(s, e) THEN MutexTake(s, e)
                            ELSE Pend(InheritPriority(s, e), e, "MUTEX", timeout)

OSMutexPendReturn(s, e) ==
    LET r == PendReturn(s, e) IN [r EXCEPT !.val = IF r.err = NONE THEN e ELSE NULL]

(* The task goes back to the priority it had, and is made ready there. *)
OSMutex_RdyAtPrio(s, t, prio) ==
    [s EXCEPT !.OSRdy = SetBit(ClearBit(@, PrioOf(s, t)), prio),
              !.tcb[t].OSTCBPrio = prio,
              !.OSPrioCur = prio,
              !.OSTCBPrioTbl[prio] = t]

HandBack(s, e) ==
    LET ecb == s.ecb[e]
        t   == s.OSTCBCur
        n   == IF PrioOf(s, t) = ecb.pcp THEN OSMutex_RdyAtPrio(s, t, ecb.OSEventCnt) ELSE s
    IN  IF ecb.pcp = NULL THEN s ELSE [n EXCEPT !.OSTCBPrioTbl[ecb.pcp] = RESERVED]

OSMutexPostByAnyone(s, e) ==                                             \* mutant
    Return([s EXCEPT !.ecb[e].OSEventCnt = NULL, !.ecb[e].OSEventPtr = NULL], NONE)

OSMutexPost(s, e) ==
    LET n    == HandBack(s, e)
        prio == Highest(n.ecb[e].wait)
    IN  CASE s.OSTCBCur # s.ecb[e].OSEventPtr -> Return(s, "NOT_MUTEX_OWNER")
          [] s.OSTCBCur = s.ecb[e].OSEventPtr /\ Waiting(n, e) ->
                ThenSched(OwnBy(OS_EventTaskRdy(n, e, NULL, "MUTEX", "OK"),
                                e, n.OSTCBPrioTbl[prio], prio),
                          CeilingError(n, e, prio))
          [] OTHER ->
                Return([n EXCEPT !.ecb[e].OSEventCnt = NULL, !.ecb[e].OSEventPtr = NULL], NONE)

(* Only OS_DEL_ALWAYS takes the ceiling away from an owner that has it. *)
OSMutexDel(s, e, always) ==
    LET ecb == s.ecb[e]
        o   == ecb.OSEventPtr
        n   == IF always /\ ecb.pcp # NULL /\ o # NULL /\ PrioOf(s, o) = ecb.pcp
               THEN OSMutex_RdyAtPrio(s, o, ecb.OSEventCnt) ELSE s
        r   == EventDel(n, e, "MUTEX", always)
    IN  IF r.err = NONE /\ ecb.pcp # NULL
        THEN [r EXCEPT !.s.OSTCBPrioTbl[ecb.pcp] = NULL]
        ELSE r

-----------------------------------------------------------------------------
(* Message queues.  An OS_Q is a ring of QSIZE slots; OSQIn and OSQOut     *)
(* count from OSQStart.                                                    *)
CONSTANTS QSIZE, OS_MAX_QS

NewQ == [OSQIn |-> 0, OSQOut |-> 0, OSQEntries |-> 0, ring |-> [i \in 0 .. QSIZE - 1 |-> NULL]]

QueuesInUse(s) == {e \in Event : s.ecb[e].OSEventType = "Q"}

OSQCreate(s, e) ==
    IF Cardinality(QueuesInUse(s)) = OS_MAX_QS THEN Return(s, "NO_Q")
    ELSE NewEvent(s, e, [FreeEcb EXCEPT !.OSEventType = "Q", !.OSEventPtr = NewQ])

Step(i) == IF i + 1 = QSIZE THEN 0 ELSE i + 1
StepBack(i) == IF i = 0 THEN QSIZE - 1 ELSE i - 1

Entries(s, e) == s.ecb[e].OSEventPtr.OSQEntries
FirstMsg(s, e) == LET q == s.ecb[e].OSEventPtr IN q.ring[q.OSQOut]

DropFirst(s, e) ==
    [s EXCEPT !.ecb[e].OSEventPtr.OSQOut = Step(@), !.ecb[e].OSEventPtr.OSQEntries = @ - 1]

OSQAccept(s, e) ==
    IF Entries(s, e) > 0 THEN Deliver(DropFirst(s, e), FirstMsg(s, e)) ELSE Return(s, "Q_EMPTY")

OSQPend(s, e, timeout) ==
    IF Entries(s, e) > 0 THEN Deliver(DropFirst(s, e), FirstMsg(s, e))
                         ELSE Pend(s, e, "Q", timeout)

OSQPendReturn(s, e) == PendReturn(s, e)

QStoreUnchecked(s, e, msg, front) ==                                     \* mutant
    LET q == s.ecb[e].OSEventPtr
    IN  Return([s EXCEPT !.ecb[e].OSEventPtr =
                    [q EXCEPT !.ring[q.OSQIn] = msg, !.OSQIn = Step(@),
                              !.OSQEntries = IF @ < QSIZE THEN @ + 1 ELSE @]], NONE)

QStore(s, e, msg, front) ==
    LET q == s.ecb[e].OSEventPtr
        n == IF front
             THEN [q EXCEPT !.OSQOut = StepBack(@), !.ring[StepBack(q.OSQOut)] = msg,
                            !.OSQEntries = @ + 1]
             ELSE [q EXCEPT !.OSQIn = Step(@), !.ring[q.OSQIn] = msg, !.OSQEntries = @ + 1]
    IN  IF q.OSQEntries >= QSIZE THEN Return(s, "Q_FULL")
                                 ELSE Return([s EXCEPT !.ecb[e].OSEventPtr = n], NONE)

QHandOver(s, e, msg) == ThenSched(OS_EventTaskRdy(s, e, msg, "Q", "OK"), NONE)

OSQPost(s, e, msg) ==
    IF Waiting(s, e) THEN QHandOver(s, e, msg) ELSE QStore(s, e, msg, FALSE)

OSQPostFront(s, e, msg) ==
    IF Waiting(s, e) THEN QHandOver(s, e, msg) ELSE QStore(s, e, msg, TRUE)

(* opt is a set of "BROADCAST", "FRONT" and "NO_SCHED". *)
OSQPostOpt(s, e, msg, opt) ==
    LET n == IF "BROADCAST" \in opt THEN OS_EventTaskRdyAll(s, e, msg, "Q", "OK")
                                    ELSE OS_EventTaskRdy(s, e, msg, "Q", "OK")
    IN  CASE ~Waiting(s, e) -> QStore(s, e, msg, "FRONT" \in opt)
          [] Waiting(s, e) /\ "NO_SCHED" \in opt -> Return(n, NONE)
          [] OTHER -> ThenSched(n, NONE)

OSQFlush(s, e) ==
    Return([s EXCEPT !.ecb[e].OSEventPtr.OSQIn = 0, !.ecb[e].OSEventPtr.OSQOut = 0,
                     !.ecb[e].OSEventPtr.OSQEntries = 0], NONE)

OSQPendAbort(s, e, broadcast) == PendAbort(s, e, "Q", broadcast)
OSQDel(s, e, always) == EventDel(s, e, "Q", always)

-----------------------------------------------------------------------------
(* OSEventPendMulti.                                                       *)

MultiRefused(s, events) ==
    CASE \E e \in events : s.ecb[e].OSEventType \notin {"SEM", "MBOX", "Q"} -> "EVENT_TYPE"
      [] s.OSIntNesting > 0  -> "PEND_ISR"
      [] s.OSLockNesting > 0 -> "PEND_LOCKED"
      [] OTHER -> NONE

HasSomething(ecb) ==
    CASE ecb.OSEventType = "SEM"  -> ecb.OSEventCnt > 0
      [] ecb.OSEventType = "MBOX" -> ecb.OSEventPtr # NULL
      [] ecb.OSEventType = "Q"    -> ecb.OSEventPtr.OSQEntries > 0

(* Every event that has something gives it at once. *)
TakeFrom(ecb) ==
    CASE ecb.OSEventType = "SEM"  -> [ecb EXCEPT !.OSEventCnt = @ - 1]
      [] ecb.OSEventType = "MBOX" -> [ecb EXCEPT !.OSEventPtr = NULL]
      [] ecb.OSEventType = "Q"    -> [ecb EXCEPT !.OSEventPtr.OSQOut = Step(@),
                                                 !.OSEventPtr.OSQEntries = @ - 1]

OSEventPendMulti(s, events, timeout) ==
    LET t   == s.OSTCBCur
        rdy == {e \in events : HasSomething(s.ecb[e])}
    IN  IF rdy # {}
        THEN [Return([s EXCEPT !.ecb = [e \in Event |-> IF e \in rdy THEN TakeFrom(@[e]) ELSE @[e]]],
                     NONE) EXCEPT !.val = rdy]
        ELSE Block(OS_EventTaskWaitMulti(
                [s EXCEPT
                    !.tcb[t].OSTCBStat =
                        @ \cup {s.ecb[e].OSEventType : e \in events} \cup {"MULTI"},
                    !.tcb[t].OSTCBStatPend = "OK",
                    !.tcb[t].OSTCBDly = timeout], events))

OSEventPendMultiReturn(s, events) ==
    LET t    == s.OSTCBCur
        tcb  == s.tcb[t]
        stat == IF tcb.OSTCBEventPtr = NULL THEN "TO" ELSE tcb.OSTCBStatPend
        n    == IF stat = "TO" THEN OS_EventTaskRemoveMulti(s, t, events) ELSE s
    IN  [s    |-> [n EXCEPT !.tcb[t].OSTCBStat = {}, !.tcb[t].OSTCBStatPend = "OK",
                            !.tcb[t].OSTCBEventPtr = NULL, !.tcb[t].OSTCBEventMultiPtr = {},
                            !.tcb[t].OSTCBMsg = NULL],
         err  |-> CASE stat = "OK" -> NONE [] stat = "ABORT" -> "ABORT" [] stat = "TO" -> "TIMEOUT",
         val  |-> IF stat = "OK" THEN {tcb.OSTCBEventPtr} ELSE {},
         then |-> "return"]

-----------------------------------------------------------------------------
(* os_mbox.c: a mailbox holds one message, in OSEventPtr. *)

OSMboxCreate(s, e, msg) ==
    NewEvent(s, e, [FreeEcb EXCEPT !.OSEventType = "MBOX", !.OSEventPtr = msg])

OSMboxAccept(s, e) ==
    Deliver([s EXCEPT !.ecb[e].OSEventPtr = NULL], s.ecb[e].OSEventPtr)

OSMboxPend(s, e, timeout) ==
    IF s.ecb[e].OSEventPtr # NULL THEN OSMboxAccept(s, e) ELSE Pend(s, e, "MBOX", timeout)

OSMboxPendReturn(s, e) == PendReturn(s, e)

MboxStore(s, e, msg) ==
    IF s.ecb[e].OSEventPtr # NULL THEN Return(s, "MBOX_FULL")
                                  ELSE Return([s EXCEPT !.ecb[e].OSEventPtr = msg], NONE)

OSMboxPost(s, e, msg) ==
    IF Waiting(s, e) THEN ThenSched(OS_EventTaskRdy(s, e, msg, "MBOX", "OK"), NONE)
                     ELSE MboxStore(s, e, msg)

(* opt is a set of "BROADCAST" and "NO_SCHED". *)
OSMboxPostOpt(s, e, msg, opt) ==
    LET n == IF "BROADCAST" \in opt THEN OS_EventTaskRdyAll(s, e, msg, "MBOX", "OK")
                                    ELSE OS_EventTaskRdy(s, e, msg, "MBOX", "OK")
    IN  CASE ~Waiting(s, e) -> MboxStore(s, e, msg)
          [] Waiting(s, e) /\ "NO_SCHED" \in opt -> Return(n, NONE)
          [] OTHER -> ThenSched(n, NONE)

OSMboxPendAbort(s, e, broadcast) == PendAbort(s, e, "MBOX", broadcast)
OSMboxDel(s, e, always) == EventDel(s, e, "MBOX", always)
=============================================================================
