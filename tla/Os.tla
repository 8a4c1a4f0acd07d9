--------------------------------- MODULE Os ---------------------------------
(***************************************************************************)
(* uC/OS-II at work on one CPU (the RISC-V port): tasks that call kernel   *)
(* services, a clock tick and other interrupts, and the software interrupt *)
(* that switches tasks.                                                    *)
(*                                                                         *)
(* A service is one or more critical sections, each of them one step of    *)
(* the task that runs.  Between two steps an interrupt may come; its       *)
(* handler runs with interrupts disabled, so it is one step as a whole.    *)
(* OSCtxSw and OSIntCtxSw only raise the software interrupt (msip); no     *)
(* instruction of the task that is switched out follows until it is back.  *)
(*                                                                         *)
(* What the application does is a parameter: Setup gives, by the name of   *)
(* a scenario, the objects that main creates, and the calls each task and  *)
(* the interrupt handlers make, in any order.                              *)
(***************************************************************************)
EXTENDS OsSync, OsTask, Integers, Sequences

CONSTANTS
    Message,        \* the messages that are posted
    Scenarios,      \* names of scenarios
    Setup           \* a record for each of them

ASSUME ApplicationAssumption ==
    /\ NULL \notin Message /\ SEM_MAX \in Nat /\ QSIZE \in Nat \ {0}
    /\ OS_TICKS_PER_SEC \in Nat \ {0}

VARIABLES
    scenario,
    os,             \* the kernel's globals
    frame,          \* where each task is: [at, call]
    held,           \* history: the mutexes each task has taken and not given back
    credit          \* history: what each event owes: permits or messages

vars == <<scenario, os, frame, held, credit>>

App == [at |-> "app", call |-> NULL]

(* The task that executes instructions. *)
Runs(t) == os.OSRunning /\ os.OSTCBCur = t /\ ~os.msip

-----------------------------------------------------------------------------
(* History.                                                                *)

IsMutex(e) == os.ecb[e].OSEventType = "MUTEX"

(* A call that ended with r took e, or gave it back. *)
HeldAfter(t, c, r) ==
    CASE c.op \in {"MutexPend", "MutexAccept"} /\ r.val # NULL -> held \cup {<<t, c.e>>}
      [] c.op = "MutexPost" /\ r.err # "NOT_MUTEX_OWNER" -> held \ {<<t, c.e>>}
      [] c.op = "MutexDel" /\ r.err = NONE -> {h \in held : h[2] # c.e}
      [] OTHER -> held

(* How many tasks c hands its message or permit to, counting the event     *)
(* itself when nobody waits.                                               *)
Receivers(s, c) ==
    IF "opt" \in DOMAIN c /\ "BROADCAST" \in c.opt /\ Waiting(s, c.e)
    THEN Cardinality(s.ecb[c.e].wait.tbl) ELSE 1

Posts == {"SemPost", "MboxPost", "MboxPostOpt", "QPost", "QPostFront", "QPostOpt"}
Takes == {"SemPend", "SemAccept", "MboxPend", "MboxAccept", "QPend", "QAccept"}

GotIt(c, r) == r.err = NONE /\ (c.op \in {"SemPend", "SemAccept"} \/ r.val # NULL)

(* What an event holds. *)
Contents(ecb) ==
    CASE ecb.OSEventType = "SEM"  -> ecb.OSEventCnt
      [] ecb.OSEventType = "MBOX" -> IF ecb.OSEventPtr = NULL THEN 0 ELSE 1
      [] ecb.OSEventType = "Q"    -> ecb.OSEventPtr.OSQEntries
      [] OTHER -> 0

CreditAfter(s, c, r) ==
    CASE c.op \in Posts /\ r.err = NONE -> [credit EXCEPT ![c.e] = @ + Receivers(s, c)]
      [] c.op \in Takes /\ GotIt(c, r)  -> [credit EXCEPT ![c.e] = @ - 1]
      [] c.op = "PendMulti" /\ r.err = NONE ->
            [e \in Event |-> IF e \in r.val THEN credit[e] - 1 ELSE credit[e]]
      [] c.op \in {"QFlush", "SemSet", "SemDel", "MboxDel", "QDel", "SemCreate", "MboxCreate"} ->
            [credit EXCEPT ![c.e] = @ + Contents(r.s.ecb[c.e]) - Contents(s.ecb[c.e])]
      [] OTHER -> credit

(* The tasks that have been given e but have not run since. *)
Granted(e) ==
    {t \in Task :
       /\ frame[t].at \in {"block", "resume"}
       /\ os.tcb[t].OSTCBStatPend = "OK"
       /\ IF frame[t].call.op = "PendMulti" THEN os.tcb[t].OSTCBEventPtr = e
          ELSE /\ frame[t].call.op \in {"SemPend", "MboxPend", "QPend"}
               /\ frame[t].call.e = e /\ os.tcb[t].OSTCBEventPtr = NULL}

-----------------------------------------------------------------------------
(* Steps of the running task.                                              *)

Calls(t, op) == {c \in Setup[scenario].calls[t] : c.op = op}

(* What the application may do: it does not wait for a mutex it has, nor   *)
(* lock the scheduler twice; unless Setup says ownersBlock it neither      *)
(* waits nor delays itself while it has a mutex.                           *)
Sensible(t, c) ==
    /\ c.op \in {"MutexPend", "MutexAccept"} => <<t, c.e>> \notin held
    /\ c.op = "SchedLock" => os.OSLockNesting = 0
    /\ c.op \in {"TimeDly", "TimeDlyHMSM", "SemPend"} /\ ~Setup[scenario].ownersBlock =>
          \A h \in held : h[1] # t

(* The checks each service makes before its critical section. *)
Refused(s, c) ==
    CASE c.op = "SemPend"   -> PendRefused(s, c.e, "SEM")
      [] c.op = "MutexPend" -> PendRefused(s, c.e, "MUTEX")
      [] c.op = "MboxPend"  -> PendRefused(s, c.e, "MBOX")
      [] c.op = "QPend"     -> PendRefused(s, c.e, "Q")
      [] c.op = "PendMulti" -> MultiRefused(s, c.events)
      [] c.op = "FlagPend"  -> FlagPendRefused(s, c.g)
      [] c.op = "SemDel"    -> DelRefused(s, c.e, "SEM")
      [] c.op = "MutexDel"  -> DelRefused(s, c.e, "MUTEX")
      [] c.op = "MboxDel"   -> DelRefused(s, c.e, "MBOX")
      [] c.op = "QDel"      -> DelRefused(s, c.e, "Q")
      [] c.op = "FlagDel"   -> FlagDelRefused(s, c.g)
      [] c.op \in {"SemAccept", "SemPost", "SemPendAbort", "SemSet"} -> TypeRefused(s, c.e, "SEM")
      [] c.op \in {"MutexAccept", "MutexPost"} -> DelRefused(s, c.e, "MUTEX")
      [] c.op \in {"MboxAccept", "MboxPost", "MboxPostOpt", "MboxPendAbort"} ->
            TypeRefused(s, c.e, "MBOX")
      [] c.op \in {"QAccept", "QPost", "QPostFront", "QPostOpt", "QFlush", "QPendAbort"} ->
            TypeRefused(s, c.e, "Q")
      [] c.op \in {"FlagAccept", "FlagPost"} -> FlagTypeRefused(s, c.g)
      [] c.op \in {"SemCreate", "MutexCreate", "MboxCreate", "QCreate", "FlagCreate"} ->
            CreateRefused(s)
      [] OTHER -> NONE

(* Where Setup says split, other tasks can run between the checks and the  *)
(* critical section.                                                       *)
Enters(t, c) ==
    /\ Runs(t)
    /\ \/ frame[t].at = "app" /\ ~Setup[scenario].split
          /\ Sensible(t, c) /\ Refused(os, c) = NONE
       \/ frame[t].at = "enter" /\ frame[t].call = c

FrameAfter(c, r) ==
    CASE r.then = "return" -> App
      [] r.then = "sched"  -> [at |-> "sched", call |-> c]
      [] r.then = "block"  -> [at |-> "block", call |-> c]

Finish(t, c, r) ==
    /\ os' = r.s
    /\ frame' = [frame EXCEPT ![t] = FrameAfter(c, r)]
    /\ held' = HeldAfter(t, c, r)
    /\ credit' = IF r.then = "block" THEN credit ELSE CreditAfter(os, c, r)
    /\ UNCHANGED scenario

Service(t, c, r) == Enters(t, c) /\ Finish(t, c, r)

(* The checks on their own; a call that is refused comes back at once. *)
Check(t) ==
    /\ Setup[scenario].split /\ Runs(t) /\ frame[t].at = "app"
    /\ \E c \in Setup[scenario].calls[t] :
          /\ Sensible(t, c) /\ Refused(os, c) = NONE
          /\ frame' = [frame EXCEPT ![t] = [at |-> "enter", call |-> c]]
    /\ UNCHANGED <<scenario, os, held, credit>>

SemPend(t)   == \E c \in Calls(t, "SemPend")   : Service(t, c, OSSemPend(os, c.e, c.timeout))
SemAccept(t) == \E c \in Calls(t, "SemAccept") : Service(t, c, OSSemAccept(os, c.e))
SemPost(t)   == \E c \in Calls(t, "SemPost")   : Service(t, c, OSSemPost(os, c.e))
SemSet(t)    == \E c \in Calls(t, "SemSet")    : Service(t, c, OSSemSet(os, c.e, c.cnt))
SemDel(t)    == \E c \in Calls(t, "SemDel")    : Service(t, c, OSSemDel(os, c.e, c.always))
SemPendAbort(t) ==
    \E c \in Calls(t, "SemPendAbort") : Service(t, c, OSSemPendAbort(os, c.e, c.broadcast))
SemCreate(t) ==
    \E c \in Calls(t, "SemCreate") :
        c.e \in OSEventFreeList(os) /\ Service(t, c, OSSemCreate(os, c.e, c.cnt))

MutexPend(t)   == \E c \in Calls(t, "MutexPend") : Service(t, c, OSMutexPend(os, c.e, c.timeout))
MutexAccept(t) == \E c \in Calls(t, "MutexAccept") : Service(t, c, OSMutexAccept(os, c.e))
MutexPost(t)   == \E c \in Calls(t, "MutexPost") : Service(t, c, OSMutexPost(os, c.e))
MutexDel(t)    == \E c \in Calls(t, "MutexDel") : Service(t, c, OSMutexDel(os, c.e, c.always))
MutexCreate(t) ==
    \E c \in Calls(t, "MutexCreate") :
        c.e \in OSEventFreeList(os) /\ Service(t, c, OSMutexCreate(os, c.e, c.prio))

MboxPend(t)   == \E c \in Calls(t, "MboxPend") : Service(t, c, OSMboxPend(os, c.e, c.timeout))
MboxAccept(t) == \E c \in Calls(t, "MboxAccept") : Service(t, c, OSMboxAccept(os, c.e))
MboxPost(t)   == \E c \in Calls(t, "MboxPost") : Service(t, c, OSMboxPost(os, c.e, c.msg))
MboxDel(t)    == \E c \in Calls(t, "MboxDel") : Service(t, c, OSMboxDel(os, c.e, c.always))
MboxPostOpt(t) ==
    \E c \in Calls(t, "MboxPostOpt") : Service(t, c, OSMboxPostOpt(os, c.e, c.msg, c.opt))
MboxPendAbort(t) ==
    \E c \in Calls(t, "MboxPendAbort") : Service(t, c, OSMboxPendAbort(os, c.e, c.broadcast))
MboxCreate(t) ==
    \E c \in Calls(t, "MboxCreate") :
        c.e \in OSEventFreeList(os) /\ Service(t, c, OSMboxCreate(os, c.e, c.msg))

QPend(t)      == \E c \in Calls(t, "QPend")   : Service(t, c, OSQPend(os, c.e, c.timeout))
QAccept(t)    == \E c \in Calls(t, "QAccept") : Service(t, c, OSQAccept(os, c.e))
QPost(t)      == \E c \in Calls(t, "QPost")   : Service(t, c, OSQPost(os, c.e, c.msg))
QPostFront(t) == \E c \in Calls(t, "QPostFront") : Service(t, c, OSQPostFront(os, c.e, c.msg))
QPostOpt(t)   == \E c \in Calls(t, "QPostOpt") : Service(t, c, OSQPostOpt(os, c.e, c.msg, c.opt))
QFlush(t)     == \E c \in Calls(t, "QFlush")  : Service(t, c, OSQFlush(os, c.e))
QDel(t)       == \E c \in Calls(t, "QDel")    : Service(t, c, OSQDel(os, c.e, c.always))
QPendAbort(t) ==
    \E c \in Calls(t, "QPendAbort") : Service(t, c, OSQPendAbort(os, c.e, c.broadcast))
QCreate(t) ==
    \E c \in Calls(t, "QCreate") :
        c.e \in OSEventFreeList(os) /\ Service(t, c, OSQCreate(os, c.e))

PendMulti(t) ==
    \E c \in Calls(t, "PendMulti") : Service(t, c, OSEventPendMulti(os, c.events, c.timeout))

FlagPend(t)   == \E c \in Calls(t, "FlagPend") : Service(t, c, OSFlagPend(os, c.g, c.wait, c.timeout))
FlagAccept(t) == \E c \in Calls(t, "FlagAccept") : Service(t, c, OSFlagAccept(os, c.g, c.wait))
FlagPost(t)   == \E c \in Calls(t, "FlagPost") : Service(t, c, OSFlagPost(os, c.g, c.flags, c.set))
FlagDel(t)    == \E c \in Calls(t, "FlagDel") : Service(t, c, OSFlagDel(os, c.g, c.always))
FlagCreate(t) == \E c \in Calls(t, "FlagCreate") : Service(t, c, OSFlagCreate(os, c.flags))

-----------------------------------------------------------------------------
(* Tasks.                                                                  *)

TaskDelReq(t) == \E c \in Calls(t, "TaskDelReq") : Service(t, c, OSTaskDelReq(os, c.prio))
TaskSuspend(t) == \E c \in Calls(t, "TaskSuspend") : Service(t, c, OSTaskSuspend(os, c.prio))
TaskResume(t) == \E c \in Calls(t, "TaskResume") : Service(t, c, OSTaskResume(os, c.prio))
TaskChangePrio(t) ==
    \E c \in Calls(t, "TaskChangePrio") : Service(t, c, OSTaskChangePrio(os, c.prio, c.newprio))
TimeDly(t) == \E c \in Calls(t, "TimeDly") : Service(t, c, OSTimeDly(os, c.ticks))
TimeDlyHMSM(t) ==
    \E c \in Calls(t, "TimeDlyHMSM") :
        Service(t, c, OSTimeDlyHMSM(os, c.hours, c.minutes, c.seconds, c.ms))
TimeDlyResume(t) ==
    \E c \in Calls(t, "TimeDlyResume") : Service(t, c, OSTimeDlyResume(os, c.prio))
SchedLock(t) == \E c \in Calls(t, "SchedLock") : Service(t, c, Return(OSSchedLock(os), NONE))
SchedUnlock(t) ==
    \E c \in Calls(t, "SchedUnlock") :
        LET n == OSSchedUnlock(os)
        IN  Service(t, c, IF os.OSLockNesting = 1 THEN ThenSched(n, NONE) ELSE Return(n, NONE))

(* A service of several critical sections goes on from one to the next,    *)
(* with what it has kept in its local variables, unless the first failed.  *)
Goto(t, at, c, r) ==
    /\ os' = r.s
    /\ frame' = [frame EXCEPT ![t] = IF r.err = NONE THEN [at |-> at, call |-> c] ELSE App]
    /\ UNCHANGED <<scenario, held, credit>>

TaskCreate(t) ==
    \E c \in Calls(t, "TaskCreate") : Enters(t, c) /\ Goto(t, "create_tcb", c, OSTaskCreate(os, c.prio))
TaskCreate_TCBInit(t) ==
    LET c == frame[t].call
        free == OSTCBFreeList(os)
    IN  /\ Runs(t) /\ frame[t].at = "create_tcb"
        /\ \E new \in IF free = {} THEN {NULL} ELSE free :
              Goto(t, "create_ready", c, TaskCreateTcb(os, c.prio, new))
TaskCreate_Ready(t) ==
    LET c == frame[t].call
    IN  Runs(t) /\ frame[t].at = "create_ready" /\ Finish(t, c, TaskCreateReady(os, c.prio))

(* A task that is deleted has no frame any more: what it had been given is *)
(* gone with it, and the one that deletes itself never comes back.         *)
TaskDel(t) ==
    \E c \in Calls(t, "TaskDel") :
        /\ Enters(t, c)
        /\ LET d == At(os, c.prio)
               r == OSTaskDel(os, c.prio)
           IN  /\ os' = r.s
               /\ frame' = IF r.err # NONE THEN [frame EXCEPT ![t] = App]
                           ELSE [frame EXCEPT ![d] = App,
                                              ![t] = [at |-> "del_free", call |-> c, tcb |-> d]]
               /\ credit' = [e \in Event |-> IF d \in Granted(e) THEN credit[e] - 1 ELSE credit[e]]
        /\ UNCHANGED <<scenario, held>>
TaskDel_Free(t) ==
    /\ Runs(t) /\ frame[t].at = "del_free"
    /\ Finish(t, frame[t].call, TaskDelFree(os, frame[t].tcb, frame[t].call.prio))

-----------------------------------------------------------------------------
(* The kernel.                                                             *)

Sched(t) ==
    /\ Runs(t) /\ frame[t].at \in {"sched", "block"}
    /\ os' = OS_Sched(os)
    /\ frame' = [frame EXCEPT ![t] = IF @.at = "sched" THEN App ELSE [@ EXCEPT !.at = "resume"]]
    /\ UNCHANGED <<scenario, held, credit>>

(* A task that has waited runs again. *)
Resumes(t, op, r) ==
    /\ Runs(t) /\ frame[t].at = "resume" /\ frame[t].call.op = op
    /\ os' = r.s
    /\ frame' = [frame EXCEPT ![t] = App]
    /\ held' = HeldAfter(t, frame[t].call, r)
    /\ credit' = CreditAfter(os, frame[t].call, r)
    /\ UNCHANGED scenario

SemPendReturn(t)   == Resumes(t, "SemPend", OSSemPendReturn(os, frame[t].call.e))
MutexPendReturn(t) == Resumes(t, "MutexPend", OSMutexPendReturn(os, frame[t].call.e))
MboxPendReturn(t)  == Resumes(t, "MboxPend", OSMboxPendReturn(os, frame[t].call.e))
QPendReturn(t)     == Resumes(t, "QPend", OSQPendReturn(os, frame[t].call.e))
PendMultiReturn(t) == Resumes(t, "PendMulti", OSEventPendMultiReturn(os, frame[t].call.events))
FlagPendReturn(t)  ==
    Resumes(t, "FlagPend", OSFlagPendReturn(os, frame[t].call.g, frame[t].call.wait))

Switch ==
    /\ os.msip
    /\ os' = ContextSwitch(os)
    /\ UNCHANGED <<scenario, frame, held, credit>>

(* The clock tick, from the entry of its handler to the return. *)
Tick ==
    /\ os.OSRunning
    /\ \E s \in {OSTimeTick(OSIntEnter(os))} : os' = OSIntExit(s)
    /\ UNCHANGED <<scenario, frame, held, credit>>

FromIsr(s, c) ==
    CASE c.op = "SemPost"    -> OSSemPost(s, c.e)
      [] c.op = "MboxPost"   -> OSMboxPost(s, c.e, c.msg)
      [] c.op = "QPost"      -> OSQPost(s, c.e, c.msg)
      [] c.op = "FlagPost"   -> OSFlagPost(s, c.g, c.flags, c.set)

(* The handler of another interrupt, which calls one service. *)
Interrupt ==
    /\ os.OSRunning
    /\ \E c \in Setup[scenario].isr :
          LET s == OSIntEnter(os)
              r == FromIsr(s, c)
          IN  /\ Refused(s, c) = NONE
              /\ os' = OSIntExit(r.s)
              /\ credit' = CreditAfter(os, c, r)
    /\ UNCHANGED <<scenario, frame, held>>

-----------------------------------------------------------------------------
(* main() initialises the kernel and creates the objects and tasks of the  *)
(* scenario, in the order Setup lists them, and starts the first task.     *)

Created(s, c) ==
    CASE c.op = "SemCreate"   -> OSSemCreate(s, c.e, c.cnt).s
      [] c.op = "MutexCreate" -> OSMutexCreate(s, c.e, c.prio).s
      [] c.op = "MboxCreate"  -> OSMboxCreate(s, c.e, c.msg).s
      [] c.op = "QCreate"     -> OSQCreate(s, c.e).s
      [] c.op = "FlagCreate"  -> OSFlagCreate(s, c.flags).s
      [] c.op = "TaskCreate"  ->
            TaskCreateReady(TaskCreateTcb(OSTaskCreate(s, c.prio).s, c.prio, c.tcb).s, c.prio).s

Booted(sc) ==
    LET main == Setup[sc].main
        after[n \in 0 .. Len(main)] ==
            IF n = 0 THEN [OSInit EXCEPT !.flag = OS_FlagInit] ELSE Created(after[n - 1], main[n])
    IN  after[Len(main)]

Init ==
    /\ scenario \in Scenarios
    /\ os = Booted(scenario)
    /\ frame = [t \in Tcb |-> App]
    /\ held = {}
    /\ credit = [e \in Event |-> Contents(os.ecb[e])]

OS_Start ==
    /\ ~os.OSRunning
    /\ os' = OSStart(os)
    /\ UNCHANGED <<scenario, frame, held, credit>>

SemCall(t) ==
    \/ SemPend(t) \/ SemAccept(t) \/ SemPost(t) \/ SemSet(t) \/ SemDel(t) \/ SemPendAbort(t)
    \/ SemCreate(t)

MutexCall(t) ==
    \/ MutexPend(t) \/ MutexAccept(t) \/ MutexPost(t) \/ MutexDel(t) \/ MutexCreate(t)

MboxCall(t) ==
    \/ MboxPend(t) \/ MboxAccept(t) \/ MboxPost(t) \/ MboxPostOpt(t) \/ MboxDel(t)
    \/ MboxPendAbort(t) \/ MboxCreate(t)

QCall(t) ==
    \/ QPend(t) \/ QAccept(t) \/ QPost(t) \/ QPostFront(t) \/ QPostOpt(t) \/ QFlush(t)
    \/ QDel(t) \/ QPendAbort(t) \/ QCreate(t) \/ PendMulti(t)

FlagCall(t) ==
    \/ FlagPend(t) \/ FlagAccept(t) \/ FlagPost(t) \/ FlagDel(t) \/ FlagCreate(t)

TaskCall(t) ==
    \/ TaskCreate(t) \/ TaskDel(t) \/ TaskDelReq(t)
    \/ TaskSuspend(t) \/ TaskResume(t) \/ TaskChangePrio(t)
    \/ TimeDly(t) \/ TimeDlyHMSM(t) \/ TimeDlyResume(t) \/ SchedLock(t) \/ SchedUnlock(t)

Call(t) ==
    Check(t) \/ SemCall(t) \/ MutexCall(t) \/ MboxCall(t) \/ QCall(t) \/ FlagCall(t) \/ TaskCall(t)

(* A task goes on with a service it is in the middle of. *)
Continue(t) ==
    \/ Sched(t)
    \/ SemPendReturn(t) \/ MutexPendReturn(t) \/ MboxPendReturn(t) \/ QPendReturn(t)
    \/ PendMultiReturn(t) \/ FlagPendReturn(t)
    \/ TaskCreate_TCBInit(t) \/ TaskCreate_Ready(t) \/ TaskDel_Free(t)

Next == OS_Start \/ Switch \/ Tick \/ Interrupt \/ \E t \in Task : Call(t) \/ Continue(t)

Spec == Init /\ [][Next]_vars

-----------------------------------------------------------------------------
(* A scenario whose tasks and handlers signal each other with semaphores,  *)
(* mailboxes and queues, share what mutexes without a ceiling protect,     *)
(* delay, suspend and resume, and lock the scheduler, all on objects main  *)
(* creates: what the theorems of OsProofs are about.                       *)

PendOps == {"SemPend", "MutexPend", "MboxPend", "QPend"}

PlainCall ==
    [op : PendOps, e : Event, timeout : Nat]
      \cup [op : {"SemAccept", "SemPost", "MutexAccept", "MutexPost", "MboxAccept", "QAccept",
              "QFlush"}, e : Event]
      \cup [op : {"SemSet"}, e : Event, cnt : Nat]
      \cup [op : {"SemPendAbort", "MboxPendAbort", "QPendAbort"}, e : Event, broadcast : BOOLEAN]
      \cup [op : {"MboxPost", "QPost", "QPostFront"}, e : Event, msg : Message]
      \cup [op : {"MboxPostOpt", "QPostOpt"}, e : Event, msg : Message,
            opt : SUBSET {"BROADCAST", "FRONT"}]
      \cup [op : {"TimeDly"}, ticks : Nat]
      \cup [op : {"TimeDlyHMSM"}, hours : Nat, minutes : Nat, seconds : Nat, ms : Nat]
      \cup [op : {"TaskSuspend", "TaskResume", "TimeDlyResume"}, prio : Prio]
      \cup [op : {"SchedLock", "SchedUnlock"}]

Creation ==
    [op : {"TaskCreate"}, tcb : Task, prio : Prio \ {OS_TASK_IDLE_PRIO}]
      \cup [op : {"SemCreate"}, e : Event, cnt : Nat]
      \cup [op : {"MutexCreate"}, e : Event, prio : {NULL}]
      \cup [op : {"MboxCreate"}, e : Event, msg : Message \cup {NULL}]
      \cup [op : {"QCreate"}, e : Event]

CreatedApart(main) ==
    \A i, j \in 1 .. Len(main) : i # j =>
        IF main[i].op = "TaskCreate"
        THEN main[j].op = "TaskCreate" => main[i].tcb # main[j].tcb /\ main[i].prio # main[j].prio
        ELSE main[j].op # "TaskCreate" => main[i].e # main[j].e

Signalling(sc) ==
    /\ Setup[sc].main \in Seq(Creation) /\ CreatedApart(Setup[sc].main)
    /\ Setup[sc].split \in BOOLEAN
    /\ \A t \in Task : Setup[sc].calls[t] \subseteq PlainCall
    /\ \A c \in Setup[sc].isr : c \in PlainCall /\ c.op \in {"SemPost", "MboxPost", "QPost"}

-----------------------------------------------------------------------------
(* Properties.                                                             *)

(* The fields of the kernel hold what their declarations say. *)
TypeOK ==
    /\ os.OSTCBCur \in Tcb \cup {NULL} /\ os.OSTCBHighRdy \in Tcb \cup {NULL}
    /\ os.OSPrioCur \in Prio /\ os.OSPrioHighRdy \in Prio
    /\ os.OSRdy.tbl \subseteq Prio
    /\ \A p \in Prio : os.OSTCBPrioTbl[p] \in Tcb \cup {NULL, RESERVED}
    /\ \A t \in Tcb : /\ os.tcb[t].OSTCBDly \in Nat
                      /\ os.tcb[t].OSTCBPrio \in Prio \cup {NULL}
                      /\ os.tcb[t].OSTCBStat \subseteq OS_STAT_PEND_ANY \cup {"SUSPEND", "MULTI"}
    /\ \A e \in Event : os.ecb[e].wait.tbl \subseteq Prio
    /\ os.OSLockNesting \in 0 .. 2 /\ os.OSIntNesting = 0

(* A task some other task is creating or deleting at the moment. *)
InTransit(t) ==
    \E u \in Task : \/ frame[u].at = "create_ready" /\ frame[u].call.prio = PrioOf(os, t)
                    \/ frame[u].at = "del_free" /\ frame[u].tcb = t

Settled == {t \in LiveTcbs(os) : ~InTransit(t)}
OnList(t, e) == PrioOf(os, t) \in os.ecb[e].wait.tbl

(* Fields keep to their declarations, the group byte of every bit list says*)
(* which of its rows have bits, each bit of the ready table is a task's,   *)
(* the priority table finds the TCB of every task, and the wait lists and  *)
(* the TCBs say the same of who waits.                                     *)
ListsAgree ==
    /\ TypeOK
    /\ \A list \in {os.OSRdy} \cup {os.ecb[e].wait : e \in Event} :
          list.grp = {Y(p) : p \in list.tbl}
    /\ \A p \in os.OSRdy.tbl : \E t \in LiveTcbs(os) : PrioOf(os, t) = p
    /\ \A t \in LiveTcbs(os) : os.OSTCBPrioTbl[PrioOf(os, t)] = t
    /\ \A e \in Event : \A p \in os.ecb[e].wait.tbl :
          \E t \in LiveTcbs(os) :
             /\ PrioOf(os, t) = p
             /\ os.tcb[t].OSTCBEventPtr = e \/ e \in os.tcb[t].OSTCBEventMultiPtr
             /\ frame[t].at \in {"block", "resume"}

(* What a task can be waiting for. *)
WaitsForEvent(t) == \E e \in Event : OnList(t, e)
WaitsForFlags(t) == os.tcb[t].OSTCBFlagNode # NULL
Runnable(t) ==
    /\ "SUSPEND" \notin os.tcb[t].OSTCBStat
    /\ os.tcb[t].OSTCBDly = 0
    /\ WaitsForEvent(t) \/ WaitsForFlags(t) => os.tcb[t].OSTCBStatPend = "TO"

(* A task is in the ready table exactly when nothing holds it up: a task   *)
(* that is not ready is delayed or suspended, or is on a list where a post *)
(* will find it.                                                           *)
ReadyIffRunnable ==
    \A t \in Settled : PrioOf(os, t) \in os.OSRdy.tbl <=> Runnable(t)

(* No permit and no message is lost or doubled: what was posted and not    *)
(* taken is in the event or on its way to a task, whatever timeouts,       *)
(* aborts and interrupts come in between.                                  *)
NothingLost ==
    \A e \in Event : credit[e] = Contents(os.ecb[e]) + Cardinality(Granted(e))

(* No two tasks have the same mutex, and the one that has it is the owner. *)
MutualExclusion ==
    \A h \in held : /\ IsMutex(h[2]) => os.ecb[h[2]].OSEventPtr = h[1]
                    /\ \A k \in held : k[2] = h[2] => k = h

(* While a task waits for a mutex whose owner had a lower priority, the    *)
(* owner has the ceiling priority.                                         *)
OwnerInherits ==
    \A e \in Event : \A t \in LiveTcbs(os) :
        /\ IsMutex(e) /\ os.ecb[e].pcp # NULL /\ os.ecb[e].OSEventPtr # NULL
        /\ OnList(t, e) /\ os.ecb[e].OSEventCnt > PrioOf(os, t)
        => PrioOf(os, os.ecb[e].OSEventPtr) = os.ecb[e].pcp

(* Whenever the running task is in its own code and the scheduler is not   *)
(* locked, no ready task has a higher priority.                            *)
HighestRuns ==
    \A t \in Task :
        Runs(t) /\ frame[t].at = "app" /\ os.OSLockNesting = 0
        => \A p \in os.OSRdy.tbl : PrioOf(os, t) <= p

(* A task on the wait list of a group of flags is one whose flags, if it   *)
(* wants them set, are not there: no post has passed it by.  One that      *)
(* wants them clear may find them clear, as a waiter that consumes set     *)
(* flags wakes nobody.                                                     *)
FlagWaitersUnsatisfied ==
    \A t \in Task :
        /\ os.tcb[t].OSTCBFlagNode # NULL /\ os.tcb[t].OSTCBStatPend = "OK"
        /\ Node(os, t).set
        => ~Satisfied(Grp(os, Node(os, t).grp).OSFlagFlags, Node(os, t))

(* The waiters of a group are doubly linked from its head, and the groups  *)
(* that are not in use are those on the free list.                         *)
Linked(g) == {t \in Task : os.tcb[t].OSTCBFlagNode # NULL /\ Node(os, t).grp = g}

FreeGroups ==
    LET at[i \in 0 .. Cardinality(FlagGrp)] ==
            IF i = 0 THEN os.flag.free
            ELSE IF at[i - 1] \in FlagGrp THEN Grp(os, at[i - 1]).OSFlagWaitList ELSE NULL
    IN  {at[i] : i \in DOMAIN at} \ {NULL}

FlagListsWhole ==
    /\ \A g \in FlagGrp : Grp(os, g).OSFlagType = "FLAG" =>
          /\ Grp(os, g).OSFlagWaitList = NULL <=> Linked(g) = {}
          /\ \A t \in Linked(g) :
                LET prev == Node(os, t).prev
                    next == Node(os, t).next
                IN  /\ IF prev = NULL THEN Grp(os, g).OSFlagWaitList = t
                       ELSE prev \in Linked(g) /\ Node(os, prev).next = t
                    /\ next # NULL => next \in Linked(g) /\ Node(os, next).prev = t
    /\ FreeGroups = {g \in FlagGrp : Grp(os, g).OSFlagType = "UNUSED"}

(* The ring buffers are the sequences of messages the queues promise.      *)
QueueMsgs(e) ==
    LET q == os.ecb[e].OSEventPtr
    IN  IF os.ecb[e].OSEventType = "Q"
        THEN [i \in 1 .. q.OSQEntries |-> q.ring[(q.OSQOut + i - 1) % QSIZE]] ELSE <<>>

Abstract == INSTANCE MessageQueues
                WITH Queue <- Event, Size <- QSIZE,
                     queue <- [e \in Event |-> QueueMsgs(e)]

ImplementsQueues == Abstract!Spec

-----------------------------------------------------------------------------
(* The software interrupt and the tick come, and a task that runs gets on  *)
(* with a kernel service it is in the middle of.  Nothing is assumed of    *)
(* the program: a task may stay in its own code for ever.                  *)
Fairness ==
    /\ WF_vars(OS_Start) /\ WF_vars(Switch) /\ WF_vars(Tick)
    /\ \A t \in Task : WF_vars(Continue(t))

FairSpec == Spec /\ Fairness

(* A wait with a timeout comes to an end, unless the task is suspended, the*)
(* scheduler is locked or a task of a higher priority is ready.            *)
HeldOff(t) ==
    \/ "SUSPEND" \in os.tcb[t].OSTCBStat
    \/ os.OSLockNesting > 0
    \/ t \in LiveTcbs(os) /\ \E p \in os.OSRdy.tbl : p < PrioOf(os, t)

TimedWaitEnds ==
    \A t \in Task :
        (frame[t].at \in {"block", "resume"} /\ frame[t].call.timeout > 0)
            ~> (frame[t].at = "app" \/ HeldOff(t))
=============================================================================
