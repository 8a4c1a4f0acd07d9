-------------------------------- MODULE MCOs --------------------------------
(***************************************************************************)
(* Scenarios for Os.  The timers, the memory partitions and the library's  *)
(* numbers and texts, which share no state with the rest of the kernel, are*)
(* the subject of behaviours of their own.                                 *)
(***************************************************************************)
EXTENDS Os, OsTmr, OsMem, LibStrings

CONSTANTS t1, t2, t3, e1, e2, e3, g1, g2, m1, m2

SP(e, n)   == [op |-> "SemPend", e |-> e, timeout |-> n]
MP(e, n)   == [op |-> "MutexPend", e |-> e, timeout |-> n]
Simple(op, e) == [op |-> op, e |-> e]
Post(op, e, m) == [op |-> op, e |-> e, msg |-> m]
Abort(op, e, b) == [op |-> op, e |-> e, broadcast |-> b]
Dly(n) == [op |-> "TimeDly", ticks |-> n]
NewTask(t, p) == [op |-> "TaskCreate", tcb |-> t, prio |-> p]

Tasks3 == <<NewTask(t1, 1), NewTask(t2, 2), NewTask(t3, 3)>>
Calls3(a, b, c) == [t \in Tcb |-> CASE t = t1 -> a [] t = t2 -> b [] t = t3 -> c [] OTHER -> {}]

SemSetup ==
    [main  |-> Tasks3 \o <<[op |-> "SemCreate", e |-> e1, cnt |-> 0]>>,
     split |-> TRUE, ownersBlock |-> TRUE,
     calls |-> Calls3({SP(e1, 1), Dly(1)},
                      {SP(e1, 0), SP(e1, 2), Simple("SemAccept", e1),
                       [op |-> "TimeDlyHMSM", hours |-> 0, minutes |-> 0, seconds |-> 0, ms |-> 1]},
                      {Simple("SemPost", e1), Abort("SemPendAbort", e1, FALSE),
                       Abort("SemPendAbort", e1, TRUE),
                       [op |-> "SemSet", e |-> e1, cnt |-> 2]}),
     isr   |-> {Simple("SemPost", e1)}]

(* Owners may block; nobody gives up waiting for the mutex. *)
MutexSetup ==
    [main  |-> Tasks3 \o <<[op |-> "MutexCreate", e |-> e1, prio |-> 0],
                           [op |-> "SemCreate", e |-> e2, cnt |-> 0]>>,
     split |-> FALSE, ownersBlock |-> TRUE,
     calls |-> Calls3({MP(e1, 0), Simple("MutexPost", e1), Dly(1)},
                      {MP(e1, 0), Simple("MutexPost", e1), SP(e2, 0)},
                      {Simple("MutexAccept", e1), MP(e1, 0), Simple("MutexPost", e1), SP(e2, 0)}),
     isr   |-> {Simple("SemPost", e2)}]

(* A mutex without a ceiling; waits for it may end. *)
MutexTimeoutSetup ==
    [main  |-> Tasks3 \o <<[op |-> "MutexCreate", e |-> e1, prio |-> NULL]>>,
     split |-> TRUE, ownersBlock |-> TRUE,
     calls |-> Calls3({MP(e1, 1), MP(e1, 2), Simple("MutexPost", e1), Dly(1)},
                      {MP(e1, 1), Simple("MutexPost", e1), Dly(2)},
                      {Simple("MutexAccept", e1), Simple("MutexPost", e1), Dly(2)}),
     isr   |-> {}]

Put(op, e, m, opt) == [op |-> op, e |-> e, msg |-> m, opt |-> opt]

MboxSetup ==
    [main  |-> Tasks3 \o <<[op |-> "MboxCreate", e |-> e1, msg |-> m1]>>,
     split |-> TRUE, ownersBlock |-> TRUE,
     calls |-> Calls3({[op |-> "MboxPend", e |-> e1, timeout |-> 1], Dly(1)},
                      {[op |-> "MboxPend", e |-> e1, timeout |-> 0],
                       Simple("MboxAccept", e1), Dly(1)},
                      {Post("MboxPost", e1, m1), Put("MboxPostOpt", e1, m2, {"BROADCAST"}),
                       Put("MboxPostOpt", e1, m2, {}), Abort("MboxPendAbort", e1, FALSE)}),
     isr   |-> {Post("MboxPost", e1, m2)}]

QSetup ==
    [main  |-> Tasks3 \o <<[op |-> "QCreate", e |-> e1]>>,
     split |-> FALSE, ownersBlock |-> TRUE,
     calls |-> Calls3({[op |-> "QPend", e |-> e1, timeout |-> 1], Dly(1)},
                      {[op |-> "QPend", e |-> e1, timeout |-> 0], Simple("QAccept", e1), Dly(1)},
                      {Post("QPost", e1, m1), Post("QPostFront", e1, m2), Simple("QFlush", e1),
                       Put("QPostOpt", e1, m2, {"BROADCAST"}), Put("QPostOpt", e1, m1, {"FRONT"}),
                       Abort("QPendAbort", e1, FALSE)}),
     isr   |-> {Post("QPost", e1, m2)}]

(* One task waits for several events at once. *)
MultiSetup ==
    [main  |-> Tasks3 \o <<[op |-> "QCreate", e |-> e1], [op |-> "SemCreate", e |-> e2, cnt |-> 0],
                           [op |-> "MboxCreate", e |-> e3, msg |-> NULL]>>,
     split |-> FALSE, ownersBlock |-> TRUE,
     calls |-> Calls3({[op |-> "PendMulti", events |-> {e1, e2}, timeout |-> 1], Dly(1)},
                      {[op |-> "PendMulti", events |-> {e1, e2, e3}, timeout |-> 0], SP(e2, 1)},
                      {Post("QPost", e1, m1), Simple("SemPost", e2), Post("MboxPost", e3, m1)}),
     isr   |-> {Simple("SemPost", e2), Post("MboxPost", e3, m2)}]

For(flags, set, all, consume) == [flags |-> flags, set |-> set, all |-> all, consume |-> consume]
FP(g, w, n) == [op |-> "FlagPend", g |-> g, wait |-> w, timeout |-> n]
FPost(g, flags, set) == [op |-> "FlagPost", g |-> g, flags |-> flags, set |-> set]

FlagSetup ==
    [main  |-> Tasks3 \o <<[op |-> "FlagCreate", flags |-> {}]>>,
     split |-> FALSE, ownersBlock |-> TRUE,
     calls |-> Calls3({FP(g1, For({0, 1}, TRUE, TRUE, TRUE), 1), Dly(1),
                       FP(g1, For({1}, FALSE, FALSE, FALSE), 0)},
                      {FP(g1, For({0, 1}, TRUE, FALSE, TRUE), 0),
                       [op |-> "FlagAccept", g |-> g1, wait |-> For({0}, TRUE, TRUE, TRUE)]},
                      {FPost(g1, {0}, TRUE), FPost(g1, {1}, TRUE), FPost(g1, {1}, FALSE)}),
     isr   |-> {FPost(g1, {1}, TRUE)}]

(* A manager of the highest priority creates and deletes the others ...    *)
On(op, p) == [op |-> op, prio |-> p]
TaskSetup ==
    [main  |-> <<NewTask(t1, 1), NewTask(t2, 2), [op |-> "SemCreate", e |-> e1, cnt |-> 0],
                 [op |-> "FlagCreate", flags |-> {}]>>,
     split |-> FALSE, ownersBlock |-> TRUE,
     calls |-> Calls3({On("TaskDel", 2), On("TaskCreate", 2), On("TaskCreate", 3),
                       On("TaskDelReq", 2), Dly(1)},
                      {SP(e1, 1), FP(g1, For({0}, TRUE, TRUE, TRUE), 0), On("TaskDel", 2)},
                      {SP(e1, 0), [op |-> "SchedLock"], [op |-> "SchedUnlock"]}),
     isr   |-> {Simple("SemPost", e1), FPost(g1, {0}, TRUE)}]

(* ... or suspends, resumes and moves them.                                *)
SuspendSetup ==
    [main  |-> <<NewTask(t1, 1), NewTask(t2, 2), [op |-> "SemCreate", e |-> e1, cnt |-> 0],
                 [op |-> "FlagCreate", flags |-> {}]>>,
     split |-> FALSE, ownersBlock |-> TRUE,
     calls |-> Calls3({On("TaskSuspend", 2), On("TaskResume", 2), On("TimeDlyResume", 2),
                       [op |-> "TaskChangePrio", prio |-> 2, newprio |-> 3],
                       [op |-> "TaskChangePrio", prio |-> 3, newprio |-> 2], Dly(1)},
                      {SP(e1, 0), SP(e1, 1), Dly(2), FP(g1, For({0}, TRUE, TRUE, TRUE), 1),
                       On("TaskSuspend", 2)},
                      {}),
     isr   |-> {Simple("SemPost", e1), FPost(g1, {0}, TRUE)}]

Del(op, e, always) == [op |-> op, e |-> e, always |-> always]

(* The task of the lowest priority deletes and creates what the others use.*)
DelSetup ==
    [main  |-> Tasks3 \o <<[op |-> "SemCreate", e |-> e1, cnt |-> 0], [op |-> "QCreate", e |-> e2]>>,
     split |-> FALSE, ownersBlock |-> TRUE,
     calls |-> Calls3({SP(e1, 1), SP(e1, 0), Dly(1)},
                      {[op |-> "QPend", e |-> e2, timeout |-> 1],
                       [op |-> "MboxPend", e |-> e2, timeout |-> 1], Simple("MboxAccept", e2),
                       Dly(1)},
                      {Del("SemDel", e1, TRUE), [op |-> "SemCreate", e |-> e1, cnt |-> 1],
                       Del("QDel", e2, FALSE), Del("QDel", e2, TRUE), Del("MboxDel", e2, TRUE),
                       [op |-> "MboxCreate", e |-> e2, msg |-> NULL], Simple("QCreate", e2),
                       Post("QPost", e2, m1)}),
     isr   |-> {Simple("SemPost", e1)}]

(* The owner of a mutex deletes it; it never blocks while it has it. *)
MutexDelSetup ==
    [main  |-> Tasks3 \o <<[op |-> "MutexCreate", e |-> e1, prio |-> 0], [op |-> "SemCreate", e |-> e2, cnt |-> 0]>>,
     split |-> FALSE, ownersBlock |-> FALSE,
     calls |-> Calls3({MP(e1, 0), MP(e1, 1), Simple("MutexPost", e1), SP(e2, 0)},
                      {MP(e1, 0), MP(e1, 1), Simple("MutexPost", e1), SP(e2, 0)},
                      {MP(e1, 0), Del("MutexDel", e1, TRUE),
                       [op |-> "MutexCreate", e |-> e1, prio |-> 0]}),
     isr   |-> {Simple("SemPost", e2)}]

(* Flag groups come and go while nobody waits. *)
FlagDelSetup ==
    [main  |-> Tasks3,
     split |-> FALSE, ownersBlock |-> TRUE,
     calls |-> Calls3({FP(g1, For({0}, TRUE, TRUE, TRUE), 1), Dly(1)},
                      {FP(g2, For({0}, TRUE, TRUE, TRUE), 0), Dly(1)},
                      {[op |-> "FlagCreate", flags |-> {}], FPost(g1, {0}, TRUE),
                       [op |-> "FlagDel", g |-> g1, always |-> FALSE],
                       [op |-> "FlagDel", g |-> g2, always |-> FALSE]}),
     isr   |-> {FPost(g2, {0}, TRUE)}]

(* Scenarios of their own runs: a group is deleted while a task waits, ... *)
FlagDelAlways ==
    [main  |-> Tasks3 \o <<[op |-> "FlagCreate", flags |-> {}]>>,
     split |-> FALSE, ownersBlock |-> TRUE,
     calls |-> Calls3({FP(g1, For({0}, TRUE, TRUE, TRUE), 0), Dly(1)},
                      {FP(g1, For({0}, TRUE, TRUE, TRUE), 0), Dly(1)},
                      {[op |-> "FlagDel", g |-> g1, always |-> TRUE]}),
     isr   |-> {}]

(* ... the owner of a mutex blocks while a waiter gives up, ...            *)
CeilingTimeout ==
    [MutexSetup EXCEPT !.calls[t1] = {MP(e1, 1), Simple("MutexPost", e1), Dly(1)}]

(* ... an owner that waits with a timeout inherits, ...                    *)
OwnerTimeout ==
    [MutexSetup EXCEPT !.calls[t2] = {MP(e1, 0), Simple("MutexPost", e1), SP(e2, 1)}]

(* ... and a task is suspended while it waits for several events.          *)
MultiSuspend ==
    [MultiSetup EXCEPT !.calls[t1] = {On("TaskSuspend", 2), On("TaskResume", 2), Dly(1)}]

MCSetup == [sem |-> SemSetup, mutex |-> MutexSetup, mutexto |-> MutexTimeoutSetup,
            mbox |-> MboxSetup, q |-> QSetup, multi |-> MultiSetup, flag |-> FlagSetup,
            task |-> TaskSetup, suspend |-> SuspendSetup, del |-> DelSetup, mutexdel |-> MutexDelSetup,
            flagdel |-> FlagDelSetup,
            flagdelalways |-> FlagDelAlways, ceilingtimeout |-> CeilingTimeout,
            ownertimeout |-> OwnerTimeout, multisuspend |-> MultiSuspend]
MCFlagDel == {"flagdelalways"}
MCCeiling == {"ceilingtimeout"}
MCOwner == {"ownertimeout"}
MCMulti == {"multisuspend"}
MCScenarios == DOMAIN MCSetup \ (MCFlagDel \cup MCCeiling \cup MCOwner \cup MCMulti)

(* The theorems of OsProofs are about scenarios like these. *)
ASSUME SignallingScenarios == \A sc \in {"sem", "mutexto", "mbox", "q"} : Signalling(sc)

MCKind == {[dly |-> 2, period |-> 0, opt |-> "ONE_SHOT"],
           [dly |-> 1, period |-> 2, opt |-> "PERIODIC"]}

MCArea == {{1, 2, 3}, {4, 5}}

MCText == BoundedSeq({SPACE, MINUS, 0, 7, 15, LETTER_X}, 4)

VARIABLE subject

(* The other parts stay as they are initialised. *)
MCInit ==
    /\ subject \in {"kernel", "timers", "partitions", "numbers", "texts"}
    /\ Init /\ TmrInit /\ MemInit /\ NumbersInit /\ StringsInit
    /\ subject # "kernel" => scenario = "sem"

Only(part) ==
    /\ subject = part /\ UNCHANGED subject
    /\ part # "kernel" => UNCHANGED vars
    /\ part # "timers" => UNCHANGED tmrVars
    /\ part # "partitions" => UNCHANGED memVars
    /\ part # "numbers" => UNCHANGED numberVars
    /\ part # "texts" => UNCHANGED cells

MCNext ==
    \/ Only("kernel") /\ Next
    \/ Only("timers") /\ TmrNext
    \/ Only("partitions") /\ MemNext
    \/ Only("numbers") /\ NumbersNext
    \/ Only("texts") /\ StringsNext

mcVars == <<vars, tmrVars, memVars, numberVars, cells, subject>>

(* Liveness is asked of the kernel alone. *)
MCSpec == MCInit /\ [][MCNext]_mcVars /\ (subject = "kernel" => Fairness)
=============================================================================
