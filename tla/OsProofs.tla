------------------------------ MODULE OsProofs ------------------------------
(***************************************************************************)
(* Proofs about the kernel at work, module Os: in a scenario whose tasks   *)
(* and interrupt handlers signal each other (Signalling) the lists of the  *)
(* kernel agree, the ready table holds the tasks that can run, no permit   *)
(* and no message is lost, the messages of a queue keep their order, the   *)
(* highest ready task runs, and no two tasks have the same mutex.          *)
(*                                                                         *)
(* The invariant has four parts.  ListsOK relates the ready table, the     *)
(* wait lists and the TCBs to what each task is doing; SchedOK relates the *)
(* scheduler's fields to the ready table, and says what may be left of it  *)
(* to do; CreditOK balances the history of posts and takes; OwnersOK says  *)
(* that who took a mutex is the owner its event names.  A service is shown *)
(* to keep the lists whoever calls it, then what it adds to its event, and *)
(* only then as a step of a task or of an interrupt handler.               *)
(* Along with the invariant it is shown that a step moves one ring at most *)
(* (QueuesMove): that is what the order of messages needs.                 *)
(***************************************************************************)
EXTENDS Os, FiniteSetTheorems, SequenceTheorems, TLAPS

SemOps  == {"SemPend", "SemAccept", "SemPost", "SemSet", "SemPendAbort"}
MutexOps == {"MutexPend", "MutexAccept", "MutexPost"}
MboxOps == {"MboxPend", "MboxAccept", "MboxPost", "MboxPostOpt", "MboxPendAbort"}
QOps    == {"QPend", "QAccept", "QPost", "QPostFront", "QPostOpt", "QFlush", "QPendAbort"}

(* What a task only does while the scheduler is not locked.                *)
UnlockedOps == PendOps \cup {"SchedLock"}

(* The type of event an operation is for. *)
TypeFor(op) ==
    CASE op \in SemOps -> "SEM" [] op \in MutexOps -> "MUTEX" [] op \in MboxOps -> "MBOX" [] OTHER -> "Q"
EventOps == SemOps \cup MutexOps \cup MboxOps \cup QOps

-----------------------------------------------------------------------------
(* What the fields of the kernel hold.                                     *)

(* A bit list whose group byte is right. *)
Bits == [grp : SUBSET Nat, tbl : SUBSET Prio]
Agrees(list) == list \in Bits /\ list.grp = {Y(p) : p \in list.tbl}

(* A task control block: no flags, one event at a time. *)
TcbType ==
    [OSTCBPrio : Prio \cup {NULL}, OSTCBStat : SUBSET {"SUSPEND", "SEM", "MUTEX", "MBOX", "Q"},
     OSTCBStatPend : {"OK", "TO", "ABORT"}, OSTCBDly : Nat,
     OSTCBEventPtr : Event \cup {NULL}, OSTCBEventMultiPtr : {{}},
     OSTCBMsg : Message \cup {NULL}, OSTCBFlagNode : {NULL}, OSTCBFlagsRdy : {{}},
     OSTCBDelReq : BOOLEAN]

(* A queue's ring buffer. *)
Ring(q) ==
    /\ q \in [OSQIn : 0 .. QSIZE - 1, OSQOut : 0 .. QSIZE - 1, OSQEntries : 0 .. QSIZE,
              ring : [0 .. QSIZE - 1 -> Message \cup {NULL}]]
    /\ q.OSQIn = (q.OSQOut + q.OSQEntries) % QSIZE
    /\ \A i \in 0 .. q.OSQEntries - 1 : q.ring[(q.OSQOut + i) % QSIZE] \in Message

(* What an event control block holds, by its type. *)
EcbOK(ecb) ==
    /\ DOMAIN ecb = {"OSEventType", "OSEventCnt", "OSEventPtr", "pcp", "wait"}
    /\ Agrees(ecb.wait) /\ ecb.OSEventType \in {"UNUSED", "SEM", "MUTEX", "MBOX", "Q"}
    /\ ecb.OSEventType = "SEM" => ecb.OSEventCnt \in Nat
    /\ ecb.OSEventType = "MUTEX" => /\ ecb.pcp = NULL /\ ecb.OSEventPtr \in Task \cup {NULL}
                                    /\ ecb.OSEventCnt = NULL => ecb.OSEventPtr = NULL
    /\ ecb.OSEventType = "MBOX" => ecb.OSEventPtr \in Message \cup {NULL}
    /\ ecb.OSEventType = "Q" => Ring(ecb.OSEventPtr)
    /\ ecb.OSEventType = "UNUSED" => ecb.wait = NoBits

KernelType(s) ==
    /\ DOMAIN s = {"OSRunning", "OSIntNesting", "OSLockNesting", "OSPrioCur", "OSPrioHighRdy",
                   "OSTCBCur", "OSTCBHighRdy", "OSRdy", "OSTCBPrioTbl", "tcb", "ecb", "msip", "flag"}
    /\ s.OSRunning \in BOOLEAN /\ s.msip \in BOOLEAN
    /\ s.OSIntNesting \in Nat /\ s.OSLockNesting \in 0 .. 1
    /\ s.OSPrioCur \in Prio /\ s.OSPrioHighRdy \in Prio
    /\ s.OSTCBCur \in Tcb \cup {NULL} /\ s.OSTCBHighRdy \in Tcb \cup {NULL}
    /\ Agrees(s.OSRdy)
    /\ s.OSTCBPrioTbl \in [Prio -> Tcb \cup {NULL}]
    /\ s.tcb \in [Tcb -> TcbType]
    /\ DOMAIN s.ecb = Event /\ \A e \in Event : EcbOK(s.ecb[e])

(* What holds a task up. *)
WaitsFor(s, t) == s.tcb[t].OSTCBEventPtr
StillWaits(s, t) == WaitsFor(s, t) # NULL /\ s.tcb[t].OSTCBStatPend # "TO"
Stopped(s, t) == "SUSPEND" \in s.tcb[t].OSTCBStat
Asleep(f, t) == f[t].at \in {"block", "resume"}

(* Priorities and tasks are in one-to-one correspondence.                  *)
TablesOK(s) ==
    /\ \A t \in Tcb : PrioOf(s, t) # NULL => s.OSTCBPrioTbl[PrioOf(s, t)] = t
    /\ \A p \in Prio : s.OSTCBPrioTbl[p] # NULL => PrioOf(s, s.OSTCBPrioTbl[p]) = p
    /\ PrioOf(s, Idle) = OS_TASK_IDLE_PRIO

(* A task that a mutex was handed to while it waited is its owner.         *)
Owns(s, f, t) ==
    /\ Asleep(f, t) /\ f[t].call.op = "MutexPend" /\ WaitsFor(s, t) = NULL
    /\ s.tcb[t].OSTCBStatPend = "OK"
    => s.ecb[f[t].call.e].OSEventPtr = t

(* A task's entry in the tables and its TCB agree. *)
TaskOK(s, f, t) ==
    LET tcb == s.tcb[t] IN
    /\ tcb.OSTCBPrio = NULL => tcb = FreeTcb
    /\ \A e \in Event : tcb.OSTCBPrio # NULL =>
          (tcb.OSTCBPrio \in s.ecb[e].wait.tbl <=> tcb.OSTCBEventPtr = e)
    /\ tcb.OSTCBStat \ {"SUSPEND"} =
          IF StillWaits(s, t) THEN {s.ecb[tcb.OSTCBEventPtr].OSEventType} ELSE {}
    /\ tcb.OSTCBPrio # NULL =>
          (tcb.OSTCBPrio \in s.OSRdy.tbl <=> ~Stopped(s, t) /\ tcb.OSTCBDly = 0 /\ ~StillWaits(s, t))
    /\ tcb.OSTCBEventPtr # NULL => tcb.OSTCBStatPend # "ABORT" /\ Asleep(f, t)
    /\ tcb.OSTCBEventPtr = NULL => tcb.OSTCBStatPend # "TO"
    /\ Asleep(f, t) /\ ~StillWaits(s, t) => tcb.OSTCBDly = 0
    /\ ~Asleep(f, t) => tcb.OSTCBStatPend = "OK"
    /\ Asleep(f, t) =>
          /\ tcb.OSTCBEventPtr \in {f[t].call.e, NULL}
          /\ tcb.OSTCBEventPtr = NULL /\ tcb.OSTCBStatPend = "OK" /\ f[t].call.op \in {"MboxPend", "QPend"} =>
                tcb.OSTCBMsg \in Message
    /\ Owns(s, f, t)

(* Every bit of a list is the priority of a task. *)
BitsTasks(s) ==
    /\ \A p \in s.OSRdy.tbl : s.OSTCBPrioTbl[p] # NULL
    /\ \A e \in Event : \A p \in s.ecb[e].wait.tbl : s.OSTCBPrioTbl[p] \in Task

(* The calls in progress. *)
CallOK(s, c) == c \in PlainCall /\ (c.op \in EventOps => s.ecb[c.e].OSEventType = TypeFor(c.op))
FrameOK(s, f) ==
    /\ DOMAIN f = Tcb
    /\ \A t \in Tcb : /\ \/ f[t] = App
                         \/ /\ f[t] \in [at : {"enter", "sched", "block", "resume"}, call : PlainCall]
                            /\ CallOK(s, f[t].call)
                      /\ Asleep(f, t) => f[t].call.op \in PendOps
                      /\ PrioOf(s, t) = NULL => f[t] = App
    /\ f[Idle] = App

(* The lists, and everything they are related to. *)
ListsOK(s, f) ==
    /\ KernelType(s) /\ TablesOK(s) /\ BitsTasks(s) /\ FrameOK(s, f)
    /\ \A t \in Tcb : TaskOK(s, f, t)
    /\ s.tcb[Idle] = [FreeTcb EXCEPT !.OSTCBPrio = OS_TASK_IDLE_PRIO]

(* Who runs, and who is to run. *)
SchedOK(s, f) ==
    /\ s.OSIntNesting = 0
    /\ ~s.OSRunning => /\ s.OSLockNesting = 0 /\ ~s.msip /\ s.OSTCBCur = NULL
                       /\ f = [t \in Tcb |-> App]
    /\ s.OSRunning => /\ s.OSTCBCur \in Tcb /\ PrioOf(s, s.OSTCBCur) = s.OSPrioCur
    /\ s.msip => /\ s.OSLockNesting = 0 /\ s.OSPrioHighRdy = Highest(s.OSRdy)
                 /\ s.OSTCBHighRdy = s.OSTCBPrioTbl[s.OSPrioHighRdy]
    /\ s.OSLockNesting > 0 =>
          ~Asleep(f, s.OSTCBCur) /\ ~(f[s.OSTCBCur].at = "enter" /\ f[s.OSTCBCur].call.op \in UnlockedOps)
    /\ s.OSRunning /\ ~s.msip /\ s.OSLockNesting = 0 /\ f[s.OSTCBCur].at \notin {"sched", "block"} =>
          s.OSPrioCur = Highest(s.OSRdy)

(* What the history owes is what the event holds and what is on its way to *)
(* the tasks it was granted to.                                            *)
GrantedIn(s, f, e) ==
    {t \in Task : /\ Asleep(f, t) /\ f[t].call.op # "MutexPend" /\ f[t].call.e = e
                  /\ WaitsFor(s, t) = NULL /\ s.tcb[t].OSTCBStatPend = "OK"}
Count(s, f, e) == Contents(s.ecb[e]) + Cardinality(GrantedIn(s, f, e))
CreditOK(s, f, k) == k \in [Event -> Int] /\ \A e \in Event : k[e] = Count(s, f, e)

(* Who has a mutex, as the history tells it, is its owner.                 *)
OwnersOK(s, h) ==
    \A x \in h : /\ x \in Task \X Event
                 /\ s.ecb[x[2]].OSEventType = "MUTEX" /\ s.ecb[x[2]].OSEventPtr = x[1]

KernelInv ==
    /\ ListsOK(os, frame) /\ SchedOK(os, frame) /\ CreditOK(os, frame, credit)
    /\ OwnersOK(os, held)

(* A set of natural numbers that is not empty has a least element.         *)
LEMMA Least ==
  ASSUME NEW S \in SUBSET Nat, S # {}
  PROVE  \E n \in S : \A m \in S : n <= m
<1> DEFINE Upto(n) == 1 .. n
           T == {Upto(n) : n \in S}
<1>1. T \subseteq FiniteSubsetsOf(Nat)
  <2>1. \A n \in Nat : IsFiniteSet(1 .. n)
    BY FS_Interval
  <2> QED
    BY <2>1 DEF FiniteSubsetsOf
<1>2. T # {}
  OBVIOUS
<1> HIDE DEF T
<1>3. PICK x \in T : \A y \in T : ~(<<y, x>> \in StrictSubsetOrdering(Nat))
  BY <1>1, <1>2, FS_StrictSubsetOrderingWellFounded, WFMin
<1>4. PICK n \in S : x = Upto(n)
  BY DEF T
<1>5. ASSUME NEW m \in S, m < n
      PROVE  FALSE
  <2>1. Upto(m) \subseteq Upto(n) /\ Upto(m) # Upto(n)
          /\ Upto(m) \in SUBSET Nat /\ Upto(n) \in SUBSET Nat
    BY <1>5
  <2>2. <<Upto(m), Upto(n)>> \in StrictSubsetOrdering(Nat)
    BY <2>1 DEF StrictSubsetOrdering
  <2> QED
    BY <2>2, <1>3, <1>4 DEF T
<1> QED
  BY <1>5

(* A priority is its row and its column: OS_TCBInit and OS_Sched take it   *)
(* apart and put it together.                                              *)
LEMMA DivMod ==
  ASSUME NEW p \in Nat
  PROVE  /\ Y(p) \in Nat /\ X(p) \in 0 .. COLS - 1
         /\ p = Y(p) * COLS + X(p)
BY KernelAssumption DEF X, Y

(* A lower row, or in one row a lower column, is a lower priority number. *)
LEMMA DivMono ==
  ASSUME NEW p \in Nat, NEW q \in Nat
  PROVE  /\ Y(p) < Y(q) => p < q
         /\ Y(p) = Y(q) => (X(p) <= X(q) <=> p <= q)
BY KernelAssumption DEF X, Y

(* OSUnMapTbl finds the lowest bit that is set. *)
LEMMA LowestBit ==
  ASSUME NEW S \in SUBSET Nat, S # {}
  PROVE  OSUnMapTbl(S) \in S /\ \A m \in S : OSUnMapTbl(S) <= m
BY Least DEF OSUnMapTbl

(* OSRdyGrp and then a row of OSRdyTbl lead to the highest priority of a   *)
(* list that is not empty.                                                 *)
LEMMA HighestIs ==
  ASSUME NEW list, Agrees(list), list.tbl # {}
  PROVE  Highest(list) \in list.tbl /\ \A p \in list.tbl : Highest(list) <= p
<1>1. list.tbl \subseteq Nat
  BY KernelAssumption DEF Agrees, Bits, Prio
<1>2. list.grp \subseteq Nat /\ list.grp # {}
  BY DEF Agrees, Bits
<1>3. PICK y : y = OSUnMapTbl(list.grp)
  OBVIOUS
<1>4. y \in list.grp /\ \A z \in list.grp : y <= z
  BY <1>2, <1>3, LowestBit
<1>5. PICK xs : xs = {X(p) : p \in Row(list, y)}
  OBVIOUS
<1>6. xs \subseteq Nat /\ xs # {}
  <2>1. \A p \in Row(list, y) : X(p) \in Nat
    BY <1>1, DivMod DEF Row
  <2>2. Row(list, y) # {}
    BY <1>4 DEF Row, Agrees
  <2> QED
    BY <1>5, <2>1, <2>2
<1>7. PICK h \in Row(list, y) : X(h) = OSUnMapTbl(xs)
  BY <1>5, <1>6, LowestBit
<1>8. h \in list.tbl /\ Y(h) = y /\ h \in Nat
  BY <1>1, <1>7 DEF Row
<1>9. Highest(list) = h
  BY <1>3, <1>5, <1>7, <1>8, DivMod DEF Highest
<1>10. ASSUME NEW p \in list.tbl PROVE h <= p
  <2>1. p \in Nat /\ Y(p) \in Nat /\ Y(p) \in list.grp /\ y <= Y(p)
    BY <1>1, <1>4, DivMod DEF Agrees
  <2>2. CASE Y(p) = y
    <3>1. X(p) \in xs
      BY <1>5, <2>1, <2>2 DEF Row
    <3>2. X(h) <= X(p)
      BY <1>6, <1>7, <3>1, LowestBit
    <3> QED
      BY <1>8, <2>1, <2>2, <3>2, DivMono
  <2>3. CASE y < Y(p)
    BY <1>8, <2>1, <2>3, DivMono
  <2> QED
    BY <1>8, <2>1, <2>2, <2>3, DivMod
<1> QED
  BY <1>8, <1>9, <1>10

(* Setting a bit, in the table and in the group byte, keeps the two in     *)
(* agreement.                                                              *)
LEMMA SetBitIs ==
  ASSUME NEW list, Agrees(list), NEW p \in Prio
  PROVE  Agrees(SetBit(list, p)) /\ SetBit(list, p).tbl = list.tbl \cup {p}
<1>1. p \in Nat /\ Y(p) \in Nat
  BY KernelAssumption, DivMod DEF Prio
<1> QED
  BY <1>1 DEF SetBit, Agrees, Bits

(* Clearing a bit, with the group's bit only when the row is empty, keeps  *)
(* the two in agreement.                                                   *)
LEMMA ClearBitIs ==
  ASSUME NEW list, Agrees(list), NEW p
  PROVE  Agrees(ClearBit(list, p)) /\ ClearBit(list, p).tbl = list.tbl \ {p}
<1>1. PICK c : c = ClearBit(list, p)
  OBVIOUS
<1>2. c.tbl = list.tbl \ {p} /\ c \in Bits
  BY <1>1 DEF ClearBit, Agrees, Bits
<1>3. c.grp = {Y(q) : q \in c.tbl}
  <2>1. CASE Row(list, Y(p)) \subseteq {p}
    <3>1. c.grp = list.grp \ {Y(p)}
      BY <1>1, <2>1 DEF ClearBit
    <3>2. \A q \in list.tbl : q # p => Y(q) # Y(p)
      BY <2>1 DEF Row
    <3> QED
      BY <1>2, <3>1, <3>2 DEF Agrees
  <2>2. CASE ~(Row(list, Y(p)) \subseteq {p})
    <3>1. c.grp = list.grp
      BY <1>1, <2>2 DEF ClearBit
    <3>2. PICK q \in list.tbl : q # p /\ Y(q) = Y(p)
      BY <2>2 DEF Row
    <3> QED
      BY <1>2, <3>1, <3>2 DEF Agrees
  <2> QED
    BY <2>1, <2>2
<1> QED
  BY <1>1, <1>2, <1>3 DEF Agrees

(* An empty list agrees with its group byte. *)
LEMMA NoBitsIs == Agrees(NoBits) /\ NoBits.tbl = {}
BY DEF Agrees, Bits, NoBits

(* Two lists with the same bits are the same list. *)
LEMMA SameBits ==
  ASSUME NEW a, NEW b, Agrees(a), Agrees(b), a.tbl = b.tbl
  PROVE  a = b
BY DEF Agrees, Bits

(* The group byte is zero for an empty list only, which is how the code    *)
(* tests for waiters.                                                      *)
LEMMA GroupIs == \A list : Agrees(list) => (list.grp = {} <=> list.tbl = {})
BY DEF Agrees

-----------------------------------------------------------------------------
(* Tasks and lists under a step about one task. *)

(* What steps of the services leave alone. *)
SameSched(r, s) ==
    /\ r.OSRunning = s.OSRunning /\ r.msip = s.msip
    /\ r.OSIntNesting = s.OSIntNesting /\ r.OSLockNesting = s.OSLockNesting
    /\ r.OSPrioCur = s.OSPrioCur /\ r.OSPrioHighRdy = s.OSPrioHighRdy
    /\ r.OSTCBCur = s.OSTCBCur /\ r.OSTCBHighRdy = s.OSTCBHighRdy

SameTables(r, s) ==
    /\ DOMAIN r = DOMAIN s /\ r.OSTCBPrioTbl = s.OSTCBPrioTbl /\ r.flag = s.flag
    /\ DOMAIN r.tcb = Tcb /\ \A t \in Tcb : r.tcb[t].OSTCBPrio = s.tcb[t].OSTCBPrio
    /\ DOMAIN r.ecb = Event /\ \A e \in Event : r.ecb[e].OSEventType = s.ecb[e].OSEventType

SameFor(r, s, t) ==
    /\ r.tcb[t] = s.tcb[t]
    /\ \A e \in Event : PrioOf(s, t) \in r.ecb[e].wait.tbl <=> PrioOf(s, t) \in s.ecb[e].wait.tbl
    /\ PrioOf(s, t) \in r.OSRdy.tbl <=> PrioOf(s, t) \in s.OSRdy.tbl

(* What was true of a task stays true of it through a step that changes    *)
(* neither its TCB nor its bits.                                           *)
LEMMA OthersOK ==
  ASSUME NEW s, NEW r, NEW f, NEW g, NEW t \in Tcb, TaskOK(s, f, t), SameTables(r, s),
         SameFor(r, s, t), g[t] = f[t], s.tcb[t] \in TcbType, Owns(r, g, t)
  PROVE  TaskOK(r, g, t)
<1>1. WaitsFor(s, t) # NULL => s.tcb[t].OSTCBEventPtr \in Event
  BY DEF WaitsFor, TcbType
<1>2. PICK tcb : tcb = s.tcb[t]
  OBVIOUS
<1> USE <1>2 DEF SameFor, SameTables, PrioOf, WaitsFor, Stopped, Asleep
<1>3. StillWaits(r, t) <=> StillWaits(s, t)
  BY DEF StillWaits
<1>4. tcb.OSTCBStat \ {"SUSPEND"} =
          IF StillWaits(r, t) THEN {r.ecb[tcb.OSTCBEventPtr].OSEventType} ELSE {}
  BY <1>1, <1>3 DEF TaskOK, StillWaits
<1> QED
  BY <1>3, <1>4 DEF TaskOK

(* A task owns what it was handed while the mutexes keep their owners.     *)
OwnersStay(r, s) ==
    \A x \in Event :
        s.ecb[x].OSEventType = "MUTEX" => r.ecb[x].OSEventPtr = s.ecb[x].OSEventPtr

LEMMA OwnsStays ==
  ASSUME NEW s, NEW r, NEW f, NEW g, NEW t \in Tcb, FrameOK(s, f), Owns(s, f, t),
         r.tcb[t] = s.tcb[t], g[t] = f[t], OwnersStay(r, s)
  PROVE  Owns(r, g, t)
<1>1. CASE Asleep(f, t) /\ f[t].call.op = "MutexPend"
  <2>1. f[t].call \in PlainCall /\ CallOK(s, f[t].call)
    BY <1>1 DEF FrameOK, Asleep, App
  <2>2. f[t].call.e \in Event /\ s.ecb[f[t].call.e].OSEventType = "MUTEX"
    BY <1>1, <2>1 DEF CallOK, PlainCall, EventOps, SemOps, MutexOps, MboxOps, QOps, PendOps, TypeFor
  <2> QED
    BY <2>2 DEF Owns, OwnersStay, WaitsFor, Asleep
<1> QED
  BY <1>1 DEF Owns, Asleep

(* The calls in progress stay well formed while tasks keep their           *)
(* priorities and events their types.                                      *)
LEMMA FramesOK ==
  ASSUME NEW s, NEW r, NEW f, FrameOK(s, f), SameTables(r, s)
  PROVE  FrameOK(r, f)
<1>1. ASSUME NEW c, CallOK(s, c) PROVE CallOK(r, c)
  <2>1. c.op \in EventOps => c.e \in Event
    BY <1>1 DEF CallOK, PlainCall, EventOps, SemOps, MutexOps, MboxOps, QOps, PendOps
  <2> QED
    BY <1>1, <2>1 DEF CallOK, SameTables
<1> QED
  BY <1>1 DEF FrameOK, SameTables, PrioOf

(* A task's priority is its own. *)
LEMMA PrioApart ==
  ASSUME NEW s, NEW f, ListsOK(s, f), NEW t \in Tcb, NEW u \in Tcb,
         PrioOf(s, t) # NULL, PrioOf(s, t) = PrioOf(s, u)
  PROVE  t = u
BY DEF ListsOK, TablesOK

(* A task that waits has a frame. *)
LEMMA WaiterIs ==
  ASSUME NEW s, NEW f, ListsOK(s, f), NEW t \in Tcb, Asleep(f, t)
  PROVE  /\ t \in Task /\ PrioOf(s, t) \in Prio /\ f[t].call.op \in PendOps
         /\ f[t].call.e \in Event /\ s.ecb[f[t].call.e].OSEventType = TypeFor(f[t].call.op)
<1>1. f[t].call.op \in PendOps /\ f[t] # App /\ t # Idle /\ PrioOf(s, t) # NULL
  BY DEF ListsOK, FrameOK, Asleep, App
<1>2. f[t].call \in PlainCall /\ CallOK(s, f[t].call)
  BY <1>1 DEF ListsOK, FrameOK
<1>3. f[t].call.e \in Event
  BY <1>1, <1>2 DEF PlainCall, PendOps
<1>4. s.tcb[t] \in TcbType
  BY DEF ListsOK, KernelType
<1> QED
  BY <1>1, <1>2, <1>3, <1>4 DEF CallOK, EventOps, SemOps, MutexOps, MboxOps, QOps, PendOps, Tcb, TcbType, PrioOf

(* The highest priority on the wait list of an event is that of a task     *)
(* that waits for this event.                                              *)
LEMMA HighestWaits ==
  ASSUME NEW s, NEW f, ListsOK(s, f), NEW e \in Event, Waiting(s, e)
  PROVE  /\ Highest(s.ecb[e].wait) \in s.ecb[e].wait.tbl
         /\ HighestWaiting(s, e) \in Task
         /\ PrioOf(s, HighestWaiting(s, e)) = Highest(s.ecb[e].wait)
         /\ Highest(s.ecb[e].wait) \in Prio
         /\ WaitsFor(s, HighestWaiting(s, e)) = e
         /\ Asleep(f, HighestWaiting(s, e))
<1>1. PICK list : list = s.ecb[e].wait
  OBVIOUS
<1>2. Agrees(list) /\ list.tbl \subseteq Prio
  BY <1>1 DEF ListsOK, KernelType, EcbOK, Agrees, Bits
<1>3. list.tbl # {}
  BY <1>1, <1>2, GroupIs DEF Waiting
<1>4. PICK h \in list.tbl : h = Highest(list)
  BY <1>2, <1>3, HighestIs
<1>5. PICK t \in Task : t = s.OSTCBPrioTbl[h]
  BY <1>1, <1>4 DEF ListsOK, BitsTasks
<1>6. t \in Tcb /\ PrioOf(s, t) = h /\ h \in Prio /\ h # NULL /\ t # NULL
  BY <1>2, <1>4, <1>5, KernelAssumption DEF ListsOK, TablesOK, Tcb
<1>7. TaskOK(s, f, t) /\ e # NULL
  BY <1>6, KernelAssumption DEF ListsOK
<1>8. s.tcb[t].OSTCBEventPtr = e /\ Asleep(f, t)
  BY <1>1, <1>4, <1>6, <1>7 DEF TaskOK, PrioOf
<1> QED
  BY <1>1, <1>4, <1>5, <1>6, <1>8 DEF HighestWaiting, WaitsFor

(* What a step does to the kernel when it is about one task u. *)
Changed(s, r, u, w, rdy, ecb) ==
    /\ DOMAIN r = DOMAIN s /\ SameSched(r, s)
    /\ r.OSTCBPrioTbl = s.OSTCBPrioTbl /\ r.flag = s.flag
    /\ r.tcb = [s.tcb EXCEPT ![u] = w] /\ r.OSRdy = rdy /\ r.ecb = ecb

(* A list that differs at the most in one bit. *)
ButFor(p, a, b) == Agrees(a) /\ a.tbl \ {p} = b.tbl \ {p}

EcbsButFor(p, a, b) ==
    /\ DOMAIN a = Event
    /\ \A e \in Event : /\ EcbOK(a[e]) /\ a[e].OSEventType = b[e].OSEventType
                        /\ a[e].OSEventPtr = b[e].OSEventPtr /\ ButFor(p, a[e].wait, b[e].wait)

FramesBut(u, g, f) == DOMAIN g = Tcb /\ \A t \in Tcb \ {u} : g[t] = f[t]

FrameAt(s, f, t) ==
    \/ f[t] = App
    \/ /\ f[t] \in [at : {"enter", "sched", "block", "resume"}, call : PlainCall]
       /\ CallOK(s, f[t].call)
       /\ Asleep(f, t) => f[t].call.op \in PendOps

(* A step about one task u leaves every other task as it should be, and    *)
(* every field typed.                                                      *)
LEMMA OneTaskTypes ==
  ASSUME NEW s, NEW r, NEW f, NEW g, NEW u \in Task, NEW w, NEW rdy, NEW ecb,
         ListsOK(s, f), PrioOf(s, u) # NULL, Changed(s, r, u, w, rdy, ecb),
         w \in TcbType, w.OSTCBPrio = PrioOf(s, u),
         ButFor(PrioOf(s, u), rdy, s.OSRdy), EcbsButFor(PrioOf(s, u), ecb, s.ecb),
         FramesBut(u, g, f), FrameAt(s, g, u)
  PROVE  /\ KernelType(r) /\ SameTables(r, s) /\ FrameOK(r, g)
         /\ \A t \in Tcb \ {u} : TaskOK(r, g, t)
<1>1. u \in Tcb /\ u # Idle
  BY KernelAssumption DEF Tcb
<1>2. SameTables(r, s)
  BY <1>1 DEF Changed, SameTables, EcbsButFor, PrioOf, ListsOK, KernelType
<1>3. KernelType(r)
  BY <1>1 DEF ListsOK, KernelType, Changed, SameSched, ButFor, EcbsButFor
<1>4. FrameOK(r, g)
  <2>1. ASSUME NEW c, CallOK(s, c) PROVE CallOK(r, c)
    <3>1. c.op \in EventOps => c.e \in Event
      BY <2>1 DEF CallOK, PlainCall, EventOps, SemOps, MutexOps, MboxOps, QOps, PendOps
    <3> QED
      BY <2>1, <3>1, <1>2 DEF CallOK, SameTables
  <2>2. FrameOK(s, f)
    BY DEF ListsOK
  <2>3. g[Idle] = App
    BY <1>1, <2>2 DEF FrameOK, FramesBut, Tcb
  <2>4. ASSUME NEW t \in Tcb
        PROVE  /\ \/ g[t] = App
                  \/ /\ g[t] \in [at : {"enter", "sched", "block", "resume"}, call : PlainCall]
                     /\ CallOK(r, g[t].call)
               /\ Asleep(g, t) => g[t].call.op \in PendOps
               /\ PrioOf(r, t) = NULL => g[t] = App
    <3>1. CASE t = u
      <4>1. PrioOf(r, t) # NULL
        BY <1>2, <3>1 DEF SameTables, PrioOf
      <4> QED
        BY <3>1, <4>1, <2>1 DEF FrameAt, Asleep, App
    <3>2. CASE t # u
      BY <1>2, <2>1, <2>2, <3>2 DEF FrameOK, FramesBut, SameTables, PrioOf, Asleep
    <3> QED
      BY <3>1, <3>2
  <2> QED
    BY <2>3, <2>4 DEF FrameOK, FramesBut
<1>5. ASSUME NEW t \in Tcb \ {u} PROVE TaskOK(r, g, t)
  <2>1. TaskOK(s, f, t) /\ s.tcb[t] \in TcbType /\ g[t] = f[t]
    BY DEF ListsOK, KernelType, FramesBut
  <2>2. r.tcb[t] = s.tcb[t]
    BY DEF Changed, ListsOK, KernelType
  <2>3. PrioOf(s, t) # PrioOf(s, u)
    BY <1>1, PrioApart
  <2>4. SameFor(r, s, t)
    BY <2>2, <2>3 DEF SameFor, Changed, ButFor, EcbsButFor
  <2>5. OwnersStay(r, s)
    BY DEF OwnersStay, Changed, EcbsButFor
  <2>6. Owns(r, g, t)
    BY <2>1, <2>2, <2>5, OwnsStays DEF TaskOK, ListsOK
  <2> QED
    BY <1>2, <2>1, <2>4, <2>6, OthersOK
<1> QED
  BY <1>2, <1>3, <1>4, <1>5

(* Such a step keeps the lists, if u itself comes out of it as it should. *)
LEMMA OneTask ==
  ASSUME NEW s, NEW r, NEW f, NEW g, NEW u \in Task, NEW w, NEW rdy, NEW ecb,
         ListsOK(s, f), PrioOf(s, u) # NULL, Changed(s, r, u, w, rdy, ecb),
         w \in TcbType, w.OSTCBPrio = PrioOf(s, u),
         ButFor(PrioOf(s, u), rdy, s.OSRdy), EcbsButFor(PrioOf(s, u), ecb, s.ecb),
         FramesBut(u, g, f), FrameAt(s, g, u), TaskOK(r, g, u)
  PROVE  ListsOK(r, g)
<1>1. /\ KernelType(r) /\ SameTables(r, s) /\ FrameOK(r, g)
      /\ \A t \in Tcb \ {u} : TaskOK(r, g, t)
  BY OneTaskTypes
<1>2. u \in Tcb /\ u # Idle /\ Idle \in Tcb /\ u # NULL
  BY KernelAssumption DEF Tcb
<1>3. r.tcb[Idle] = s.tcb[Idle]
  BY <1>2 DEF Changed, ListsOK, KernelType
<1>4. TablesOK(r)
  <2>1. TablesOK(s) /\ \A t \in Tcb : PrioOf(r, t) = PrioOf(s, t)
    BY <1>1 DEF ListsOK, SameTables, PrioOf
  <2>2. r.OSTCBPrioTbl = s.OSTCBPrioTbl
    BY DEF Changed
  <2>3. \A p \in Prio : s.OSTCBPrioTbl[p] # NULL => s.OSTCBPrioTbl[p] \in Tcb
    BY DEF ListsOK, KernelType
  <2> QED
    BY <1>2, <2>1, <2>2, <2>3 DEF TablesOK
<1>5. BitsTasks(r)
  <2>1. s.OSTCBPrioTbl[PrioOf(s, u)] = u
    BY <1>2 DEF ListsOK, TablesOK
  <2>2. r.OSTCBPrioTbl = s.OSTCBPrioTbl /\ r.OSRdy = rdy /\ r.ecb = ecb
    BY DEF Changed
  <2>3. \A p \in rdy.tbl : p = PrioOf(s, u) \/ p \in s.OSRdy.tbl
    BY DEF ButFor
  <2>4. \A e \in Event : \A p \in ecb[e].wait.tbl : p = PrioOf(s, u) \/ p \in s.ecb[e].wait.tbl
    BY DEF ButFor, EcbsButFor
  <2>5. BitsTasks(s)
    BY DEF ListsOK
  <2> QED
    BY <1>2, <2>1, <2>2, <2>3, <2>4, <2>5 DEF BitsTasks
<1> QED
  BY <1>1, <1>3, <1>4, <1>5 DEF ListsOK

(* A waiter's status holds the bit of its event's type, and at the most    *)
(* the suspension besides.                                                 *)
LEMMA WaiterStat ==
  ASSUME NEW s, NEW f, ListsOK(s, f), NEW u \in Tcb, NEW e \in Event, WaitsFor(s, u) = e
  PROVE  s.tcb[u].OSTCBStat \ {s.ecb[e].OSEventType} = s.tcb[u].OSTCBStat \cap {"SUSPEND"}
<1>1. s.ecb[e].OSEventType # "SUSPEND"
  BY DEF ListsOK, KernelType, EcbOK
<1>2. s.tcb[u].OSTCBStat \ {"SUSPEND"} \subseteq {s.ecb[e].OSEventType}
  BY KernelAssumption DEF ListsOK, TaskOK, WaitsFor, StillWaits
<1> QED
  BY <1>1, <1>2

(* The TCB, the ready table and the event once the event's highest waiter  *)
(* u has been served.                                                      *)
Served(tcb, msg, stat) ==
    [tcb EXCEPT !.OSTCBDly = 0, !.OSTCBMsg = msg, !.OSTCBStat = @ \cap {"SUSPEND"},
                !.OSTCBStatPend = stat, !.OSTCBEventPtr = NULL]
ReadyAgain(s, u) == IF Stopped(s, u) THEN s.OSRdy ELSE SetBit(s.OSRdy, PrioOf(s, u))
OffList(s, e, p) == [s.ecb EXCEPT ![e].wait = ClearBit(@, p)]

Woken(s, r, u, e, msg, stat) ==
    Changed(s, r, u, Served(s.tcb[u], msg, stat), ReadyAgain(s, u), OffList(s, e, PrioOf(s, u)))

(* What OS_EventTaskRdy does to the tables is to serve the highest waiter. *)
LEMMA RdyWakes ==
  ASSUME NEW s, NEW f, ListsOK(s, f), NEW e \in Event, Waiting(s, e),
         NEW msg \in Message \cup {NULL}, NEW stat \in {"OK", "ABORT"}
  PROVE  Woken(s, OS_EventTaskRdy(s, e, msg, s.ecb[e].OSEventType, stat),
               HighestWaiting(s, e), e, msg, stat)
<1>1. PICK u, p, msk : u = HighestWaiting(s, e) /\ p = PrioOf(s, u) /\ msk = s.ecb[e].OSEventType
  OBVIOUS
<1>2. /\ u \in Task /\ u \in Tcb /\ p = Highest(s.ecb[e].wait) /\ p \in Prio /\ WaitsFor(s, u) = e
  BY <1>1, HighestWaits DEF Tcb
<1>3. RdyBit(s, u, e) = p
  <2>1. p \in Nat
    BY <1>2, KernelAssumption DEF Prio
  <2> QED
    BY <1>1, <1>2, <2>1, DivMod DEF RdyBit
<1>4. PICK rdy : rdy = IF "SUSPEND" \in s.tcb[u].OSTCBStat THEN s.OSRdy
                       ELSE [grp |-> s.OSRdy.grp \cup {Y(p)}, tbl |-> s.OSRdy.tbl \cup {p}]
  OBVIOUS
<1>5. rdy = ReadyAgain(s, u)
  BY <1>1, <1>4 DEF Stopped, SetBit, ReadyAgain
<1>6. /\ DOMAIN s = {"OSRunning", "OSIntNesting", "OSLockNesting", "OSPrioCur", "OSPrioHighRdy",
                   "OSTCBCur", "OSTCBHighRdy", "OSRdy", "OSTCBPrioTbl", "tcb", "ecb", "msip", "flag"}
      /\ s.tcb \in [Tcb -> TcbType] /\ DOMAIN s.ecb = Event
      /\ DOMAIN s.ecb[e] = {"OSEventType", "OSEventCnt", "OSEventPtr", "pcp", "wait"}
  BY DEF ListsOK, KernelType, EcbOK
<1>7. PICK w : w = GivenTcb(s.tcb[u], msg, msk, stat)
  OBVIOUS
<1>8. PICK n : n = [s EXCEPT !.tcb[u] = GivenTcb(@, msg, msk, stat), !.OSRdy = rdy]
  OBVIOUS
<1>9. /\ DOMAIN n = DOMAIN s /\ SameSched(n, s) /\ n.OSTCBPrioTbl = s.OSTCBPrioTbl /\ n.flag = s.flag
      /\ n.ecb = s.ecb /\ n.OSRdy = rdy /\ n.tcb = [s.tcb EXCEPT ![u] = w]
  BY <1>6, <1>7, <1>8 DEF SameSched
<1>100. DOMAIN s.tcb = Tcb /\ s.tcb[u] \in TcbType
  BY <1>2, <1>6
<1>101. /\ DOMAIN s.tcb[u] = {"OSTCBPrio", "OSTCBStat", "OSTCBStatPend", "OSTCBDly", "OSTCBEventPtr",
                "OSTCBEventMultiPtr", "OSTCBMsg", "OSTCBFlagNode", "OSTCBFlagsRdy", "OSTCBDelReq"}
        /\ s.tcb[u].OSTCBEventMultiPtr = {}
  BY <1>100 DEF TcbType
<1>10. /\ n.tcb[u] = w /\ w.OSTCBPrio = p /\ w.OSTCBEventMultiPtr = {}
       /\ DOMAIN w = DOMAIN s.tcb[u]
  BY <1>1, <1>2, <1>7, <1>9, <1>100, <1>101 DEF PrioOf, GivenTcb
<1>11. PICK r : r = OS_EventTaskRemove(n, u, e)
  OBVIOUS
<1>12. r = [n EXCEPT !.tcb[u].OSTCBEventPtr = NULL,
                     !.ecb[e].wait = ClearBit(@, p)]
  BY <1>10, <1>11 DEF OS_EventTaskRemove, PrioOf
<1>120. PICK a : a = [n EXCEPT !.tcb[u].OSTCBEventPtr = NULL]
  OBVIOUS
<1>121. r = [a EXCEPT !.ecb[e].wait = ClearBit(@, p)]
  BY <1>12, <1>120
<1>122. /\ DOMAIN a = DOMAIN s /\ SameSched(a, s) /\ a.OSTCBPrioTbl = s.OSTCBPrioTbl /\ a.flag = s.flag
        /\ a.OSRdy = rdy /\ a.ecb = s.ecb
        /\ a.tcb = [n.tcb EXCEPT ![u] = [@ EXCEPT !.OSTCBEventPtr = NULL]]
  BY <1>6, <1>9, <1>120 DEF SameSched
<1>13. PICK v : v = [w EXCEPT !.OSTCBEventPtr = NULL]
  OBVIOUS
<1>14. /\ DOMAIN r = DOMAIN s /\ SameSched(r, s) /\ r.OSTCBPrioTbl = s.OSTCBPrioTbl /\ r.flag = s.flag
       /\ r.OSRdy = rdy
       /\ r.tcb = [n.tcb EXCEPT ![u] = [@ EXCEPT !.OSTCBEventPtr = NULL]]
  BY <1>6, <1>121, <1>122 DEF SameSched
<1>140. r.ecb = [s.ecb EXCEPT ![e].wait = ClearBit(@, p)]
  <2>1. PICK c : c = ClearBit(s.ecb[e].wait, p)
    OBVIOUS
  <2>2. r = [a EXCEPT !.ecb[e].wait = c]
    BY <1>121, <1>122, <2>1
  <2>3. r.ecb = [a.ecb EXCEPT ![e] = [@ EXCEPT !.wait = c]]
    BY <1>6, <1>122, <2>2
  <2> QED
    BY <1>122, <2>1, <2>3
<1>15. r.tcb = [s.tcb EXCEPT ![u] = v]
  BY <1>6, <1>9, <1>10, <1>13, <1>14
<1>16. v.OSTCBEventMultiPtr = {} /\ r.tcb[u] = v
  BY <1>2, <1>6, <1>10, <1>13, <1>15 DEF TcbType
<1>17. v = Served(s.tcb[u], msg, stat)
  <2>1. s.tcb[u].OSTCBStat \ {msk} = s.tcb[u].OSTCBStat \cap {"SUSPEND"}
    BY <1>1, <1>2, WaiterStat
  <2> QED
    BY <1>2, <1>6, <1>7, <1>13, <2>1 DEF Served, TcbType, GivenTcb
<1>18. OS_EventTaskRdy(s, e, msg, msk, stat) = r
  BY <1>1, <1>3, <1>4, <1>8, <1>11, <1>16, ZenonT(30) DEF OS_EventTaskRdy
<1> QED
  BY <1>1, <1>5, <1>14, <1>140, <1>15, <1>17, <1>18 DEF Woken, Changed, OffList

(* The fields of the TCB of a waiter that has been served. *)
LEMMA ServedIs ==
  ASSUME NEW tcb \in TcbType, NEW msg \in Message \cup {NULL}, NEW stat \in {"OK", "ABORT"}
  PROVE  /\ Served(tcb, msg, stat) \in TcbType
         /\ Served(tcb, msg, stat).OSTCBPrio = tcb.OSTCBPrio
         /\ Served(tcb, msg, stat).OSTCBStat = tcb.OSTCBStat \cap {"SUSPEND"}
         /\ Served(tcb, msg, stat).OSTCBStatPend = stat
         /\ Served(tcb, msg, stat).OSTCBDly = 0
         /\ Served(tcb, msg, stat).OSTCBEventPtr = NULL
         /\ Served(tcb, msg, stat).OSTCBMsg = msg
BY DEF Served, TcbType

(* Taking a priority off an event's list changes that bit alone. *)
LEMMA OffListIs ==
  ASSUME NEW s, NEW f, ListsOK(s, f), NEW e \in Event, NEW p \in Prio
  PROVE  /\ EcbsButFor(p, OffList(s, e, p), s.ecb)
         /\ p \notin OffList(s, e, p)[e].wait.tbl
         /\ OffList(s, e, p)[e].wait.tbl = s.ecb[e].wait.tbl \ {p}
         /\ \A x \in Event \ {e} : OffList(s, e, p)[x] = s.ecb[x]
         /\ \A x \in Event : /\ OffList(s, e, p)[x].OSEventType = s.ecb[x].OSEventType
                             /\ OffList(s, e, p)[x].OSEventCnt = s.ecb[x].OSEventCnt
                             /\ OffList(s, e, p)[x].OSEventPtr = s.ecb[x].OSEventPtr
<1>1. PICK a, c : a = OffList(s, e, p) /\ c = ClearBit(s.ecb[e].wait, p)
  OBVIOUS
<1>2. DOMAIN s.ecb = Event /\ \A x \in Event : EcbOK(s.ecb[x])
  BY DEF ListsOK, KernelType
<1>3. Agrees(c) /\ c.tbl = s.ecb[e].wait.tbl \ {p}
  BY <1>1, <1>2, ClearBitIs DEF EcbOK
<1>4. DOMAIN a = Event /\ \A x \in Event \ {e} : a[x] = s.ecb[x]
  BY <1>1, <1>2 DEF OffList
<1>5. a[e] = [s.ecb[e] EXCEPT !.wait = c]
  BY <1>1, <1>2 DEF OffList
<1>6. /\ DOMAIN a[e] = {"OSEventType", "OSEventCnt", "OSEventPtr", "pcp", "wait"}
      /\ a[e].OSEventType = s.ecb[e].OSEventType /\ a[e].OSEventCnt = s.ecb[e].OSEventCnt
      /\ a[e].OSEventPtr = s.ecb[e].OSEventPtr /\ a[e].wait = c /\ a[e].pcp = s.ecb[e].pcp
  BY <1>2, <1>5 DEF EcbOK
<1>7. EcbOK(a[e])
  <2>1. s.ecb[e].wait = NoBits => c = NoBits
    BY <1>3, NoBitsIs, SameBits
  <2> QED
    BY <1>2, <1>3, <1>6, <2>1 DEF EcbOK
<1>8. EcbsButFor(p, a, s.ecb)
  <2>1. ASSUME NEW x \in Event
        PROVE  /\ EcbOK(a[x]) /\ a[x].OSEventType = s.ecb[x].OSEventType
               /\ a[x].OSEventPtr = s.ecb[x].OSEventPtr /\ ButFor(p, a[x].wait, s.ecb[x].wait)
    <3>1. CASE x = e
      BY <1>3, <1>6, <1>7, <3>1 DEF ButFor
    <3>2. CASE x # e
      BY <1>2, <1>4, <3>2 DEF ButFor, EcbOK
    <3> QED
      BY <3>1, <3>2
  <2> QED
    BY <1>4, <2>1 DEF EcbsButFor
<1> QED
  BY <1>1, <1>3, <1>4, <1>6, <1>8

(* A waiter that has been served is made ready, unless it is suspended. *)
LEMMA ReadyAgainIs ==
  ASSUME NEW s, Agrees(s.OSRdy), NEW u, PrioOf(s, u) \in Prio
  PROVE  /\ ButFor(PrioOf(s, u), ReadyAgain(s, u), s.OSRdy)
         /\ ReadyAgain(s, u).tbl = IF Stopped(s, u) THEN s.OSRdy.tbl ELSE s.OSRdy.tbl \cup {PrioOf(s, u)}
BY SetBitIs DEF ReadyAgain, ButFor

(* The calls in progress, when no task's changes. *)
LEMMA FrameStays ==
  ASSUME NEW s, NEW f, FrameOK(s, f), NEW u \in Task
  PROVE  FramesBut(u, f, f) /\ FrameAt(s, f, u)
BY DEF FrameOK, FramesBut, FrameAt, Tcb

(* Serving the highest waiter keeps the lists, and the event is then       *)
(* granted to that task.                                                   *)
LEMMA WokenLists ==
  ASSUME NEW s, NEW f, ListsOK(s, f), NEW e \in Event, Waiting(s, e),
         NEW msg \in Message \cup {NULL}, NEW stat \in {"OK", "ABORT"},
         stat = "OK" /\ s.ecb[e].OSEventType \notin {"SEM", "MUTEX"} => msg \in Message,
         stat = "OK" /\ s.ecb[e].OSEventType = "MUTEX" =>
             s.ecb[e].OSEventPtr = HighestWaiting(s, e),
         NEW r, Woken(s, r, HighestWaiting(s, e), e, msg, stat)
  PROVE  /\ ListsOK(r, f)
         /\ HighestWaiting(s, e) \notin GrantedIn(s, f, e)
         /\ GrantedIn(r, f, e) = IF stat = "OK" /\ s.ecb[e].OSEventType # "MUTEX"
                                 THEN GrantedIn(s, f, e) \cup {HighestWaiting(s, e)}
                                 ELSE GrantedIn(s, f, e)
         /\ \A x \in Event \ {e} : GrantedIn(r, f, x) = GrantedIn(s, f, x)
<1>1. PICK u, p : u = HighestWaiting(s, e) /\ p = PrioOf(s, u)
  OBVIOUS
<1>2. /\ u \in Task /\ u \in Tcb /\ p = Highest(s.ecb[e].wait) /\ p \in Prio /\ WaitsFor(s, u) = e
      /\ p \in s.ecb[e].wait.tbl /\ p # NULL /\ e # NULL /\ Asleep(f, u)
  BY <1>1, HighestWaits, KernelAssumption DEF Tcb
<1>3. s.tcb \in [Tcb -> TcbType] /\ s.tcb[u] \in TcbType /\ Agrees(s.OSRdy) /\ FrameOK(s, f) /\ TaskOK(s, f, u)
  BY <1>2 DEF ListsOK, KernelType
<1>4. PICK w, rdy, ecb : w = Served(s.tcb[u], msg, stat) /\ rdy = ReadyAgain(s, u) /\ ecb = OffList(s, e, p)
  OBVIOUS
<1>5. /\ w \in TcbType /\ w.OSTCBPrio = p /\ w.OSTCBStat = s.tcb[u].OSTCBStat \cap {"SUSPEND"}
      /\ w.OSTCBStatPend = stat /\ w.OSTCBDly = 0 /\ w.OSTCBEventPtr = NULL /\ w.OSTCBMsg = msg
  BY <1>1, <1>3, <1>4, ServedIs DEF PrioOf
<1>6. /\ ButFor(p, rdy, s.OSRdy)
      /\ rdy.tbl = IF Stopped(s, u) THEN s.OSRdy.tbl ELSE s.OSRdy.tbl \cup {p}
  <2>1. Agrees(s.OSRdy) /\ PrioOf(s, u) \in Prio
    BY <1>1, <1>2, <1>3
  <2>2. /\ ButFor(PrioOf(s, u), ReadyAgain(s, u), s.OSRdy)
        /\ ReadyAgain(s, u).tbl = IF Stopped(s, u) THEN s.OSRdy.tbl ELSE s.OSRdy.tbl \cup {PrioOf(s, u)}
    BY <2>1, ReadyAgainIs
  <2> QED
    BY <1>1, <1>4, <2>2
<1>7. /\ EcbsButFor(p, ecb, s.ecb) /\ p \notin ecb[e].wait.tbl
      /\ \A x \in Event \ {e} : ecb[x] = s.ecb[x]
  BY <1>2, <1>4, OffListIs
<1>8. Changed(s, r, u, w, rdy, ecb)
  BY <1>1, <1>4 DEF Woken
<1>9. r.tcb[u] = w /\ r.ecb = ecb /\ r.OSRdy = rdy /\ \A t \in Tcb \ {u} : r.tcb[t] = s.tcb[t]
  BY <1>2, <1>3, <1>8 DEF Changed
<1>10. \A x \in Event : p \notin ecb[x].wait.tbl
  <2>1. \A x \in Event \ {e} : p \notin s.ecb[x].wait.tbl
    BY <1>1, <1>2, <1>3 DEF TaskOK, PrioOf, WaitsFor
  <2> QED
    BY <1>7, <2>1
<1>11. ~StillWaits(r, u) /\ (Stopped(r, u) <=> Stopped(s, u))
  BY <1>5, <1>9 DEF StillWaits, WaitsFor, Stopped
<1>12. p \in rdy.tbl <=> ~Stopped(s, u)
  <2>1. Stopped(s, u) => p \notin s.OSRdy.tbl
    BY <1>1, <1>2, <1>3 DEF TaskOK, PrioOf
  <2> QED
    BY <1>6, <2>1
<1>13. /\ f[u].call.e = e
       /\ f[u].call.op \in {"MboxPend", "QPend"} => s.ecb[e].OSEventType \notin {"SEM", "MUTEX"}
       /\ f[u].call.op = "MutexPend" <=> s.ecb[e].OSEventType = "MUTEX"
  <2>1. f[u].call.e = e
    BY <1>2, <1>3 DEF TaskOK, WaitsFor
  <2> QED
    BY <1>2, <2>1, WaiterIs DEF TypeFor, PendOps, SemOps, MutexOps, MboxOps
<1>14. TaskOK(r, f, u)
  <2>1. w.OSTCBEventPtr = NULL /\ w.OSTCBStatPend = "OK" /\ f[u].call.op \in {"MboxPend", "QPend"} => w.OSTCBMsg \in Message
    BY <1>5, <1>13
  <2>2. Owns(r, f, u)
    <3>1. r.ecb[e].OSEventPtr = s.ecb[e].OSEventPtr
      BY <1>7, <1>9 DEF EcbsButFor
    <3> QED
      BY <1>1, <1>5, <1>9, <1>13, <3>1 DEF Owns
  <2> QED
    BY <1>2, <1>5, <1>9, <1>10, <1>11, <1>12, <2>1, <2>2, KernelAssumption DEF TaskOK
<1>15. ListsOK(r, f)
  BY <1>1, <1>2, <1>3, <1>5, <1>6, <1>7, <1>8, <1>14, FrameStays, OneTask
<1>16. u \notin GrantedIn(s, f, e)
  BY <1>2 DEF GrantedIn
<1>17. ASSUME NEW x \in Event, NEW t \in Task
       PROVE  t \in GrantedIn(r, f, x) <=>
                (t \in GrantedIn(s, f, x) \/ (stat = "OK" /\ s.ecb[e].OSEventType # "MUTEX" /\ x = e /\ t = u))
  <2>1. CASE t = u
    <3>1. t \notin GrantedIn(s, f, x)
      BY <1>2, <2>1 DEF GrantedIn
    <3>2. t \in GrantedIn(r, f, x) <=> (stat = "OK" /\ s.ecb[e].OSEventType # "MUTEX" /\ x = e)
      BY <1>2, <1>5, <1>9, <1>13, <2>1 DEF GrantedIn, WaitsFor
    <3> QED
      BY <2>1, <3>1, <3>2
  <2>2. CASE t # u
    BY <1>9, <2>2 DEF GrantedIn, WaitsFor, Tcb
  <2> QED
    BY <2>1, <2>2
<1>18. \A x \in Event : GrantedIn(r, f, x) \subseteq Task /\ GrantedIn(s, f, x) \subseteq Task
  BY DEF GrantedIn
<1>19. GrantedIn(r, f, e) = IF stat = "OK" /\ s.ecb[e].OSEventType # "MUTEX"
                            THEN GrantedIn(s, f, e) \cup {u} ELSE GrantedIn(s, f, e)
  BY <1>2, <1>17, <1>18
<1>20. \A x \in Event \ {e} : GrantedIn(r, f, x) = GrantedIn(s, f, x)
  BY <1>17, <1>18
<1> QED
  BY <1>1, <1>15, <1>16, <1>19, <1>20

SameContents(r, s) ==
    \A x \in Event : /\ r.ecb[x].OSEventType = s.ecb[x].OSEventType
                     /\ r.ecb[x].OSEventCnt = s.ecb[x].OSEventCnt
                     /\ r.ecb[x].OSEventPtr = s.ecb[x].OSEventPtr

Waiters(s, e) == Cardinality(s.ecb[e].wait.tbl)
GrantedTo(s, f, e) == Cardinality(GrantedIn(s, f, e))

(* k waiters of e have been served. *)
ServedSome(s, r, f, e, stat, k) ==
    /\ ListsOK(r, f) /\ SameSched(r, s) /\ SameTables(r, s) /\ SameContents(r, s)
    /\ \A x \in Event \ {e} : GrantedIn(r, f, x) = GrantedIn(s, f, x)
    /\ GrantedTo(r, f, e) = GrantedTo(s, f, e) + (IF stat = "OK" THEN k ELSE 0)
    /\ Waiters(r, e) + k = Waiters(s, e)

(* The waiters of an event and the tasks it is granted to can be counted. *)
LEMMA FiniteLists ==
  ASSUME NEW s, NEW f, ListsOK(s, f), NEW e \in Event
  PROVE  /\ IsFiniteSet(s.ecb[e].wait.tbl) /\ IsFiniteSet(GrantedIn(s, f, e))
         /\ Waiters(s, e) \in Nat /\ GrantedTo(s, f, e) \in Nat
         /\ Waiters(s, e) <= Cardinality(Tcb) /\ Cardinality(Tcb) \in Nat
<1>1. IsFiniteSet(Tcb) /\ IsFiniteSet(Task)
  BY KernelAssumption, FS_AddElement DEF Tcb
<1>2. IsFiniteSet(GrantedIn(s, f, e))
  BY <1>1, FS_Subset DEF GrantedIn
<1>3. PICK im : im = {PrioOf(s, t) : t \in Tcb}
  OBVIOUS
<1>4. IsFiniteSet(im) /\ Cardinality(im) <= Cardinality(Tcb)
  <2>1. PICK h : h = [t \in Tcb |-> PrioOf(s, t)]
    OBVIOUS
  <2>2. h \in Surjection(Tcb, im)
    BY <1>3, <2>1 DEF Surjection
  <2> QED
    BY <1>1, <2>2, FS_Surjection
<1>5. s.ecb[e].wait.tbl \subseteq im
  <2>1. ASSUME NEW p \in s.ecb[e].wait.tbl PROVE p \in im
    <3>1. p \in Prio
      BY DEF ListsOK, KernelType, EcbOK, Agrees, Bits
    <3>2. s.OSTCBPrioTbl[p] \in Task
      BY DEF ListsOK, BitsTasks
    <3>3. s.OSTCBPrioTbl[p] # NULL /\ s.OSTCBPrioTbl[p] \in Tcb
      BY <3>2, KernelAssumption DEF Tcb
    <3>4. PrioOf(s, s.OSTCBPrioTbl[p]) = p
      BY <3>1, <3>3 DEF ListsOK, TablesOK
    <3> QED
      BY <1>3, <3>3, <3>4
  <2> QED
    BY <2>1
<1>6. IsFiniteSet(s.ecb[e].wait.tbl) /\ Cardinality(s.ecb[e].wait.tbl) <= Cardinality(im)
  BY <1>4, <1>5, FS_Subset
<1> QED
  BY <1>1, <1>2, <1>4, <1>6, FS_CardinalityType DEF Waiters, GrantedTo

(* OS_EventTaskRdy serves one waiter. *)
LEMMA RdyServes ==
  ASSUME NEW s, NEW f, ListsOK(s, f), NEW e \in Event, Waiting(s, e),
         NEW msg \in Message \cup {NULL}, NEW stat \in {"OK", "ABORT"},
         s.ecb[e].OSEventType # "MUTEX", stat = "OK" /\ s.ecb[e].OSEventType # "SEM" => msg \in Message
  PROVE  ServedSome(s, OS_EventTaskRdy(s, e, msg, s.ecb[e].OSEventType, stat), f, e, stat, 1)
<1>1. PICK u, p, r : /\ u = HighestWaiting(s, e) /\ p = PrioOf(s, u)
                     /\ r = OS_EventTaskRdy(s, e, msg, s.ecb[e].OSEventType, stat)
  OBVIOUS
<1>2. Woken(s, r, u, e, msg, stat)
  BY <1>1, RdyWakes
<1>3. /\ ListsOK(r, f) /\ u \notin GrantedIn(s, f, e)
      /\ GrantedIn(r, f, e) = IF stat = "OK" THEN GrantedIn(s, f, e) \cup {u} ELSE GrantedIn(s, f, e)
      /\ \A x \in Event \ {e} : GrantedIn(r, f, x) = GrantedIn(s, f, x)
  BY <1>1, <1>2, WokenLists
<1>4. /\ u \in Task /\ p \in Prio /\ p \in s.ecb[e].wait.tbl
  BY <1>1, HighestWaits
<1>5. Changed(s, r, u, Served(s.tcb[u], msg, stat), ReadyAgain(s, u), OffList(s, e, p))
  BY <1>1, <1>2 DEF Woken
<1>6. /\ EcbsButFor(p, OffList(s, e, p), s.ecb)
      /\ OffList(s, e, p)[e].wait.tbl = s.ecb[e].wait.tbl \ {p}
      /\ SameContents(r, s) /\ r.ecb = OffList(s, e, p)
  BY <1>4, <1>5, OffListIs DEF Changed, SameContents
<1>7. SameSched(r, s)
  BY <1>5 DEF Changed
<1>8. SameTables(r, s)
  <2>1. r.tcb = [s.tcb EXCEPT ![u] = Served(s.tcb[u], msg, stat)] /\ u \in Tcb
    BY <1>4, <1>5 DEF Changed, Tcb
  <2>2. s.tcb[u] \in TcbType /\ DOMAIN s.tcb = Tcb
    BY <2>1 DEF ListsOK, KernelType
  <2>3. \A t \in Tcb : r.tcb[t].OSTCBPrio = s.tcb[t].OSTCBPrio
    BY <2>1, <2>2, ServedIs
  <2> QED
    BY <1>5, <1>6, <2>1, <2>2, <2>3 DEF SameTables, Changed, EcbsButFor
<1>9. Waiters(r, e) + 1 = Waiters(s, e)
  <2>1. IsFiniteSet(s.ecb[e].wait.tbl)
    BY FiniteLists
  <2>2. Cardinality(s.ecb[e].wait.tbl \ {p}) = Cardinality(s.ecb[e].wait.tbl) - 1
    BY <1>4, <2>1, FS_RemoveElement
  <2>3. Waiters(r, e) = Cardinality(s.ecb[e].wait.tbl \ {p})
    BY <1>6 DEF Waiters
  <2>4. Cardinality(s.ecb[e].wait.tbl) \in Nat
    BY <2>1, FS_CardinalityType
  <2> QED
    BY <2>2, <2>3, <2>4 DEF Waiters
<1>10. GrantedTo(r, f, e) = GrantedTo(s, f, e) + (IF stat = "OK" THEN 1 ELSE 0)
  <2>1. IsFiniteSet(GrantedIn(s, f, e)) /\ GrantedTo(s, f, e) \in Nat
    BY FiniteLists
  <2>2. Cardinality(GrantedIn(s, f, e) \cup {u}) = Cardinality(GrantedIn(s, f, e)) + 1
    BY <1>3, <2>1, FS_AddElement
  <2> QED
    BY <1>3, <2>1, <2>2 DEF GrantedTo
<1> QED
  BY <1>1, <1>3, <1>6, <1>7, <1>8, <1>9, <1>10 DEF ServedSome

(* Serving k waiters and then l is serving k + l. *)
LEMMA ServedThen ==
  ASSUME NEW s, NEW a, NEW b, NEW f, NEW e \in Event, NEW stat, NEW k \in Nat, NEW l \in Nat,
         ListsOK(s, f), ServedSome(s, a, f, e, stat, k), ServedSome(a, b, f, e, stat, l)
  PROVE  ServedSome(s, b, f, e, stat, k + l)
<1>1. GrantedTo(s, f, e) \in Nat /\ Waiters(s, e) \in Nat
  BY FiniteLists
<1>2. GrantedTo(a, f, e) \in Nat /\ Waiters(a, e) \in Nat /\ GrantedTo(b, f, e) \in Nat /\ Waiters(b, e) \in Nat
  BY FiniteLists DEF ServedSome
<1>3. SameSched(b, s) /\ SameTables(b, s) /\ SameContents(b, s)
  BY DEF ServedSome, SameSched, SameTables, SameContents
<1>4. GrantedTo(b, f, e) = GrantedTo(s, f, e) + (IF stat = "OK" THEN k + l ELSE 0)
  BY <1>1, <1>2 DEF ServedSome
<1>5. Waiters(b, e) + (k + l) = Waiters(s, e)
  BY <1>1, <1>2 DEF ServedSome
<1> QED
  BY <1>3, <1>4, <1>5 DEF ServedSome

(* Serving none changes nothing. *)
LEMMA ServedNone ==
  ASSUME NEW s, NEW f, NEW e \in Event, NEW stat, ListsOK(s, f)
  PROVE  ServedSome(s, s, f, e, stat, 0)
<1>1. GrantedTo(s, f, e) \in Nat /\ Waiters(s, e) \in Nat
  BY FiniteLists
<1>2. SameTables(s, s)
  BY DEF ListsOK, KernelType, SameTables
<1>3. SameSched(s, s) /\ SameContents(s, s)
  BY DEF SameSched, SameContents
<1> QED
  BY <1>1, <1>2, <1>3 DEF ServedSome

-----------------------------------------------------------------------------
(* Serving every waiter.                                                   *)

(* One turn of the loop, and its turns as a function. *)
Rdy(r, e, msg, msk, stat) == IF Waiting(r, e) THEN OS_EventTaskRdy(r, e, msg, msk, stat) ELSE r
RdyRuns(g, m, s, e, msg, msk, stat) ==
    g = [n \in 0 .. m |-> IF n = 0 THEN s ELSE Rdy(g[n - 1], e, msg, msk, stat)]

(* The loop of OS_EventTaskRdy calls has a run of every length. *)
LEMMA RdyRunsExist ==
  ASSUME NEW s, NEW e, NEW msg, NEW msk, NEW stat, NEW m \in Nat
  PROVE  \E g : RdyRuns(g, m, s, e, msg, msk, stat)
<1> DEFINE Bad == {n \in Nat : ~\E g : RdyRuns(g, n, s, e, msg, msk, stat)}
<1>1. ASSUME Bad # {} PROVE FALSE
  <2>1. PICK n \in Bad : \A k \in Bad : n <= k
    BY <1>1, Least
  <2>2. CASE n = 0
    <3>1. PICK g : g = [k \in 0 .. 0 |-> s]
      OBVIOUS
    <3>2. RdyRuns(g, 0, s, e, msg, msk, stat)
      BY <3>1 DEF RdyRuns
    <3> QED
      BY <2>1, <2>2, <3>2
  <2>3. CASE n > 0
    <3>1. n \in Nat /\ n - 1 \in Nat /\ n - 1 \notin Bad
      BY <2>1, <2>3
    <3>2. PICK g : RdyRuns(g, n - 1, s, e, msg, msk, stat)
      BY <3>1
    <3>3. PICK h : h = [k \in 0 .. n |-> IF k = n THEN Rdy(g[n - 1], e, msg, msk, stat) ELSE g[k]]
      OBVIOUS
    <3>4. \A k \in 0 .. n - 1 : h[k] = g[k]
      BY <3>1, <3>3
    <3>5. \A k \in 0 .. n - 1 : g[k] = IF k = 0 THEN s ELSE Rdy(g[k - 1], e, msg, msk, stat)
      BY <3>1, <3>2 DEF RdyRuns
    <3>6. ASSUME NEW k \in 0 .. n
          PROVE  h[k] = IF k = 0 THEN s ELSE Rdy(h[k - 1], e, msg, msk, stat)
      <4>1. CASE k = n
        <5>1. h[n - 1] = g[n - 1]
          BY <2>3, <3>1, <3>4
        <5> QED
          BY <2>3, <3>3, <4>1, <5>1
      <4>2. CASE k # n
        <5>1. k \in 0 .. n - 1 /\ (k # 0 => k - 1 \in 0 .. n - 1)
          BY <3>1, <4>2
        <5>2. h[k] = g[k] /\ (k # 0 => h[k - 1] = g[k - 1])
          BY <3>4, <5>1
        <5>3. g[k] = IF k = 0 THEN s ELSE Rdy(g[k - 1], e, msg, msk, stat)
          BY <3>5, <5>1
        <5> QED
          BY <5>2, <5>3
      <4> QED
        BY <4>1, <4>2
    <3>7. RdyRuns(h, n, s, e, msg, msk, stat)
      BY <3>3, <3>6 DEF RdyRuns
    <3> QED
      BY <2>1, <3>7
  <2> QED
    BY <2>1, <2>2, <2>3
<1> QED
  BY <1>1

(* OS_EventTaskRdyAll is the end of such a run. *)
LEMMA RdyAllIs ==
  ASSUME NEW s, NEW e, NEW msg, NEW msk, NEW stat, Cardinality(Tcb) \in Nat
  PROVE  \E g : /\ RdyRuns(g, Cardinality(Tcb), s, e, msg, msk, stat)
                /\ OS_EventTaskRdyAll(s, e, msg, msk, stat) = g[Cardinality(Tcb)]
<1>1. PICK g : g = CHOOSE h : RdyRuns(h, Cardinality(Tcb), s, e, msg, msk, stat)
  OBVIOUS
<1>2. RdyRuns(g, Cardinality(Tcb), s, e, msg, msk, stat)
  BY <1>1, RdyRunsExist
<1>3. OS_EventTaskRdyAll(s, e, msg, msk, stat) = g[Cardinality(Tcb)]
  BY <1>1 DEF OS_EventTaskRdyAll, RdyRuns, Rdy
<1> QED
  BY <1>2, <1>3

(* OS_EventTaskRdyAll, the loop of a broadcast, serves every waiter. *)
LEMMA RdyAllServes ==
  ASSUME NEW s, NEW f, ListsOK(s, f), NEW e \in Event,
         NEW msg \in Message \cup {NULL}, NEW stat \in {"OK", "ABORT"},
         s.ecb[e].OSEventType # "MUTEX", stat = "OK" /\ s.ecb[e].OSEventType # "SEM" => msg \in Message
  PROVE  ServedSome(s, OS_EventTaskRdyAll(s, e, msg, s.ecb[e].OSEventType, stat), f, e, stat, Waiters(s, e))
<1>1. PICK N, msk, W : N = Cardinality(Tcb) /\ msk = s.ecb[e].OSEventType /\ W = Waiters(s, e)
  OBVIOUS
<1>2. N \in Nat /\ W \in Nat /\ W <= N
  BY <1>1, FiniteLists
<1>3. PICK g : RdyRuns(g, N, s, e, msg, msk, stat) /\ OS_EventTaskRdyAll(s, e, msg, msk, stat) = g[N]
  BY <1>1, <1>2, RdyAllIs
<1> DEFINE Good(n) == ServedSome(s, g[n], f, e, stat, IF n <= W THEN n ELSE W)
           Bad == {n \in 0 .. N : ~Good(n)}
<1>4. g[0] = s /\ \A n \in 1 .. N : g[n] = Rdy(g[n - 1], e, msg, msk, stat)
  <2>1. \A n \in 0 .. N : g[n] = IF n = 0 THEN s ELSE Rdy(g[n - 1], e, msg, msk, stat)
    BY <1>2, <1>3 DEF RdyRuns
  <2> QED
    BY <1>2, <2>1
<1>5. Good(0)
  BY <1>2, <1>4, ServedNone
<1>6. ASSUME NEW n \in 1 .. N, Good(n - 1) PROVE Good(n)
  <2>1. PICK a, k : a = g[n - 1] /\ k = IF n - 1 <= W THEN n - 1 ELSE W
    OBVIOUS
  <2>2. ServedSome(s, a, f, e, stat, k) /\ k \in Nat /\ ListsOK(a, f)
    BY <1>2, <1>6, <2>1 DEF ServedSome
  <2>3. g[n] = Rdy(a, e, msg, msk, stat) /\ msk = a.ecb[e].OSEventType
    BY <1>1, <1>4, <2>1, <2>2 DEF ServedSome, SameContents
  <2>4. Waiters(a, e) \in Nat /\ Waiters(a, e) + k = W /\ IsFiniteSet(a.ecb[e].wait.tbl)
    BY <1>1, <2>2, FiniteLists DEF ServedSome
  <2>5. Waiting(a, e) <=> Waiters(a, e) # 0
    <3>1. Agrees(a.ecb[e].wait)
      BY <2>2 DEF ListsOK, KernelType, EcbOK
    <3> QED
      BY <2>4, <3>1, GroupIs, FS_EmptySet DEF Waiting, Waiters
  <2>6. CASE Waiting(a, e)
    <3>1. k = n - 1 /\ n <= W
      BY <1>2, <2>1, <2>4, <2>5, <2>6
    <3>2. ServedSome(a, g[n], f, e, stat, 1)
      BY <1>1, <2>2, <2>3, <2>6, RdyServes DEF Rdy
    <3>3. ServedSome(s, g[n], f, e, stat, k + 1)
      BY <2>2, <3>2, ServedThen
    <3>4. k + 1 = n
      BY <3>1
    <3> QED
      BY <3>1, <3>3, <3>4
  <2>7. CASE ~Waiting(a, e)
    <3>1. k = W /\ (IF n <= W THEN n ELSE W) = W
      BY <1>2, <2>1, <2>4, <2>5, <2>7
    <3>2. g[n] = a
      BY <2>3, <2>7 DEF Rdy
    <3> QED
      BY <2>2, <3>1, <3>2
  <2> QED
    BY <2>6, <2>7
<1> HIDE DEF Good
<1>7. Bad = {}
  <2>1. ASSUME Bad # {} PROVE FALSE
    <3>1. Bad \subseteq Nat
      OBVIOUS
    <3>2. PICK n \in Bad : \A k \in Bad : n <= k
      BY <2>1, <3>1, Least
    <3>3. n \in 1 .. N
      BY <1>2, <1>5, <3>2
    <3>31. n - 1 \in 0 .. N /\ ~(n <= n - 1)
      BY <1>2, <3>3
    <3>4. n - 1 \in 0 .. N /\ n - 1 \notin Bad
      BY <3>2, <3>31
    <3> QED
      BY <1>6, <3>2, <3>3, <3>4
  <2> QED
    BY <2>1
<1>8. Good(N)
  BY <1>2, <1>7
<1>9. (IF N <= W THEN N ELSE W) = W
  BY <1>2
<1> QED
  BY <1>1, <1>3, <1>8, <1>9 DEF Good

-----------------------------------------------------------------------------
(* The clock tick. *)

(* The fields of the TCB of a task whose delay the tick counts down. *)
LEMMA TickedIs ==
  ASSUME NEW tcb \in TcbType, tcb.OSTCBDly # 0
  PROVE  /\ TickedTcb(tcb) \in TcbType
         /\ TickedTcb(tcb).OSTCBPrio = tcb.OSTCBPrio
         /\ TickedTcb(tcb).OSTCBDly = tcb.OSTCBDly - 1
         /\ TickedTcb(tcb).OSTCBEventPtr = tcb.OSTCBEventPtr
         /\ TickedTcb(tcb).OSTCBMsg = tcb.OSTCBMsg
         /\ tcb.OSTCBDly = 1 =>
               /\ TickedTcb(tcb).OSTCBStat = tcb.OSTCBStat \cap {"SUSPEND"}
               /\ TickedTcb(tcb).OSTCBStatPend = IF tcb.OSTCBStat \ {"SUSPEND"} = {} THEN "OK" ELSE "TO"
         /\ tcb.OSTCBDly # 1 =>
               /\ TickedTcb(tcb).OSTCBStat = tcb.OSTCBStat
               /\ TickedTcb(tcb).OSTCBStatPend = tcb.OSTCBStatPend
<1>1. PICK n, st, sp : /\ n = TickedTcb(tcb)
                       /\ st = IF tcb.OSTCBDly = 1 THEN tcb.OSTCBStat \ OS_STAT_PEND_ANY ELSE tcb.OSTCBStat
                       /\ sp = IF tcb.OSTCBDly > 1 THEN tcb.OSTCBStatPend
                               ELSE IF tcb.OSTCBStat \cap OS_STAT_PEND_ANY # {} THEN "TO" ELSE "OK"
  OBVIOUS
<1>2. tcb.OSTCBStat \subseteq {"SUSPEND", "SEM", "MUTEX", "MBOX", "Q"} /\ tcb.OSTCBDly \in Nat
      /\ tcb.OSTCBStatPend \in {"OK", "TO", "ABORT"}
  BY DEF TcbType
<1>3. DOMAIN tcb = {"OSTCBPrio", "OSTCBStat", "OSTCBStatPend", "OSTCBDly", "OSTCBEventPtr",
                "OSTCBEventMultiPtr", "OSTCBMsg", "OSTCBFlagNode", "OSTCBFlagsRdy", "OSTCBDelReq"}
  BY DEF TcbType
<1>4. n = [tcb EXCEPT !.OSTCBDly = tcb.OSTCBDly - 1, !.OSTCBStat = st, !.OSTCBStatPend = sp]
  BY <1>1 DEF TickedTcb
<1>5. /\ DOMAIN n = DOMAIN tcb
      /\ n.OSTCBDly = tcb.OSTCBDly - 1 /\ n.OSTCBStat = st /\ n.OSTCBStatPend = sp
      /\ n.OSTCBPrio = tcb.OSTCBPrio /\ n.OSTCBEventPtr = tcb.OSTCBEventPtr /\ n.OSTCBMsg = tcb.OSTCBMsg
      /\ n.OSTCBEventMultiPtr = tcb.OSTCBEventMultiPtr /\ n.OSTCBFlagNode = tcb.OSTCBFlagNode
      /\ n.OSTCBFlagsRdy = tcb.OSTCBFlagsRdy /\ n.OSTCBDelReq = tcb.OSTCBDelReq
  BY <1>3, <1>4
<1>6. st \in SUBSET {"SUSPEND", "SEM", "MUTEX", "MBOX", "Q"} /\ sp \in {"OK", "TO", "ABORT"} /\ tcb.OSTCBDly - 1 \in Nat
  BY <1>1, <1>2
<1>7. n \in TcbType
  BY <1>4, <1>6 DEF TcbType
<1>8. tcb.OSTCBDly = 1 => st = tcb.OSTCBStat \cap {"SUSPEND"}
  BY <1>1, <1>2 DEF OS_STAT_PEND_ANY
<1>9. tcb.OSTCBDly = 1 => sp = IF tcb.OSTCBStat \ {"SUSPEND"} = {} THEN "OK" ELSE "TO"
  <2>1. tcb.OSTCBStat \ {"SUSPEND"} = tcb.OSTCBStat \cap OS_STAT_PEND_ANY
    BY <1>2 DEF OS_STAT_PEND_ANY
  <2> QED
    BY <1>1, <1>2, <2>1
<1>10. tcb.OSTCBDly # 1 => st = tcb.OSTCBStat /\ sp = tcb.OSTCBStatPend
  BY <1>1, <1>2
<1> QED
  BY <1>1, <1>5, <1>7, <1>8, <1>9, <1>10

(* A task still waits when its status has the bit of some event. *)
LEMMA WaitsStat ==
  ASSUME NEW s, NEW f, ListsOK(s, f), NEW t \in Tcb
  PROVE  StillWaits(s, t) <=> s.tcb[t].OSTCBStat \ {"SUSPEND"} # {}
BY DEF ListsOK, TaskOK

(* OSTimeTick keeps the lists: a delay that ends makes the task ready      *)
(* unless it is suspended, and ends a wait as a timeout.                   *)
LEMMA TickLists ==
  ASSUME NEW s, NEW f, ListsOK(s, f), NEW r, r = OSTimeTick(s)
  PROVE  /\ ListsOK(r, f) /\ SameSched(r, s) /\ SameTables(r, s) /\ r.ecb = s.ecb
         /\ \A x \in Event : GrantedIn(r, f, x) = GrantedIn(s, f, x)
<1>1. PICK woken, ticked, rdy :
        /\ woken = {t \in Task : Expires(s, t) /\ "SUSPEND" \notin s.tcb[t].OSTCBStat}
        /\ ticked = [t \in Tcb |-> IF s.tcb[t].OSTCBDly = 0 THEN s.tcb[t] ELSE TickedTcb(s.tcb[t])]
        /\ rdy = [grp |-> s.OSRdy.grp \cup {Y(PrioOf(s, t)) : t \in woken},
                  tbl |-> s.OSRdy.tbl \cup {PrioOf(s, t) : t \in woken}]
  OBVIOUS
<1>2. r = [s EXCEPT !.tcb = ticked, !.OSRdy = rdy]
  BY <1>1 DEF OSTimeTick
<1>3. /\ DOMAIN s = {"OSRunning", "OSIntNesting", "OSLockNesting", "OSPrioCur", "OSPrioHighRdy",
                   "OSTCBCur", "OSTCBHighRdy", "OSRdy", "OSTCBPrioTbl", "tcb", "ecb", "msip", "flag"}
      /\ s.tcb \in [Tcb -> TcbType] /\ Agrees(s.OSRdy) /\ DOMAIN s.ecb = Event
  BY DEF ListsOK, KernelType
<1>4. /\ DOMAIN r = DOMAIN s /\ r.tcb = ticked /\ r.OSRdy = rdy /\ r.ecb = s.ecb
      /\ r.OSTCBPrioTbl = s.OSTCBPrioTbl /\ r.flag = s.flag /\ SameSched(r, s)
  BY <1>2, <1>3 DEF SameSched
<1>5. \A t \in Tcb : IF s.tcb[t].OSTCBDly = 0 THEN ticked[t] = s.tcb[t] ELSE ticked[t] = TickedTcb(s.tcb[t])
  BY <1>1
<1>6. \A t \in Tcb : s.tcb[t] \in TcbType /\ s.tcb[t].OSTCBDly \in Nat
  BY <1>3 DEF TcbType
<1>7. \A t \in Tcb : ticked[t] \in TcbType /\ ticked[t].OSTCBPrio = s.tcb[t].OSTCBPrio
                     /\ ticked[t].OSTCBEventPtr = s.tcb[t].OSTCBEventPtr
  BY <1>5, <1>6, TickedIs
<1>8. ticked \in [Tcb -> TcbType]
  BY <1>1, <1>7
<1>9. SameTables(r, s)
  BY <1>3, <1>4, <1>7, <1>8 DEF SameTables
<1>10. \A t \in woken : t \in Task /\ t \in Tcb /\ PrioOf(s, t) \in Prio /\ s.tcb[t].OSTCBDly = 1 /\ ~Stopped(s, t)
  <2>1. ASSUME NEW t \in woken
        PROVE  t \in Task /\ t \in Tcb /\ PrioOf(s, t) \in Prio /\ s.tcb[t].OSTCBDly = 1 /\ ~Stopped(s, t)
    <3>1. t \in Task /\ t \in Tcb /\ s.tcb[t].OSTCBDly = 1 /\ ~Stopped(s, t)
      BY <1>1 DEF Expires, Stopped, Tcb
    <3>2. TaskOK(s, f, t)
      BY <3>1 DEF ListsOK
    <3>3. PrioOf(s, t) # NULL
      BY <3>1, <3>2 DEF TaskOK, FreeTcb, PrioOf
    <3> QED
      BY <1>6, <3>1, <3>3 DEF TcbType, PrioOf
  <2> QED
    BY <2>1
<1>11. Agrees(rdy) /\ rdy.tbl = s.OSRdy.tbl \cup {PrioOf(s, t) : t \in woken}
  <2>1. rdy.tbl \subseteq Prio /\ rdy.tbl = s.OSRdy.tbl \cup {PrioOf(s, t) : t \in woken}
    BY <1>1, <1>3, <1>10 DEF Agrees, Bits
  <2>2. rdy.grp = {Y(p) : p \in rdy.tbl}
    BY <1>1, <1>3, <2>1 DEF Agrees
  <2>3. \A p \in Prio : Y(p) \in Nat
    BY DivMod, KernelAssumption DEF Prio
  <2>4. rdy.grp \subseteq Nat
    BY <2>1, <2>2, <2>3
  <2> QED
    BY <1>1, <2>1, <2>2, <2>4 DEF Agrees, Bits
<1>12. KernelType(r)
  BY <1>4, <1>8, <1>11 DEF ListsOK, KernelType, SameSched
<1>13. TablesOK(r)
  <2>1. TablesOK(s) /\ \A t \in Tcb : PrioOf(r, t) = PrioOf(s, t)
    BY <1>9 DEF ListsOK, SameTables, PrioOf
  <2>2. \A p \in Prio : s.OSTCBPrioTbl[p] # NULL => s.OSTCBPrioTbl[p] \in Tcb
    BY DEF ListsOK, KernelType
  <2>3. Idle \in Tcb
    BY DEF Tcb
  <2> QED
    BY <1>4, <2>1, <2>2, <2>3 DEF TablesOK
<1>14. BitsTasks(r)
  <2>1. BitsTasks(s) /\ TablesOK(s)
    BY DEF ListsOK
  <2>2. \A t \in Tcb : t # NULL
    BY KernelAssumption
  <2> QED
    BY <1>4, <1>10, <1>11, <2>1, <2>2, KernelAssumption DEF BitsTasks, TablesOK
<1>15. FrameOK(r, f)
  BY <1>9, FramesOK DEF ListsOK
<1>16. ASSUME NEW t \in Tcb PROVE TaskOK(r, f, t)
  <2>1. TaskOK(s, f, t) /\ s.tcb[t] \in TcbType /\ r.tcb[t] = ticked[t]
    BY <1>4, <1>6 DEF ListsOK
  <2>2. PrioOf(s, t) \in rdy.tbl <=> PrioOf(s, t) \in s.OSRdy.tbl \/ t \in woken
    <3>1. \A v \in woken : PrioOf(s, v) = PrioOf(s, t) => v = t
      BY <1>10, PrioApart, KernelAssumption DEF Prio
    <3> QED
      BY <1>11, <3>1
  <2>3. t \in woken => s.tcb[t].OSTCBDly = 1 /\ ~Stopped(s, t)
    BY <1>10
  <2>4. CASE s.tcb[t].OSTCBDly = 0
    <3>1. SameFor(r, s, t)
      BY <1>4, <1>5, <2>2, <2>3, <2>4 DEF SameFor
    <3>2. r.tcb[t] = s.tcb[t] /\ OwnersStay(r, s) /\ FrameOK(s, f) /\ Owns(s, f, t)
      BY <1>4, <1>5, <2>1, <2>4 DEF OwnersStay, ListsOK, TaskOK
    <3>3. Owns(r, f, t)
      BY <3>2, OwnsStays
    <3> QED
      BY <1>9, <2>1, <3>1, <3>3, OthersOK
  <2>5. CASE s.tcb[t].OSTCBDly # 0
    <3>1. PICK a, b : a = s.tcb[t] /\ b = r.tcb[t]
      OBVIOUS
    <3>2. /\ b.OSTCBPrio = a.OSTCBPrio /\ b.OSTCBDly = a.OSTCBDly - 1
          /\ b.OSTCBEventPtr = a.OSTCBEventPtr /\ b.OSTCBMsg = a.OSTCBMsg
          /\ a.OSTCBDly = 1 => /\ b.OSTCBStat = a.OSTCBStat \cap {"SUSPEND"}
                               /\ b.OSTCBStatPend = IF a.OSTCBStat \ {"SUSPEND"} = {} THEN "OK" ELSE "TO"
          /\ a.OSTCBDly # 1 => b.OSTCBStat = a.OSTCBStat /\ b.OSTCBStatPend = a.OSTCBStatPend
      BY <1>5, <2>1, <2>5, <3>1, TickedIs
    <3>3. a.OSTCBPrio # NULL /\ a.OSTCBDly \in Nat
      BY <1>6, <2>1, <2>5, <3>1 DEF TaskOK, FreeTcb
    <3>4. StillWaits(s, t) <=> a.OSTCBStat \ {"SUSPEND"} # {}
      BY <3>1, WaitsStat
    <3>5. Stopped(r, t) <=> Stopped(s, t)
      BY <3>1, <3>2 DEF Stopped
    <3>6. Idle # t
      BY <2>5 DEF ListsOK, FreeTcb
    <3>7. a.OSTCBPrio \notin s.OSRdy.tbl
      BY <2>1, <2>5, <3>1, <3>3 DEF TaskOK
    <3>8. \A e \in Event : b.OSTCBPrio \in r.ecb[e].wait.tbl <=> b.OSTCBEventPtr = e
      BY <1>4, <2>1, <3>1, <3>2, <3>3 DEF TaskOK
    <3>9. Asleep(f, t) => StillWaits(s, t)
      BY <2>1, <2>5 DEF TaskOK
    <3>10. /\ a.OSTCBEventPtr # NULL => a.OSTCBStatPend # "ABORT" /\ Asleep(f, t)
           /\ ~Asleep(f, t) => a.OSTCBStatPend = "OK"
           /\ Asleep(f, t) => a.OSTCBEventPtr \in {f[t].call.e, NULL}
           /\ a.OSTCBStat \ {"SUSPEND"} = IF StillWaits(s, t) THEN {s.ecb[a.OSTCBEventPtr].OSEventType} ELSE {}
           /\ a.OSTCBEventPtr = NULL => a.OSTCBStatPend # "TO"
      BY <2>1, <3>1 DEF TaskOK
    <3>11. StillWaits(s, t) => a.OSTCBEventPtr # NULL /\ a.OSTCBStatPend # "TO"
      BY <3>1 DEF StillWaits, WaitsFor
    <3>12. CASE a.OSTCBDly = 1
      <4>1. ~StillWaits(r, t)
        BY <3>1, <3>2, <3>4, <3>10, <3>12, ZenonT(30) DEF StillWaits, WaitsFor
      <4>2. a.OSTCBPrio \in r.OSRdy.tbl <=> ~Stopped(s, t)
        <5>1. t \in woken <=> ~Stopped(s, t)
          BY <1>1, <3>1, <3>6, <3>12 DEF Expires, Stopped, Tcb
        <5> QED
          BY <1>4, <2>2, <3>1, <3>7, <5>1 DEF PrioOf
      <4>3. b.OSTCBStat \ {"SUSPEND"} = {}
        BY <3>2, <3>12
      <4>4. /\ b.OSTCBEventPtr # NULL => b.OSTCBStatPend # "ABORT" /\ Asleep(f, t)
            /\ b.OSTCBEventPtr = NULL => b.OSTCBStatPend # "TO"
            /\ ~Asleep(f, t) => b.OSTCBStatPend = "OK"
        BY <3>2, <3>4, <3>10, <3>11, <3>12
      <4>5. Asleep(f, t) => b.OSTCBEventPtr # NULL /\ b.OSTCBEventPtr \in {f[t].call.e, NULL}
        BY <3>2, <3>9, <3>10, <3>11
      <4>6. b.OSTCBDly = 0
        BY <3>2, <3>12
      <4>7. Owns(r, f, t)
        BY <3>1, <4>5 DEF Owns, WaitsFor
      <4> QED
        BY <3>1, <3>2, <3>3, <3>5, <3>8, <4>1, <4>2, <4>3, <4>4, <4>5, <4>6, <4>7 DEF TaskOK
    <3>13. CASE a.OSTCBDly # 1
      <4>1. b.OSTCBDly # 0
        BY <2>5, <3>1, <3>2, <3>3, <3>13
      <4>2. StillWaits(r, t) <=> StillWaits(s, t)
        BY <3>1, <3>2, <3>13 DEF StillWaits, WaitsFor
      <4>3. a.OSTCBPrio \notin r.OSRdy.tbl
        BY <1>4, <2>2, <2>3, <3>1, <3>7, <3>13 DEF PrioOf
      <4>4. b.OSTCBStat \ {"SUSPEND"} = IF StillWaits(r, t) THEN {r.ecb[b.OSTCBEventPtr].OSEventType} ELSE {}
        BY <1>4, <3>2, <3>10, <3>13, <4>2
      <4>5. Asleep(f, t) => b.OSTCBEventPtr # NULL
        BY <3>2, <3>9, <3>11
      <4>6. Owns(r, f, t)
        BY <3>1, <4>5 DEF Owns, WaitsFor
      <4> QED
        BY <3>1, <3>2, <3>3, <3>5, <3>8, <3>9, <3>10, <3>13, <4>1, <4>2, <4>3, <4>4, <4>5, <4>6 DEF TaskOK
    <3> QED
      BY <3>12, <3>13
  <2> QED
    BY <2>4, <2>5
<1>17. r.tcb[Idle] = s.tcb[Idle]
  BY <1>4, <1>5 DEF ListsOK, FreeTcb, Tcb
<1>18. ASSUME NEW x \in Event, NEW t \in Task
       PROVE  t \in GrantedIn(r, f, x) <=> t \in GrantedIn(s, f, x)
  <2>1. t \in Tcb /\ TaskOK(s, f, t) /\ r.tcb[t] = ticked[t]
    BY <1>4 DEF ListsOK, Tcb
  <2>2. CASE s.tcb[t].OSTCBDly = 0
    BY <1>5, <2>1, <2>2 DEF GrantedIn, WaitsFor
  <2>3. CASE s.tcb[t].OSTCBDly # 0
    <3>1. Asleep(f, t) => WaitsFor(s, t) # NULL
      BY <2>1, <2>3 DEF TaskOK, StillWaits
    <3>2. WaitsFor(r, t) = WaitsFor(s, t)
      BY <1>7, <2>1 DEF WaitsFor
    <3> QED
      BY <3>1, <3>2 DEF GrantedIn
  <2> QED
    BY <2>2, <2>3
<1>19. \A x \in Event : GrantedIn(r, f, x) = GrantedIn(s, f, x)
  <2>1. \A x \in Event : GrantedIn(r, f, x) \subseteq Task /\ GrantedIn(s, f, x) \subseteq Task
    BY DEF GrantedIn
  <2> QED
    BY <1>18, <2>1
<1>20. ListsOK(r, f)
  BY <1>12, <1>13, <1>14, <1>15, <1>16, <1>17 DEF ListsOK
<1> QED
  BY <1>4, <1>9, <1>19, <1>20

-----------------------------------------------------------------------------
(* What events hold. *)

(* Only what event e holds has changed. *)
Refilled(s, r, e, c) ==
    /\ DOMAIN r = DOMAIN s /\ SameSched(r, s)
    /\ r.OSTCBPrioTbl = s.OSTCBPrioTbl /\ r.flag = s.flag
    /\ r.tcb = s.tcb /\ r.OSRdy = s.OSRdy /\ r.ecb = [s.ecb EXCEPT ![e] = c]

(* Changing what an event that is no mutex holds leaves the owners alone.  *)
LEMMA SameOwners ==
  ASSUME NEW s, NEW f, ListsOK(s, f), NEW e \in Event, NEW r, NEW c, Refilled(s, r, e, c),
         s.ecb[e].OSEventType # "MUTEX"
  PROVE  \A t \in Tcb : Owns(r, f, t)
<1>1. OwnersStay(r, s) /\ r.tcb = s.tcb
  BY DEF OwnersStay, Refilled, ListsOK, KernelType
<1> QED
  BY <1>1, OwnsStays DEF ListsOK, TaskOK

(* Changing only what one event holds keeps the lists, whoever it was      *)
(* granted to.                                                             *)
LEMMA RefilledLists ==
  ASSUME NEW s, NEW f, ListsOK(s, f), NEW e \in Event, NEW r, NEW c, Refilled(s, r, e, c),
         EcbOK(c), c.OSEventType = s.ecb[e].OSEventType, c.wait = s.ecb[e].wait,
         \A t \in Tcb : Owns(r, f, t)
  PROVE  /\ ListsOK(r, f)
         /\ \A x \in Event : GrantedIn(r, f, x) = GrantedIn(s, f, x)
         /\ \A x \in Event \ {e} : r.ecb[x] = s.ecb[x]
         /\ r.ecb[e] = c
<1>1. DOMAIN s.ecb = Event /\ \A x \in Event : EcbOK(s.ecb[x])
  BY DEF ListsOK, KernelType
<1>2. /\ DOMAIN r.ecb = Event /\ r.ecb[e] = c /\ \A x \in Event \ {e} : r.ecb[x] = s.ecb[x]
  BY <1>1 DEF Refilled
<1>3. \A x \in Event : /\ EcbOK(r.ecb[x]) /\ r.ecb[x].OSEventType = s.ecb[x].OSEventType
                       /\ r.ecb[x].wait = s.ecb[x].wait
  <2>1. ASSUME NEW x \in Event
        PROVE  /\ EcbOK(r.ecb[x]) /\ r.ecb[x].OSEventType = s.ecb[x].OSEventType
               /\ r.ecb[x].wait = s.ecb[x].wait
    BY <1>1, <1>2
  <2> QED
    BY <2>1
<1>4. SameTables(r, s)
  BY <1>2, <1>3 DEF Refilled, SameTables, ListsOK, KernelType
<1>5. KernelType(r)
  BY <1>2, <1>3 DEF Refilled, SameSched, ListsOK, KernelType
<1>60. r.tcb = s.tcb /\ r.OSTCBPrioTbl = s.OSTCBPrioTbl /\ r.OSRdy = s.OSRdy /\ TablesOK(s) /\ BitsTasks(s)
  BY DEF Refilled, ListsOK
<1>61. TablesOK(r)
  BY <1>60 DEF TablesOK, PrioOf
<1>62. BitsTasks(r)
  BY <1>3, <1>60 DEF BitsTasks, PrioOf
<1>6. TablesOK(r) /\ BitsTasks(r)
  BY <1>61, <1>62
<1>7. FrameOK(r, f)
  BY <1>4, FramesOK DEF ListsOK
<1>8. \A t \in Tcb : TaskOK(r, f, t)
  <2>1. ASSUME NEW t \in Tcb PROVE TaskOK(r, f, t)
    <3>1. SameFor(r, s, t)
      BY <1>3 DEF SameFor, Refilled
    <3> QED
      BY <1>4, <3>1, OthersOK DEF ListsOK, KernelType
  <2> QED
    BY <2>1
<1>9. r.tcb[Idle] = s.tcb[Idle]
  BY DEF Refilled
<1>10. ListsOK(r, f)
  BY <1>5, <1>6, <1>7, <1>8, <1>9 DEF ListsOK
<1>11. \A x \in Event : GrantedIn(r, f, x) = GrantedIn(s, f, x)
  BY DEF GrantedIn, WaitsFor, Refilled
<1> QED
  BY <1>2, <1>10, <1>11

(* The frame of a task that sleeps neither before nor after, or sleeps in  *)
(* the same call.                                                          *)
LEMMA FrameLists ==
  ASSUME NEW s, NEW f, NEW g, ListsOK(s, f), NEW t \in Task, PrioOf(s, t) # NULL,
         FramesBut(t, g, f), FrameAt(s, g, t), Asleep(g, t) <=> Asleep(f, t),
         Asleep(f, t) => g[t].call = f[t].call
  PROVE  /\ ListsOK(s, g)
         /\ \A x \in Event : GrantedIn(s, g, x) = GrantedIn(s, f, x)
<1>1. t \in Tcb /\ t # Idle
  BY KernelAssumption DEF Tcb
<1>2. FrameOK(s, g)
  <2>1. FrameOK(s, f)
    BY DEF ListsOK
  <2>2. g[Idle] = App
    BY <1>1, <2>1 DEF FrameOK, FramesBut, Tcb
  <2>3. ASSUME NEW u \in Tcb
        PROVE  /\ \/ g[u] = App
                  \/ /\ g[u] \in [at : {"enter", "sched", "block", "resume"}, call : PlainCall]
                     /\ CallOK(s, g[u].call)
               /\ Asleep(g, u) => g[u].call.op \in PendOps
               /\ PrioOf(s, u) = NULL => g[u] = App
    <3>1. CASE u = t
      BY <3>1 DEF FrameAt, Asleep, App
    <3>2. CASE u # t
      BY <2>1, <3>2 DEF FrameOK, FramesBut, Asleep
    <3> QED
      BY <3>1, <3>2
  <2> QED
    BY <2>2, <2>3 DEF FrameOK, FramesBut
<1>3. \A u \in Tcb : (Asleep(g, u) <=> Asleep(f, u)) /\ (Asleep(f, u) => g[u].call = f[u].call)
  BY DEF FramesBut, Asleep
<1>4. \A u \in Tcb : TaskOK(s, g, u)
  <2>1. ASSUME NEW u \in Tcb PROVE TaskOK(s, g, u)
    BY <1>3 DEF ListsOK, TaskOK, Owns
  <2> QED
    BY <2>1
<1>5. ListsOK(s, g)
  BY <1>2, <1>4 DEF ListsOK
<1>6. \A x \in Event : GrantedIn(s, g, x) = GrantedIn(s, f, x)
  BY <1>3 DEF GrantedIn, Tcb
<1> QED
  BY <1>5, <1>6

-----------------------------------------------------------------------------
(* What an event holds.                                                    *)

(* The fields of the kernel and of an event. *)
LEMMA EcbFields ==
  ASSUME NEW s, NEW f, ListsOK(s, f), NEW e \in Event
  PROVE  /\ EcbOK(s.ecb[e])
         /\ DOMAIN s = {"OSRunning", "OSIntNesting", "OSLockNesting", "OSPrioCur", "OSPrioHighRdy",
                   "OSTCBCur", "OSTCBHighRdy", "OSRdy", "OSTCBPrioTbl", "tcb", "ecb", "msip", "flag"}
         /\ DOMAIN s.ecb = Event
         /\ DOMAIN s.ecb[e] = {"OSEventType", "OSEventCnt", "OSEventPtr", "pcp", "wait"}
BY DEF ListsOK, KernelType, EcbOK

SetCnt(s, e, n) == [s EXCEPT !.ecb[e].OSEventCnt = n]
SetPtr(s, e, m) == [s EXCEPT !.ecb[e].OSEventPtr = m]

(* A semaphore's count can be set. *)
LEMMA SemFilled ==
  ASSUME NEW s, NEW f, ListsOK(s, f), NEW e \in Event, s.ecb[e].OSEventType = "SEM", NEW n \in Nat,
         NEW r, r = SetCnt(s, e, n)
  PROVE  /\ ListsOK(r, f) /\ SameSched(r, s) /\ r.OSRdy = s.OSRdy
         /\ \A x \in Event : GrantedIn(r, f, x) = GrantedIn(s, f, x)
         /\ \A x \in Event \ {e} : r.ecb[x] = s.ecb[x]
         /\ r.ecb[e].OSEventType = "SEM" /\ r.ecb[e].OSEventCnt = n /\ r.tcb = s.tcb
<1>1. PICK c : c = [s.ecb[e] EXCEPT !.OSEventCnt = n]
  OBVIOUS
<1>2. Refilled(s, r, e, c)
  BY <1>1, EcbFields DEF Refilled, SameSched, SetCnt, SetPtr
<1>3. /\ c.OSEventType = s.ecb[e].OSEventType /\ c.wait = s.ecb[e].wait
      /\ c.OSEventCnt = n /\ DOMAIN c = DOMAIN s.ecb[e]
  BY <1>1, EcbFields
<1>4. EcbOK(c)
  BY <1>3, EcbFields DEF EcbOK
<1>41. \A t \in Tcb : Owns(r, f, t)
  BY <1>2, SameOwners
<1>5. /\ ListsOK(r, f)
      /\ \A x \in Event : GrantedIn(r, f, x) = GrantedIn(s, f, x)
      /\ \A x \in Event \ {e} : r.ecb[x] = s.ecb[x]
      /\ r.ecb[e] = c
  BY <1>2, <1>3, <1>4, <1>41, RefilledLists
<1> QED
  BY <1>2, <1>3, <1>5 DEF Refilled

(* A mailbox can be filled or emptied. *)
LEMMA MboxFilled ==
  ASSUME NEW s, NEW f, ListsOK(s, f), NEW e \in Event, s.ecb[e].OSEventType = "MBOX",
         NEW m \in Message \cup {NULL}, NEW r, r = SetPtr(s, e, m)
  PROVE  /\ ListsOK(r, f) /\ SameSched(r, s) /\ r.OSRdy = s.OSRdy
         /\ \A x \in Event : GrantedIn(r, f, x) = GrantedIn(s, f, x)
         /\ \A x \in Event \ {e} : r.ecb[x] = s.ecb[x]
         /\ r.ecb[e].OSEventType = "MBOX" /\ r.ecb[e].OSEventPtr = m /\ r.tcb = s.tcb
<1>1. PICK c : c = [s.ecb[e] EXCEPT !.OSEventPtr = m]
  OBVIOUS
<1>2. Refilled(s, r, e, c)
  BY <1>1, EcbFields DEF Refilled, SameSched, SetCnt, SetPtr
<1>3. /\ c.OSEventType = s.ecb[e].OSEventType /\ c.wait = s.ecb[e].wait
      /\ c.OSEventPtr = m /\ DOMAIN c = DOMAIN s.ecb[e]
  BY <1>1, EcbFields
<1>4. EcbOK(c)
  BY <1>3, EcbFields DEF EcbOK
<1>41. \A t \in Tcb : Owns(r, f, t)
  BY <1>2, SameOwners
<1>5. /\ ListsOK(r, f)
      /\ \A x \in Event : GrantedIn(r, f, x) = GrantedIn(s, f, x)
      /\ \A x \in Event \ {e} : r.ecb[x] = s.ecb[x]
      /\ r.ecb[e] = c
  BY <1>2, <1>3, <1>4, <1>41, RefilledLists
<1> QED
  BY <1>2, <1>3, <1>5 DEF Refilled

(* A queue's ring can be replaced by another. *)
LEMMA QFilled ==
  ASSUME NEW s, NEW f, ListsOK(s, f), NEW e \in Event, s.ecb[e].OSEventType = "Q",
         NEW q, Ring(q), NEW r, r = SetPtr(s, e, q)
  PROVE  /\ ListsOK(r, f) /\ SameSched(r, s) /\ r.OSRdy = s.OSRdy
         /\ \A x \in Event : GrantedIn(r, f, x) = GrantedIn(s, f, x)
         /\ \A x \in Event \ {e} : r.ecb[x] = s.ecb[x]
         /\ r.ecb[e].OSEventType = "Q" /\ r.ecb[e].OSEventPtr = q /\ r.tcb = s.tcb
<1>1. PICK c : c = [s.ecb[e] EXCEPT !.OSEventPtr = q]
  OBVIOUS
<1>2. Refilled(s, r, e, c)
  BY <1>1, EcbFields DEF Refilled, SameSched, SetCnt, SetPtr
<1>3. /\ c.OSEventType = s.ecb[e].OSEventType /\ c.wait = s.ecb[e].wait
      /\ c.OSEventPtr = q /\ DOMAIN c = DOMAIN s.ecb[e]
  BY <1>1, EcbFields
<1>4. EcbOK(c)
  BY <1>3, EcbFields DEF EcbOK
<1>41. \A t \in Tcb : Owns(r, f, t)
  BY <1>2, SameOwners
<1>5. /\ ListsOK(r, f)
      /\ \A x \in Event : GrantedIn(r, f, x) = GrantedIn(s, f, x)
      /\ \A x \in Event \ {e} : r.ecb[x] = s.ecb[x]
      /\ r.ecb[e] = c
  BY <1>2, <1>3, <1>4, <1>41, RefilledLists
<1> QED
  BY <1>2, <1>3, <1>5 DEF Refilled

-----------------------------------------------------------------------------
(* The ring of a queue.                                                    *)

(* The slot of the i-th message. *)
Slot(out, i) == (out + i) % QSIZE

(* The slots of a ring, by arithmetic modulo its size: what Step and       *)
(* StepBack reach.                                                         *)
LEMMA SlotIs ==
  ASSUME NEW out \in 0 .. QSIZE - 1, NEW i \in 0 .. QSIZE
  PROVE  /\ Slot(out, i) = IF out + i < QSIZE THEN out + i ELSE out + i - QSIZE
         /\ Slot(out, i) \in 0 .. QSIZE - 1
<1>1. QSIZE \in Nat \ {0}
  BY ApplicationAssumption
<1>0. out \in Nat /\ i \in Nat /\ out + i \in Nat
  BY <1>1
<1>2. CASE out + i < QSIZE
  BY <1>0, <1>1, <1>2 DEF Slot
<1>3. CASE out + i >= QSIZE
  <2>1. out + i = 1 * QSIZE + (out + i - QSIZE) /\ out + i - QSIZE \in 0 .. QSIZE - 1
    BY <1>1, <1>3
  <2> QED
    BY <1>1, <1>3, <2>1 DEF Slot
<1> QED
  BY <1>0, <1>1, <1>2, <1>3

(* A ring's invariant in terms of its slots. *)
LEMMA RingIs == \A q : Ring(q) <=>
    /\ q \in [OSQIn : 0 .. QSIZE - 1, OSQOut : 0 .. QSIZE - 1, OSQEntries : 0 .. QSIZE,
              ring : [0 .. QSIZE - 1 -> Message \cup {NULL}]]
    /\ q.OSQIn = Slot(q.OSQOut, q.OSQEntries)
    /\ \A i \in 0 .. q.OSQEntries - 1 : q.ring[Slot(q.OSQOut, i)] \in Message
BY DEF Ring, Slot

Dropping(q) == [q EXCEPT !.OSQOut = Step(@), !.OSQEntries = @ - 1]
Emptying(q) == [q EXCEPT !.OSQIn = 0, !.OSQOut = 0, !.OSQEntries = 0]

(* OSQAccept and OSQPend take the first message, and the others move up    *)
(* one place.                                                              *)
LEMMA Dropped ==
  ASSUME NEW q, Ring(q), q.OSQEntries > 0, NEW n,
         n = Dropping(q)
  PROVE  /\ Ring(n) /\ n.OSQEntries = q.OSQEntries - 1 /\ q.ring[q.OSQOut] \in Message
         /\ \A i \in 0 .. n.OSQEntries - 1 : n.ring[Slot(n.OSQOut, i)] = q.ring[Slot(q.OSQOut, i + 1)]
<1>1. PICK out, len : out = q.OSQOut /\ len = q.OSQEntries
  OBVIOUS
<1>2. /\ QSIZE \in Nat \ {0} /\ out \in 0 .. QSIZE - 1 /\ len \in 1 .. QSIZE
      /\ q.OSQIn = Slot(out, len) /\ \A i \in 0 .. len - 1 : q.ring[Slot(out, i)] \in Message
  BY <1>1, RingIs, ApplicationAssumption
<1>3. /\ n \in [OSQIn : 0 .. QSIZE - 1, OSQOut : 0 .. QSIZE - 1, OSQEntries : 0 .. QSIZE,
              ring : [0 .. QSIZE - 1 -> Message \cup {NULL}]]
      /\ n.OSQOut = Step(out) /\ n.OSQEntries = len - 1 /\ n.OSQIn = q.OSQIn /\ n.ring = q.ring
  <2>1. Step(out) \in 0 .. QSIZE - 1 /\ len - 1 \in 0 .. QSIZE
    BY <1>2 DEF Step
  <2> QED
    BY <1>1, <2>1, RingIs DEF Dropping
<1>4. \A i \in 0 .. len - 1 : Slot(Step(out), i) = Slot(out, i + 1)
  <2>1. ASSUME NEW i \in 0 .. len - 1 PROVE Slot(Step(out), i) = Slot(out, i + 1)
    <3>1. Step(out) \in 0 .. QSIZE - 1 /\ i \in 0 .. QSIZE /\ i + 1 \in 0 .. QSIZE
      BY <1>2 DEF Step
    <3>2. /\ Slot(Step(out), i) = IF Step(out) + i < QSIZE THEN Step(out) + i ELSE Step(out) + i - QSIZE
          /\ Slot(out, i + 1) = IF out + (i + 1) < QSIZE THEN out + (i + 1) ELSE out + (i + 1) - QSIZE
      BY <1>2, <3>1, SlotIs
    <3> QED
      BY <1>2, <3>2 DEF Step
  <2> QED
    BY <2>1
<1>5. Slot(out, 0) = out /\ len - 1 \in 0 .. len - 1 /\ (len - 1) + 1 = len
  BY <1>2, SlotIs
<1>6. n.OSQIn = Slot(n.OSQOut, n.OSQEntries)
  BY <1>2, <1>3, <1>4, <1>5
<1>7. \A i \in 0 .. len - 2 : n.ring[Slot(Step(out), i)] = q.ring[Slot(out, i + 1)] /\ i + 1 \in 0 .. len - 1
  BY <1>2, <1>3, <1>4
<1>8. len - 2 = n.OSQEntries - 1
  BY <1>2, <1>3
<1>9. \A i \in 0 .. n.OSQEntries - 1 : n.ring[Slot(n.OSQOut, i)] \in Message
  BY <1>2, <1>3, <1>7, <1>8
<1>10. q.ring[out] \in Message
  <2>1. 0 \in 0 .. len - 1
    BY <1>2
  <2> QED
    BY <1>2, <1>5, <2>1
<1> QED
  BY <1>1, <1>3, <1>6, <1>7, <1>8, <1>9, <1>10, RingIs

Appending(q, msg) == [q EXCEPT !.OSQIn = Step(@), !.ring[q.OSQIn] = msg, !.OSQEntries = @ + 1]
Prepending(q, msg) ==
    [q EXCEPT !.OSQOut = StepBack(@), !.ring[StepBack(q.OSQOut)] = msg, !.OSQEntries = @ + 1]

(* OSQPost puts its message after the others. *)
LEMMA Appended ==
  ASSUME NEW q, Ring(q), q.OSQEntries < QSIZE, NEW msg \in Message, NEW n,
         n = Appending(q, msg)
  PROVE  /\ Ring(n) /\ n.OSQEntries = q.OSQEntries + 1
         /\ \A i \in 0 .. q.OSQEntries - 1 : n.ring[Slot(n.OSQOut, i)] = q.ring[Slot(q.OSQOut, i)]
         /\ n.ring[Slot(n.OSQOut, q.OSQEntries)] = msg
<1>1. PICK out, len, in : out = q.OSQOut /\ len = q.OSQEntries /\ in = q.OSQIn
  OBVIOUS
<1>2. /\ QSIZE \in Nat \ {0} /\ out \in 0 .. QSIZE - 1 /\ len \in 0 .. QSIZE - 1 /\ in \in 0 .. QSIZE - 1
      /\ in = Slot(out, len) /\ \A i \in 0 .. len - 1 : q.ring[Slot(out, i)] \in Message
      /\ q.ring \in [0 .. QSIZE - 1 -> Message \cup {NULL}]
  BY <1>1, RingIs, ApplicationAssumption
<1>3. PICK rg : rg = [q.ring EXCEPT ![in] = msg]
  OBVIOUS
<1>4. rg \in [0 .. QSIZE - 1 -> Message \cup {NULL}] /\ rg[in] = msg
      /\ \A j \in 0 .. QSIZE - 1 : j # in => rg[j] = q.ring[j]
  BY <1>2, <1>3
<1>5. /\ n \in [OSQIn : 0 .. QSIZE - 1, OSQOut : 0 .. QSIZE - 1, OSQEntries : 0 .. QSIZE,
              ring : [0 .. QSIZE - 1 -> Message \cup {NULL}]]
      /\ n.OSQOut = out /\ n.OSQEntries = len + 1 /\ n.OSQIn = Step(in) /\ n.ring = rg
  <2>1. Step(in) \in 0 .. QSIZE - 1 /\ len + 1 \in 0 .. QSIZE
    BY <1>2 DEF Step
  <2>2. DOMAIN q = {"OSQIn", "OSQOut", "OSQEntries", "ring"}
    BY RingIs
  <2>3. n.OSQOut = out /\ n.OSQEntries = len + 1 /\ n.OSQIn = Step(in) /\ n.ring = rg /\ DOMAIN n = DOMAIN q
    BY <1>1, <1>3, <2>2 DEF Appending
  <2>4. n = [OSQIn |-> n.OSQIn, OSQOut |-> n.OSQOut, OSQEntries |-> n.OSQEntries, ring |-> n.ring]
    BY <2>2 DEF Appending
  <2> QED
    BY <1>2, <1>4, <2>1, <2>3, <2>4
<1>60. len \in 0 .. QSIZE /\ len + 1 \in 0 .. QSIZE
  BY <1>2
<1>61. /\ Slot(out, len) = IF out + len < QSIZE THEN out + len ELSE out + len - QSIZE
       /\ Slot(out, len + 1) = IF out + (len + 1) < QSIZE THEN out + (len + 1) ELSE out + (len + 1) - QSIZE
  BY <1>60, <1>2, SlotIs
<1>6. Step(in) = Slot(out, len + 1)
  BY <1>2, <1>61 DEF Step
<1>7. \A i \in 0 .. len - 1 : Slot(out, i) # in /\ Slot(out, i) \in 0 .. QSIZE - 1
  <2>1. ASSUME NEW i \in 0 .. len - 1 PROVE Slot(out, i) # in /\ Slot(out, i) \in 0 .. QSIZE - 1
    <3>1. i \in 0 .. QSIZE
      BY <1>2
    <3>2. /\ Slot(out, i) = IF out + i < QSIZE THEN out + i ELSE out + i - QSIZE
          /\ Slot(out, i) \in 0 .. QSIZE - 1
      BY <1>2, <3>1, SlotIs
    <3> QED
      BY <1>2, <1>61, <3>2
  <2> QED
    BY <2>1
<1>8. \A i \in 0 .. len - 1 : rg[Slot(out, i)] = q.ring[Slot(out, i)]
  BY <1>4, <1>7
<1>9. \A i \in 0 .. n.OSQEntries - 1 : n.ring[Slot(n.OSQOut, i)] \in Message
  <2>1. ASSUME NEW i \in 0 .. len PROVE rg[Slot(out, i)] \in Message
    <3>1. CASE i = len
      BY <1>2, <1>4, <3>1
    <3>2. CASE i # len
      <4>1. i \in 0 .. len - 1
        BY <1>2, <3>2
      <4> QED
        BY <1>2, <1>8, <4>1
    <3> QED
      BY <3>1, <3>2
  <2>2. n.OSQEntries - 1 = len
    BY <1>2, <1>5
  <2> QED
    BY <1>5, <2>1, <2>2
<1> QED
  BY <1>1, <1>2, <1>4, <1>5, <1>6, <1>8, <1>9, RingIs

(* OSQPostFront puts its message before the others. *)
LEMMA Prepended ==
  ASSUME NEW q, Ring(q), q.OSQEntries < QSIZE, NEW msg \in Message, NEW n,
         n = Prepending(q, msg)
  PROVE  /\ Ring(n) /\ n.OSQEntries = q.OSQEntries + 1
         /\ \A i \in 0 .. q.OSQEntries - 1 : n.ring[Slot(n.OSQOut, i + 1)] = q.ring[Slot(q.OSQOut, i)]
         /\ n.ring[Slot(n.OSQOut, 0)] = msg
<1>1. PICK out, len, in, new : out = q.OSQOut /\ len = q.OSQEntries /\ in = q.OSQIn /\ new = StepBack(out)
  OBVIOUS
<1>2. /\ QSIZE \in Nat \ {0} /\ out \in 0 .. QSIZE - 1 /\ len \in 0 .. QSIZE - 1 /\ in \in 0 .. QSIZE - 1
      /\ in = Slot(out, len) /\ \A i \in 0 .. len - 1 : q.ring[Slot(out, i)] \in Message
      /\ q.ring \in [0 .. QSIZE - 1 -> Message \cup {NULL}]
  BY <1>1, RingIs, ApplicationAssumption
<1>20. new \in 0 .. QSIZE - 1
  BY <1>1, <1>2 DEF StepBack
<1>3. PICK rg : rg = [q.ring EXCEPT ![new] = msg]
  OBVIOUS
<1>4. rg \in [0 .. QSIZE - 1 -> Message \cup {NULL}] /\ rg[new] = msg
      /\ \A j \in 0 .. QSIZE - 1 : j # new => rg[j] = q.ring[j]
  BY <1>2, <1>20, <1>3
<1>5. /\ n \in [OSQIn : 0 .. QSIZE - 1, OSQOut : 0 .. QSIZE - 1, OSQEntries : 0 .. QSIZE,
              ring : [0 .. QSIZE - 1 -> Message \cup {NULL}]]
      /\ n.OSQOut = new /\ n.OSQEntries = len + 1 /\ n.OSQIn = in /\ n.ring = rg
  <2>1. len + 1 \in 0 .. QSIZE
    BY <1>2
  <2>2. DOMAIN q = {"OSQIn", "OSQOut", "OSQEntries", "ring"}
    BY RingIs
  <2>3. n.OSQOut = new /\ n.OSQEntries = len + 1 /\ n.OSQIn = in /\ n.ring = rg /\ DOMAIN n = DOMAIN q
    BY <1>1, <1>3, <2>2 DEF Prepending
  <2>4. n = [OSQIn |-> n.OSQIn, OSQOut |-> n.OSQOut, OSQEntries |-> n.OSQEntries, ring |-> n.ring]
    BY <2>2 DEF Prepending
  <2> QED
    BY <1>2, <1>20, <1>4, <2>1, <2>3, <2>4
<1>6. \A i \in 0 .. len : Slot(new, i + 1) = Slot(out, i)
  <2>1. ASSUME NEW i \in 0 .. len PROVE Slot(new, i + 1) = Slot(out, i)
    <3>1. i \in 0 .. QSIZE /\ i + 1 \in 0 .. QSIZE
      BY <1>2
    <3>2. /\ Slot(new, i + 1) = IF new + (i + 1) < QSIZE THEN new + (i + 1) ELSE new + (i + 1) - QSIZE
          /\ Slot(out, i) = IF out + i < QSIZE THEN out + i ELSE out + i - QSIZE
      BY <1>2, <1>20, <3>1, SlotIs
    <3>4. i < QSIZE /\ i \in Nat /\ out \in Nat /\ out < QSIZE
      BY <1>2
    <3>5. CASE out = 0
      BY <1>1, <1>2, <3>2, <3>4, <3>5 DEF StepBack
    <3>6. CASE out # 0
      BY <1>1, <1>2, <3>2, <3>4, <3>6, SMTT(30) DEF StepBack
    <3> QED
      BY <3>5, <3>6
  <2> QED
    BY <2>1
<1>7. \A i \in 0 .. len - 1 : Slot(out, i) # new /\ Slot(out, i) \in 0 .. QSIZE - 1
  <2>1. ASSUME NEW i \in 0 .. len - 1 PROVE Slot(out, i) # new /\ Slot(out, i) \in 0 .. QSIZE - 1
    <3>1. i \in 0 .. QSIZE
      BY <1>2
    <3>2. /\ Slot(out, i) = IF out + i < QSIZE THEN out + i ELSE out + i - QSIZE
          /\ Slot(out, i) \in 0 .. QSIZE - 1
      BY <1>2, <3>1, SlotIs
    <3>3. /\ Slot(out, len) = IF out + len < QSIZE THEN out + len ELSE out + len - QSIZE
      <4>1. len \in 0 .. QSIZE
        BY <1>2
      <4> QED
        BY <1>2, <4>1, SlotIs
    <3>4. i < len /\ len < QSIZE /\ i \in Nat /\ len \in Nat /\ out \in Nat
      BY <1>2
    <3>5. CASE out = 0
      BY <1>1, <1>2, <3>2, <3>4, <3>5 DEF StepBack
    <3>6. CASE out # 0
      BY <1>1, <1>2, <3>2, <3>4, <3>6 DEF StepBack
    <3> QED
      BY <3>5, <3>6
  <2> QED
    BY <2>1
<1>8. \A i \in 0 .. len - 1 : rg[Slot(new, i + 1)] = q.ring[Slot(out, i)]
  BY <1>2, <1>4, <1>6, <1>7
<1>80. Slot(new, 0) = new
  BY <1>2, <1>20, SlotIs
<1>9. \A i \in 0 .. n.OSQEntries - 1 : n.ring[Slot(n.OSQOut, i)] \in Message
  <2>1. ASSUME NEW i \in 0 .. len PROVE rg[Slot(new, i)] \in Message
    <3>1. CASE i = 0
      BY <1>4, <1>80, <3>1
    <3>2. CASE i # 0
      <4>1. i - 1 \in 0 .. len - 1 /\ (i - 1) + 1 = i
        BY <1>2, <3>2
      <4>2. rg[Slot(new, i)] = q.ring[Slot(out, i - 1)]
        BY <1>8, <4>1
      <4> QED
        BY <1>2, <4>1, <4>2
    <3> QED
      BY <3>1, <3>2
  <2>2. n.OSQEntries - 1 = len
    BY <1>2, <1>5
  <2> QED
    BY <1>5, <2>1, <2>2
<1>10. in = Slot(new, len + 1)
  BY <1>2, <1>6
<1> QED
  BY <1>1, <1>2, <1>4, <1>5, <1>8, <1>80, <1>9, <1>10, RingIs

(* OSQFlush leaves an empty ring. *)
LEMMA EmptyRing ==
  ASSUME NEW q, Ring(q), NEW n, n = Emptying(q)
  PROVE  Ring(n) /\ n.OSQEntries = 0
<1>1. QSIZE \in Nat \ {0}
  BY ApplicationAssumption
<1>20. /\ DOMAIN q = {"OSQIn", "OSQOut", "OSQEntries", "ring"}
       /\ q.ring \in [0 .. QSIZE - 1 -> Message \cup {NULL}]
       /\ 0 \in 0 .. QSIZE - 1 /\ 0 \in 0 .. QSIZE
  BY <1>1, RingIs
<1>21. DOMAIN n = DOMAIN q /\ n.OSQOut = 0 /\ n.OSQEntries = 0 /\ n.OSQIn = 0 /\ n.ring = q.ring
  BY <1>20 DEF Emptying
<1>22. n = [OSQIn |-> n.OSQIn, OSQOut |-> n.OSQOut, OSQEntries |-> n.OSQEntries, ring |-> n.ring]
  BY <1>20 DEF Emptying
<1>2. /\ n \in [OSQIn : 0 .. QSIZE - 1, OSQOut : 0 .. QSIZE - 1, OSQEntries : 0 .. QSIZE,
              ring : [0 .. QSIZE - 1 -> Message \cup {NULL}]]
      /\ n.OSQOut = 0 /\ n.OSQEntries = 0 /\ n.OSQIn = 0
  BY <1>20, <1>21, <1>22
<1>3. Slot(0, 0) = 0
  BY <1>1, SlotIs
<1>4. \A i \in 0 .. 0 - 1 : n.ring[Slot(0, i)] \in Message
  OBVIOUS
<1> QED
  BY <1>2, <1>3, <1>4, RingIs

(* Task t is the one that executes instructions. *)
Running(s, t) ==
    /\ t \in Task /\ s.OSRunning /\ s.OSTCBCur = t /\ ~s.msip

JoinList(s, e, p) == [s.ecb EXCEPT ![e].wait = SetBit(@, p)]

(* Putting a priority on an event's list changes that bit alone. *)
LEMMA JoinListIs ==
  ASSUME NEW s, NEW f, ListsOK(s, f), NEW e \in Event, NEW p \in Prio, s.ecb[e].OSEventType # "UNUSED"
  PROVE  /\ EcbsButFor(p, JoinList(s, e, p), s.ecb)
         /\ JoinList(s, e, p)[e].wait.tbl = s.ecb[e].wait.tbl \cup {p}
         /\ \A x \in Event \ {e} : JoinList(s, e, p)[x] = s.ecb[x]
         /\ \A x \in Event : /\ JoinList(s, e, p)[x].OSEventType = s.ecb[x].OSEventType
                             /\ JoinList(s, e, p)[x].OSEventCnt = s.ecb[x].OSEventCnt
                             /\ JoinList(s, e, p)[x].OSEventPtr = s.ecb[x].OSEventPtr
<1>1. PICK a, c : a = JoinList(s, e, p) /\ c = SetBit(s.ecb[e].wait, p)
  OBVIOUS
<1>2. DOMAIN s.ecb = Event /\ \A x \in Event : EcbOK(s.ecb[x])
  BY DEF ListsOK, KernelType
<1>3. Agrees(c) /\ c.tbl = s.ecb[e].wait.tbl \cup {p}
  BY <1>1, <1>2, SetBitIs DEF EcbOK
<1>4. DOMAIN a = Event /\ \A x \in Event \ {e} : a[x] = s.ecb[x]
  BY <1>1, <1>2 DEF JoinList
<1>5. a[e] = [s.ecb[e] EXCEPT !.wait = c]
  BY <1>1, <1>2 DEF JoinList
<1>6. /\ DOMAIN a[e] = {"OSEventType", "OSEventCnt", "OSEventPtr", "pcp", "wait"}
      /\ a[e].OSEventType = s.ecb[e].OSEventType /\ a[e].OSEventCnt = s.ecb[e].OSEventCnt
      /\ a[e].OSEventPtr = s.ecb[e].OSEventPtr /\ a[e].wait = c /\ a[e].pcp = s.ecb[e].pcp
  BY <1>2, <1>5 DEF EcbOK
<1>7. EcbOK(a[e])
  BY <1>2, <1>3, <1>6 DEF EcbOK
<1>8. EcbsButFor(p, a, s.ecb)
  <2>1. ASSUME NEW x \in Event
        PROVE  /\ EcbOK(a[x]) /\ a[x].OSEventType = s.ecb[x].OSEventType
               /\ a[x].OSEventPtr = s.ecb[x].OSEventPtr /\ ButFor(p, a[x].wait, s.ecb[x].wait)
    <3>1. CASE x = e
      BY <1>3, <1>6, <1>7, <3>1 DEF ButFor
    <3>2. CASE x # e
      BY <1>2, <1>4, <3>2 DEF ButFor, EcbOK
    <3> QED
      BY <3>1, <3>2
  <2> QED
    BY <1>4, <2>1 DEF EcbsButFor
<1> QED
  BY <1>1, <1>3, <1>4, <1>6, <1>8

(* The fields of the kernel and of a task. *)
LEMMA TcbFields ==
  ASSUME NEW s, NEW f, ListsOK(s, f), NEW t \in Tcb
  PROVE  /\ DOMAIN s.tcb = Tcb /\ s.tcb[t] \in TcbType
         /\ DOMAIN s.tcb[t] = {"OSTCBPrio", "OSTCBStat", "OSTCBStatPend", "OSTCBDly", "OSTCBEventPtr",
                "OSTCBEventMultiPtr", "OSTCBMsg", "OSTCBFlagNode", "OSTCBFlagsRdy", "OSTCBDelReq"}
         /\ DOMAIN s = {"OSRunning", "OSIntNesting", "OSLockNesting", "OSPrioCur", "OSPrioHighRdy",
                   "OSTCBCur", "OSTCBHighRdy", "OSRdy", "OSTCBPrioTbl", "tcb", "ecb", "msip", "flag"}
BY DEF ListsOK, KernelType, TcbType

(* The running task is one of the application's, has the current priority, *)
(* and no interrupt is nested.                                             *)
LEMMA RunningIs ==
  ASSUME NEW s, NEW f, ListsOK(s, f), SchedOK(s, f), NEW t, Running(s, t)
  PROVE  /\ t \in Task /\ t \in Tcb /\ t # Idle /\ PrioOf(s, t) \in Prio /\ PrioOf(s, t) # NULL
         /\ PrioOf(s, t) = s.OSPrioCur /\ TaskOK(s, f, t) /\ s.OSIntNesting = 0
BY KernelAssumption DEF ListsOK, SchedOK, KernelType, Running, Tcb

SameContentsIs(r, s) == \A x \in Event : Contents(r.ecb[x]) = Contents(s.ecb[x])

(* Events with the same fields hold the same. *)
LEMMA ContentsSame == \A r, s : SameContents(r, s) => SameContentsIs(r, s)
BY DEF SameContents, Contents, SameContentsIs

(* What a step can do to a ring, and to the rings of all queues: it moves  *)
(* one of them at the most.                                                *)
RingMoves(q, n) ==
    \/ n = q \/ n = Emptying(q)
    \/ q.OSQEntries < QSIZE /\ \E m \in Message : n = Appending(q, m) \/ n = Prepending(q, m)
    \/ q.OSQEntries > 0 /\ n = Dropping(q)
RingStays(r, s, x) == s.ecb[x].OSEventType = "Q" => r.ecb[x].OSEventPtr = s.ecb[x].OSEventPtr
QueuesMove(r, s) ==
    /\ \A x \in Event : r.ecb[x].OSEventType = s.ecb[x].OSEventType
    /\ \/ \A x \in Event : RingStays(r, s, x)
       \/ \E e \in Event :
             /\ \A x \in Event \ {e} : RingStays(r, s, x)
             /\ s.ecb[e].OSEventType = "Q" => RingMoves(s.ecb[e].OSEventPtr, r.ecb[e].OSEventPtr)

(* The same, and every mutex keeps its owner.                              *)
EventsMove(r, s) == QueuesMove(r, s) /\ OwnersStay(r, s)

(* A step that leaves the fields of the events alone moves nothing. *)
LEMMA QueuesStay == \A r, s : SameContents(r, s) \/ r.ecb = s.ecb => EventsMove(r, s)
BY DEF SameContents, EventsMove, QueuesMove, RingStays, OwnersStay

-----------------------------------------------------------------------------
(* Waiting for an event.                                                   *)

WaitingTcb(tcb, e, type, timeout) ==
    [PendingTcb(tcb, type, timeout) EXCEPT !.OSTCBEventPtr = e]

(* The fields of the TCB of a task that starts to wait. *)
LEMMA WaitingIs ==
  ASSUME NEW tcb \in TcbType, NEW e \in Event, NEW type \in {"SEM", "MUTEX", "MBOX", "Q"}, NEW timeout \in Nat
  PROVE  /\ WaitingTcb(tcb, e, type, timeout) \in TcbType
         /\ WaitingTcb(tcb, e, type, timeout).OSTCBPrio = tcb.OSTCBPrio
         /\ WaitingTcb(tcb, e, type, timeout).OSTCBStat = tcb.OSTCBStat \cup {type}
         /\ WaitingTcb(tcb, e, type, timeout).OSTCBStatPend = "OK"
         /\ WaitingTcb(tcb, e, type, timeout).OSTCBDly = timeout
         /\ WaitingTcb(tcb, e, type, timeout).OSTCBEventPtr = e
BY DEF WaitingTcb, PendingTcb, TcbType

(* What OS_EventTaskWait does to the tables. *)
LEMMA PendChanges ==
  ASSUME NEW s, NEW f, ListsOK(s, f), NEW t \in Tcb, s.OSTCBCur = t, NEW e \in Event, NEW type, NEW timeout
  PROVE  Changed(s, Pend(s, e, type, timeout).s, t, WaitingTcb(s.tcb[t], e, type, timeout),
                 ClearBit(s.OSRdy, PrioOf(s, t)), JoinList(s, e, PrioOf(s, t)))
<1>1. PICK p, w, n : p = PrioOf(s, t) /\ w = PendingTcb(s.tcb[t], type, timeout)
                     /\ n = [s EXCEPT !.tcb[t] = PendingTcb(@, type, timeout)]
  OBVIOUS
<1>2. /\ DOMAIN n = DOMAIN s /\ SameSched(n, s) /\ n.OSTCBPrioTbl = s.OSTCBPrioTbl /\ n.flag = s.flag
      /\ n.OSRdy = s.OSRdy /\ n.ecb = s.ecb /\ n.tcb = [s.tcb EXCEPT ![t] = w]
  BY <1>1, TcbFields DEF SameSched
<1>3. n.tcb[t] = w /\ DOMAIN w = DOMAIN s.tcb[t] /\ w.OSTCBPrio = p
  BY <1>1, <1>2, TcbFields DEF PendingTcb, PrioOf
<1>4. PICK a : a = Unready(n, t)
  OBVIOUS
<1>5. /\ DOMAIN a = DOMAIN s /\ SameSched(a, s) /\ a.OSTCBPrioTbl = s.OSTCBPrioTbl /\ a.flag = s.flag
      /\ a.OSRdy = ClearBit(s.OSRdy, p) /\ a.ecb = s.ecb /\ a.tcb = n.tcb
  BY <1>2, <1>3, <1>4, TcbFields DEF Unready, PrioOf, SameSched
<1>6. PICK b : b = [a EXCEPT !.tcb[t].OSTCBEventPtr = e]
  OBVIOUS
<1>7. /\ DOMAIN b = DOMAIN s /\ SameSched(b, s) /\ b.OSTCBPrioTbl = s.OSTCBPrioTbl /\ b.flag = s.flag
      /\ b.OSRdy = ClearBit(s.OSRdy, p) /\ b.ecb = s.ecb
      /\ b.tcb = [n.tcb EXCEPT ![t] = [@ EXCEPT !.OSTCBEventPtr = e]]
  BY <1>5, <1>6, TcbFields DEF SameSched
<1>8. b.tcb = [s.tcb EXCEPT ![t] = [w EXCEPT !.OSTCBEventPtr = e]]
  BY <1>2, <1>3, <1>7, TcbFields
<1>9. PICK r, c : r = [b EXCEPT !.ecb[e].wait = c] /\ c = SetBit(s.ecb[e].wait, p)
  OBVIOUS
<1>10. /\ DOMAIN r = DOMAIN s /\ SameSched(r, s) /\ r.OSTCBPrioTbl = s.OSTCBPrioTbl /\ r.flag = s.flag
       /\ r.OSRdy = ClearBit(s.OSRdy, p) /\ r.tcb = b.tcb
       /\ r.ecb = [b.ecb EXCEPT ![e] = [@ EXCEPT !.wait = c]]
  BY <1>7, <1>9, TcbFields DEF SameSched
<1>11. r.ecb = JoinList(s, e, p)
  BY <1>7, <1>9, <1>10 DEF JoinList
<1>12. OS_EventTaskWait(n, e) = r
  <2>1. n.OSTCBCur = t /\ PrioOf(n, t) = p /\ n.ecb[e].wait = s.ecb[e].wait
    BY <1>2, <1>3 DEF SameSched, PrioOf
  <2>2. OS_EventTaskWait(n, e) =
            [a EXCEPT !.tcb[t].OSTCBEventPtr = e, !.ecb[e].wait = SetBit(@, p)]
    BY <1>4, <2>1 DEF OS_EventTaskWait
  <2>3. [a EXCEPT !.tcb[t].OSTCBEventPtr = e, !.ecb[e].wait = SetBit(@, p)]
            = [b EXCEPT !.ecb[e].wait = SetBit(@, p)]
    BY <1>6
  <2>4. [b EXCEPT !.ecb[e].wait = SetBit(@, p)] = r
    BY <1>7, <1>9
  <2> QED
    BY <2>2, <2>3, <2>4
<1>13. Pend(s, e, type, timeout).s = r
  BY <1>1, <1>12 DEF Pend, Block
<1> QED
  BY <1>1, <1>8, <1>10, <1>11, <1>13 DEF Changed, WaitingTcb

(* The calls in progress, but for what task t is doing.                    *)
PutFrame(f, t, at) == [f EXCEPT ![t] = at]

(* A task that starts to wait is off the ready table and on the list of    *)
(* its event, as the frame it is in says.                                  *)
LEMMA PendLists ==
  ASSUME NEW s, NEW f, ListsOK(s, f), SchedOK(s, f), NEW t, Running(s, t), ~Asleep(f, t),
         NEW c \in PlainCall, CallOK(s, c), c.op \in PendOps,
         NEW r, r = Pend(s, c.e, TypeFor(c.op), c.timeout).s,
         NEW g, g = PutFrame(f, t, [at |-> "block", call |-> c])
  PROVE  /\ ListsOK(r, g) /\ SameSched(r, s) /\ SameContents(r, s) /\ PrioOf(r, t) = PrioOf(s, t)
         /\ \A x \in Event : GrantedIn(r, g, x) = GrantedIn(s, f, x)
<1>1. PICK p, e, type, timeout : p = PrioOf(s, t) /\ e = c.e /\ type = TypeFor(c.op) /\ timeout = c.timeout
  OBVIOUS
<1>2. /\ t \in Task /\ t \in Tcb /\ p \in Prio /\ p # NULL /\ TaskOK(s, f, t) /\ s.OSTCBCur = t /\ t # Idle
  BY <1>1, RunningIs DEF Running
<1>3. /\ e \in Event /\ timeout \in Nat /\ type \in {"SEM", "MUTEX", "MBOX", "Q"} /\ s.ecb[e].OSEventType = type
      /\ e # NULL
  <2>1. e \in Event /\ timeout \in Nat
    BY <1>1 DEF PlainCall, PendOps
  <2>2. type \in {"SEM", "MUTEX", "MBOX", "Q"}
    BY <1>1 DEF TypeFor
  <2>3. s.ecb[e].OSEventType = type
    BY <1>1 DEF CallOK, EventOps, SemOps, MutexOps, MboxOps, QOps, PendOps
  <2> QED
    BY <2>1, <2>2, <2>3, KernelAssumption
<1>4. s.tcb \in [Tcb -> TcbType] /\ s.tcb[t] \in TcbType /\ Agrees(s.OSRdy) /\ DOMAIN f = Tcb /\ FrameOK(s, f)
  BY <1>2 DEF ListsOK, KernelType, FrameOK
<1>5. PICK w, rdy, ecb : /\ w = WaitingTcb(s.tcb[t], e, type, timeout) /\ rdy = ClearBit(s.OSRdy, p)
                         /\ ecb = JoinList(s, e, p)
  OBVIOUS
<1>6. Changed(s, r, t, w, rdy, ecb)
  BY <1>1, <1>2, <1>3, <1>5, PendChanges
<1>7. /\ w \in TcbType /\ w.OSTCBPrio = p /\ w.OSTCBStat = s.tcb[t].OSTCBStat \cup {type}
      /\ w.OSTCBStatPend = "OK" /\ w.OSTCBDly = timeout /\ w.OSTCBEventPtr = e
  <2>1. PICK tcb : tcb = s.tcb[t]
    OBVIOUS
  <2>2. tcb \in TcbType /\ tcb.OSTCBPrio = p /\ w = WaitingTcb(tcb, e, type, timeout)
    BY <1>1, <1>4, <1>5, <2>1 DEF PrioOf
  <2>3. /\ w \in TcbType /\ w.OSTCBPrio = tcb.OSTCBPrio /\ w.OSTCBStat = tcb.OSTCBStat \cup {type}
        /\ w.OSTCBStatPend = "OK" /\ w.OSTCBDly = timeout /\ w.OSTCBEventPtr = e
    BY <1>3, <2>2, WaitingIs
  <2> QED
    BY <2>1, <2>2, <2>3
<1>8. Agrees(rdy) /\ rdy.tbl = s.OSRdy.tbl \ {p}
  BY <1>4, <1>5, ClearBitIs
<1>9. ButFor(p, rdy, s.OSRdy)
  BY <1>8 DEF ButFor
<1>10. /\ EcbsButFor(p, ecb, s.ecb)
       /\ ecb[e].wait.tbl = s.ecb[e].wait.tbl \cup {p}
       /\ \A x \in Event \ {e} : ecb[x] = s.ecb[x]
  BY <1>2, <1>3, <1>5, JoinListIs
<1>11. SameContents(r, s)
  BY <1>2, <1>3, <1>5, <1>6, JoinListIs DEF SameContents, Changed
<1>12. g[t] = [at |-> "block", call |-> c] /\ DOMAIN g = Tcb /\ \A u \in Tcb \ {t} : g[u] = f[u]
  BY <1>2, <1>4 DEF PutFrame
<1>13. FramesBut(t, g, f)
  BY <1>12 DEF FramesBut
<1>14. FrameAt(s, g, t)
  BY <1>12 DEF FrameAt, Asleep
<1>15. Asleep(g, t) /\ g[t].call = c
  BY <1>12 DEF Asleep
<1>16. r.tcb[t] = w /\ r.ecb = ecb /\ r.OSRdy = rdy /\ \A u \in Tcb \ {t} : r.tcb[u] = s.tcb[u]
  BY <1>2, <1>4, <1>6 DEF Changed
<1>17. s.tcb[t].OSTCBEventPtr = NULL /\ s.tcb[t].OSTCBStat \ {"SUSPEND"} = {}
  BY <1>2 DEF TaskOK, StillWaits, WaitsFor
<1>18. StillWaits(r, t) /\ WaitsFor(r, t) = e
  BY <1>3, <1>7, <1>16 DEF StillWaits, WaitsFor
<1>19. TaskOK(r, g, t)
  <2>1. w.OSTCBStat \ {"SUSPEND"} = {ecb[e].OSEventType}
    BY <1>3, <1>7, <1>10, <1>17 DEF EcbsButFor
  <2>2. \A x \in Event : p \in ecb[x].wait.tbl <=> e = x
    <3>1. \A x \in Event : p \notin s.ecb[x].wait.tbl
      BY <1>1, <1>2, <1>17, KernelAssumption DEF TaskOK, PrioOf
    <3> QED
      BY <1>3, <1>10, <3>1
  <2>3. p \notin rdy.tbl
    BY <1>8
  <2> QED
    BY <1>1, <1>2, <1>3, <1>7, <1>15, <1>16, <1>18, <2>1, <2>2, <2>3 DEF TaskOK, Owns
<1>20. ListsOK(r, g)
  BY <1>1, <1>2, <1>6, <1>7, <1>9, <1>10, <1>13, <1>14, <1>19, OneTask
<1>21. ASSUME NEW x \in Event, NEW u \in Task
       PROVE  u \in GrantedIn(r, g, x) <=> u \in GrantedIn(s, f, x)
  <2>1. CASE u = t
    BY <1>3, <1>18, <2>1 DEF GrantedIn
  <2>2. CASE u # t
    BY <1>12, <1>16, <2>2 DEF GrantedIn, WaitsFor, Tcb, Asleep
  <2> QED
    BY <2>1, <2>2
<1>22. \A x \in Event : GrantedIn(r, g, x) = GrantedIn(s, f, x)
  <2>1. \A x \in Event : GrantedIn(r, g, x) \subseteq Task /\ GrantedIn(s, f, x) \subseteq Task
    BY DEF GrantedIn
  <2> QED
    BY <1>21, <2>1
<1>23. PrioOf(r, t) = PrioOf(s, t)
  BY <1>1, <1>7, <1>16 DEF PrioOf
<1> QED
  BY <1>6, <1>11, <1>20, <1>22, <1>23 DEF Changed

-----------------------------------------------------------------------------
(* The highest task, and the end of a wait. *)

(* The idle task is always ready, so the ready table is never empty. *)
LEMMA IdleReady ==
  ASSUME NEW s, NEW f, ListsOK(s, f)
  PROVE  OS_TASK_IDLE_PRIO \in s.OSRdy.tbl /\ Agrees(s.OSRdy) /\ s.OSRdy.tbl \subseteq Prio
<1>1. Idle \in Tcb /\ OS_TASK_IDLE_PRIO \in Prio /\ OS_TASK_IDLE_PRIO # NULL
  BY KernelAssumption DEF Tcb, Prio, OS_TASK_IDLE_PRIO
<1>2. TaskOK(s, f, Idle) /\ s.tcb[Idle] = [FreeTcb EXCEPT !.OSTCBPrio = OS_TASK_IDLE_PRIO] /\ Agrees(s.OSRdy)
  BY <1>1 DEF ListsOK, KernelType
<1>3. PICK idle : idle = s.tcb[Idle]
  OBVIOUS
<1>4. idle.OSTCBPrio = OS_TASK_IDLE_PRIO /\ idle.OSTCBStat = {} /\ idle.OSTCBDly = 0 /\ idle.OSTCBEventPtr = NULL
  BY <1>2, <1>3 DEF FreeTcb
<1>5. ~StillWaits(s, Idle) /\ ~Stopped(s, Idle)
  BY <1>3, <1>4 DEF StillWaits, WaitsFor, Stopped
<1> QED
  BY <1>1, <1>2, <1>3, <1>4, <1>5 DEF TaskOK, Agrees, Bits

(* The highest ready priority is that of a task. *)
LEMMA HighestReady ==
  ASSUME NEW s, NEW f, ListsOK(s, f)
  PROVE  /\ Highest(s.OSRdy) \in s.OSRdy.tbl /\ Highest(s.OSRdy) \in Prio
         /\ \A p \in s.OSRdy.tbl : Highest(s.OSRdy) <= p
         /\ s.OSTCBPrioTbl[Highest(s.OSRdy)] \in Tcb
         /\ PrioOf(s, s.OSTCBPrioTbl[Highest(s.OSRdy)]) = Highest(s.OSRdy)
<1>1. Agrees(s.OSRdy) /\ s.OSRdy.tbl # {} /\ s.OSRdy.tbl \subseteq Prio
  BY IdleReady
<1>2. PICK h \in s.OSRdy.tbl : h = Highest(s.OSRdy) /\ \A p \in s.OSRdy.tbl : h <= p
  BY <1>1, HighestIs
<1>3. s.OSTCBPrioTbl[h] # NULL /\ h \in Prio
  BY <1>1 DEF ListsOK, BitsTasks
<1>4. s.OSTCBPrioTbl[h] \in Tcb /\ PrioOf(s, s.OSTCBPrioTbl[h]) = h
  BY <1>3 DEF ListsOK, TablesOK, KernelType
<1> QED
  BY <1>2, <1>3, <1>4

(* When the scheduler is not locked, the running task, in its own code or  *)
(* entering a service, is the highest ready one.                           *)
LEMMA CurReady ==
  ASSUME NEW s, NEW f, ListsOK(s, f), SchedOK(s, f), NEW t, Running(s, t), s.OSLockNesting = 0,
         f[t].at \notin {"sched", "block"}
  PROVE  /\ s.OSPrioCur = Highest(s.OSRdy)
         /\ ~Stopped(s, t) /\ s.tcb[t].OSTCBDly = 0 /\ ~StillWaits(s, t) /\ s.tcb[t].OSTCBStat = {}
<1>1. s.OSPrioCur = Highest(s.OSRdy)
  BY DEF SchedOK, Running
<1>2. t \in Tcb /\ PrioOf(s, t) = s.OSPrioCur /\ PrioOf(s, t) # NULL /\ TaskOK(s, f, t)
  BY RunningIs
<1>3. PrioOf(s, t) \in s.OSRdy.tbl
  BY <1>1, <1>2, HighestReady
<1>4. ~Stopped(s, t) /\ s.tcb[t].OSTCBDly = 0 /\ ~StillWaits(s, t)
  BY <1>2, <1>3 DEF TaskOK, PrioOf
<1>5. s.tcb[t].OSTCBStat = {}
  BY <1>2, <1>4 DEF TaskOK, Stopped
<1> QED
  BY <1>1, <1>4, <1>5

-----------------------------------------------------------------------------
(* Coming back from a wait.                                                *)

(* The fields of the TCB of a task that is back from a wait. *)
LEMMA ReturnedIs ==
  ASSUME NEW tcb \in TcbType
  PROVE  /\ ReturnedTcb(tcb) \in TcbType
         /\ ReturnedTcb(tcb).OSTCBPrio = tcb.OSTCBPrio /\ ReturnedTcb(tcb).OSTCBStat = {}
         /\ ReturnedTcb(tcb).OSTCBStatPend = "OK" /\ ReturnedTcb(tcb).OSTCBDly = tcb.OSTCBDly
         /\ ReturnedTcb(tcb).OSTCBEventPtr = NULL
         /\ ReturnedTcb([tcb EXCEPT !.OSTCBEventPtr = NULL]) = ReturnedTcb(tcb)
BY DEF ReturnedTcb, TcbType

(* What the second half of a pend does to the tables: after a timeout it   *)
(* takes the task off the list.                                            *)
LEMMA ReturnChanges ==
  ASSUME NEW s, NEW f, ListsOK(s, f), NEW t \in Tcb, s.OSTCBCur = t, NEW e \in Event
  PROVE  Changed(s, PendReturn(s, e).s, t, ReturnedTcb(s.tcb[t]), s.OSRdy,
                 IF s.tcb[t].OSTCBStatPend = "TO" THEN OffList(s, e, PrioOf(s, t)) ELSE s.ecb)
<1>1. PICK p, stat, n : /\ p = PrioOf(s, t) /\ stat = s.tcb[t].OSTCBStatPend
                        /\ n = IF stat = "TO" THEN OS_EventTaskRemove(s, t, e) ELSE s
  OBVIOUS
<1>2. PICK a, c : a = [s EXCEPT !.tcb[t].OSTCBEventPtr = NULL] /\ c = ClearBit(s.ecb[e].wait, p)
  OBVIOUS
<1>3. /\ DOMAIN a = DOMAIN s /\ SameSched(a, s) /\ a.OSTCBPrioTbl = s.OSTCBPrioTbl /\ a.flag = s.flag
      /\ a.OSRdy = s.OSRdy /\ a.ecb = s.ecb
      /\ a.tcb = [s.tcb EXCEPT ![t] = [@ EXCEPT !.OSTCBEventPtr = NULL]]
  BY <1>2, TcbFields DEF SameSched
<1>4. PICK b : b = [a EXCEPT !.ecb[e].wait = c]
  OBVIOUS
<1>5. /\ DOMAIN b = DOMAIN s /\ SameSched(b, s) /\ b.OSTCBPrioTbl = s.OSTCBPrioTbl /\ b.flag = s.flag
      /\ b.OSRdy = s.OSRdy /\ b.tcb = a.tcb
      /\ b.ecb = [a.ecb EXCEPT ![e] = [@ EXCEPT !.wait = c]]
  BY <1>3, <1>4, TcbFields DEF SameSched
<1>6. b.ecb = OffList(s, e, p)
  BY <1>2, <1>3, <1>5 DEF OffList
<1>7. OS_EventTaskRemove(s, t, e) = b
  <2>1. OS_EventTaskRemove(s, t, e) = [a EXCEPT !.ecb[e].wait = ClearBit(@, p)]
    BY <1>1, <1>2 DEF OS_EventTaskRemove
  <2> QED
    BY <1>2, <1>3, <1>4, <2>1
<1>8. PICK w : w = ReturnedTcb(s.tcb[t])
  OBVIOUS
<1>9. /\ DOMAIN n = DOMAIN s /\ SameSched(n, s) /\ n.OSTCBPrioTbl = s.OSTCBPrioTbl /\ n.flag = s.flag
      /\ n.OSRdy = s.OSRdy /\ n.ecb = IF stat = "TO" THEN OffList(s, e, p) ELSE s.ecb
      /\ DOMAIN n.tcb = Tcb /\ \A u \in Tcb \ {t} : n.tcb[u] = s.tcb[u]
      /\ ReturnedTcb(n.tcb[t]) = w
  <2>1. CASE stat = "TO"
    <3>1. n = b /\ n.tcb = a.tcb
      BY <1>1, <1>5, <1>7, <2>1
    <3>2. n.tcb[t] = [s.tcb[t] EXCEPT !.OSTCBEventPtr = NULL] /\ DOMAIN n.tcb = Tcb
          /\ \A u \in Tcb \ {t} : n.tcb[u] = s.tcb[u]
      BY <1>3, <3>1, TcbFields
    <3>3. ReturnedTcb(n.tcb[t]) = w
      BY <1>8, <3>2, ReturnedIs, TcbFields
    <3> QED
      BY <1>5, <1>6, <2>1, <3>1, <3>2, <3>3
  <2>2. CASE stat # "TO"
    <3>1. n = s
      BY <1>1, <2>2
    <3> QED
      BY <1>8, <2>2, <3>1, TcbFields DEF SameSched
  <2> QED
    BY <2>1, <2>2
<1>10. PICK r : r = [n EXCEPT !.tcb[t] = ReturnedTcb(@)]
  OBVIOUS
<1>11. /\ DOMAIN r = DOMAIN s /\ SameSched(r, s) /\ r.OSTCBPrioTbl = s.OSTCBPrioTbl /\ r.flag = s.flag
       /\ r.OSRdy = s.OSRdy /\ r.ecb = n.ecb /\ r.tcb = [n.tcb EXCEPT ![t] = w]
  BY <1>9, <1>10, TcbFields DEF SameSched
<1>12. r.tcb = [s.tcb EXCEPT ![t] = w]
  BY <1>9, <1>11, TcbFields
<1>13. PendReturn(s, e).s = r
  BY <1>1, <1>10 DEF PendReturn
<1> QED
  BY <1>1, <1>8, <1>9, <1>11, <1>12, <1>13 DEF Changed

(* The task that comes back is no longer among those e was granted to.     *)
GivenUp(r, g, s, f, t, e) ==
    \A x \in Event : GrantedIn(r, g, x) =
        IF x = e /\ s.tcb[t].OSTCBStatPend = "OK" THEN GrantedIn(s, f, x) \ {t} ELSE GrantedIn(s, f, x)

(* A task that comes back from a wait leaves the lists right, and what it  *)
(* was granted it has.                                                     *)
LEMMA ReturnLists ==
  ASSUME NEW s, NEW f, ListsOK(s, f), SchedOK(s, f), NEW t, Running(s, t), f[t].at = "resume",
         NEW e, e = f[t].call.e,
         NEW r, r = PendReturn(s, e).s,
         NEW g, g = PutFrame(f, t, App)
  PROVE  /\ ListsOK(r, g) /\ SameSched(r, s) /\ r.OSRdy = s.OSRdy /\ SameContents(r, s)
         /\ PrioOf(r, t) = PrioOf(s, t) /\ s.OSLockNesting = 0
         /\ GivenUp(r, g, s, f, t, e)
         /\ s.tcb[t].OSTCBStatPend = "OK" =>
               WaitsFor(s, t) = NULL /\ (f[t].call.op # "MutexPend" => t \in GrantedIn(s, f, e))
<1>1. PICK p, stat : p = PrioOf(s, t) /\ stat = s.tcb[t].OSTCBStatPend
  OBVIOUS
<1>2. /\ t \in Task /\ t \in Tcb /\ p \in Prio /\ p # NULL /\ TaskOK(s, f, t) /\ s.OSTCBCur = t /\ t # Idle
      /\ Asleep(f, t)
  BY <1>1, RunningIs DEF Running, Asleep
<1>3. e \in Event /\ e # NULL
  BY <1>2, WaiterIs, KernelAssumption
<1>4. s.OSLockNesting = 0
  <2>1. s.OSLockNesting \in 0 .. 1
    BY DEF ListsOK, KernelType
  <2> QED
    BY <1>2, <2>1 DEF SchedOK
<1>5. s.tcb[t].OSTCBDly = 0 /\ ~StillWaits(s, t) /\ s.tcb[t].OSTCBStat = {} /\ ~Stopped(s, t)
  BY <1>4, CurReady
<1>6. s.tcb \in [Tcb -> TcbType] /\ s.tcb[t] \in TcbType /\ Agrees(s.OSRdy) /\ DOMAIN f = Tcb /\ FrameOK(s, f)
  BY <1>2 DEF ListsOK, KernelType, FrameOK
<1>7. PICK w, ecb : /\ w = ReturnedTcb(s.tcb[t])
                    /\ ecb = IF stat = "TO" THEN OffList(s, e, p) ELSE s.ecb
  OBVIOUS
<1>8. Changed(s, r, t, w, s.OSRdy, ecb)
  BY <1>1, <1>2, <1>3, <1>7, ReturnChanges
<1>9. /\ w \in TcbType /\ w.OSTCBPrio = p /\ w.OSTCBStat = {}
      /\ w.OSTCBStatPend = "OK" /\ w.OSTCBDly = 0 /\ w.OSTCBEventPtr = NULL
  <2>1. s.tcb[t].OSTCBPrio = p
    BY <1>1 DEF PrioOf
  <2> QED
    BY <1>5, <1>6, <1>7, <2>1, ReturnedIs
<1>10. ButFor(p, s.OSRdy, s.OSRdy)
  BY <1>6 DEF ButFor
<1>11. s.tcb[t].OSTCBEventPtr = IF stat = "TO" THEN e ELSE NULL
  BY <1>1, <1>2, <1>5 DEF TaskOK, StillWaits, WaitsFor
<1>12. /\ EcbsButFor(p, ecb, s.ecb) /\ SameContents(r, s)
       /\ \A x \in Event : p \notin ecb[x].wait.tbl
  <2>1. \A x \in Event : p \in s.ecb[x].wait.tbl => stat = "TO" /\ x = e
    BY <1>1, <1>2, <1>3, <1>11, KernelAssumption DEF TaskOK, PrioOf
  <2>2. r.ecb = ecb
    BY <1>8 DEF Changed
  <2>3. CASE stat = "TO"
    <3>1. ecb = OffList(s, e, p)
      BY <1>7, <2>3
    <3> QED
      BY <1>2, <1>3, <2>1, <2>2, <3>1, OffListIs DEF SameContents
  <2>4. CASE stat # "TO"
    <3>1. ecb = s.ecb
      BY <1>7, <2>4
    <3>2. EcbsButFor(p, s.ecb, s.ecb)
      BY DEF EcbsButFor, ButFor, ListsOK, KernelType, EcbOK
    <3> QED
      BY <2>1, <2>2, <2>4, <3>1, <3>2 DEF SameContents
  <2> QED
    BY <2>3, <2>4
<1>13. g[t] = App /\ DOMAIN g = Tcb /\ \A u \in Tcb \ {t} : g[u] = f[u]
  BY <1>2, <1>6 DEF PutFrame
<1>14. FramesBut(t, g, f) /\ FrameAt(s, g, t) /\ ~Asleep(g, t)
  BY <1>13 DEF FramesBut, FrameAt, Asleep, App
<1>15. r.tcb[t] = w /\ r.ecb = ecb /\ r.OSRdy = s.OSRdy /\ \A u \in Tcb \ {t} : r.tcb[u] = s.tcb[u]
  BY <1>2, <1>6, <1>8 DEF Changed
<1>16. ~StillWaits(r, t) /\ ~Stopped(r, t)
  BY <1>9, <1>15 DEF StillWaits, WaitsFor, Stopped
<1>17. p \in s.OSRdy.tbl
  BY <1>1, <1>2, <1>5 DEF TaskOK, PrioOf
<1>18. TaskOK(r, g, t)
  <2>1. \A x \in Event : p \in ecb[x].wait.tbl <=> NULL = x
    BY <1>12, KernelAssumption
  <2> QED
    BY <1>2, <1>9, <1>14, <1>15, <1>16, <1>17, <2>1 DEF TaskOK, Owns
<1>19. ListsOK(r, g)
  BY <1>1, <1>2, <1>8, <1>9, <1>10, <1>12, <1>14, <1>18, OneTask
<1>20. /\ t \notin GrantedIn(r, g, e)
       /\ stat = "OK" => WaitsFor(s, t) = NULL /\ (f[t].call.op # "MutexPend" => t \in GrantedIn(s, f, e))
  <2>1. t \notin GrantedIn(r, g, e)
    BY <1>14 DEF GrantedIn
  <2>2. stat = "OK" => WaitsFor(s, t) = NULL
    BY <1>11 DEF WaitsFor
  <2> QED
    BY <1>1, <1>2, <2>1, <2>2 DEF GrantedIn
<1>21. ASSUME NEW x \in Event, NEW u \in Task
       PROVE  u \in GrantedIn(r, g, x) <=>
                 u \in (IF x = e /\ stat = "OK" THEN GrantedIn(s, f, x) \ {t} ELSE GrantedIn(s, f, x))
  <2>1. CASE u = t
    <3>1. u \notin GrantedIn(r, g, x)
      BY <1>14, <2>1 DEF GrantedIn
    <3>2. u \in GrantedIn(s, f, x) => x = e /\ stat = "OK"
      BY <1>1, <2>1 DEF GrantedIn
    <3> QED
      BY <2>1, <3>1, <3>2
  <2>2. CASE u # t
    <3>1. u \in GrantedIn(r, g, x) <=> u \in GrantedIn(s, f, x)
      BY <1>13, <1>15, <2>2 DEF GrantedIn, WaitsFor, Tcb, Asleep
    <3> QED
      BY <2>2, <3>1
  <2> QED
    BY <2>1, <2>2
<1>22. \A x \in Event : GrantedIn(r, g, x) =
               IF x = e /\ stat = "OK" THEN GrantedIn(s, f, x) \ {t} ELSE GrantedIn(s, f, x)
  <2>1. \A x \in Event : GrantedIn(r, g, x) \subseteq Task /\ GrantedIn(s, f, x) \subseteq Task
    BY DEF GrantedIn
  <2> QED
    BY <1>21, <2>1
<1>23. PrioOf(r, t) = PrioOf(s, t)
  BY <1>1, <1>9, <1>15 DEF PrioOf
<1>24. GivenUp(r, g, s, f, t, e)
  BY <1>1, <1>22 DEF GivenUp
<1> QED
  BY <1>1, <1>4, <1>8, <1>12, <1>15, <1>19, <1>20, <1>24, <1>23 DEF Changed

-----------------------------------------------------------------------------
(* Delays and suspensions. *)

(* Only task u has changed, and keeps its priority and its wait. *)
Adjusted(s, f, r, u, w, rdy) ==
    /\ PrioOf(s, u) # NULL /\ w.OSTCBPrio = PrioOf(s, u)
    /\ Changed(s, r, u, w, rdy, s.ecb) /\ w \in TcbType
    /\ w.OSTCBEventPtr = s.tcb[u].OSTCBEventPtr
    /\ ButFor(PrioOf(s, u), rdy, s.OSRdy) /\ TaskOK(r, f, u)
    /\ s.tcb[u].OSTCBEventPtr = NULL /\ Asleep(f, u) => w.OSTCBStatPend = s.tcb[u].OSTCBStatPend

(* A delay, a suspension or a wake-up of one task, which touches no event, *)
(* keeps the lists.                                                        *)
LEMMA AdjustedLists ==
  ASSUME NEW s, NEW f, ListsOK(s, f), NEW u \in Task, NEW r, NEW w, NEW rdy, Adjusted(s, f, r, u, w, rdy)
  PROVE  /\ ListsOK(r, f) /\ SameSched(r, s) /\ SameContents(r, s) /\ SameTables(r, s)
         /\ r.OSRdy = rdy
         /\ \A x \in Event : GrantedIn(r, f, x) = GrantedIn(s, f, x)
<1>0. /\ PrioOf(s, u) # NULL /\ w.OSTCBPrio = PrioOf(s, u)
      /\ Changed(s, r, u, w, rdy, s.ecb) /\ w \in TcbType
      /\ w.OSTCBEventPtr = s.tcb[u].OSTCBEventPtr
      /\ ButFor(PrioOf(s, u), rdy, s.OSRdy) /\ TaskOK(r, f, u)
      /\ s.tcb[u].OSTCBEventPtr = NULL /\ Asleep(f, u) => w.OSTCBStatPend = s.tcb[u].OSTCBStatPend
  BY DEF Adjusted
<1>1. u \in Tcb /\ DOMAIN s.tcb = Tcb /\ FrameOK(s, f)
  BY DEF Tcb, ListsOK, KernelType
<1>2. EcbsButFor(PrioOf(s, u), s.ecb, s.ecb)
  BY DEF EcbsButFor, ButFor, ListsOK, KernelType, EcbOK
<1>3. FramesBut(u, f, f) /\ FrameAt(s, f, u)
  BY <1>1, FrameStays
<1>4. ListsOK(r, f)
  BY <1>0, <1>2, <1>3, OneTask
<1>5. SameTables(r, s)
  BY <1>0, <1>2, <1>3, OneTaskTypes
<1>6. SameSched(r, s) /\ r.ecb = s.ecb /\ r.OSRdy = rdy
  BY <1>0 DEF Changed
<1>7. SameContents(r, s)
  BY <1>6 DEF SameContents
<1>8. r.tcb[u] = w /\ \A t \in Tcb \ {u} : r.tcb[t] = s.tcb[t]
  BY <1>0, <1>1 DEF Changed
<1>9. ASSUME NEW x \in Event, NEW t \in Task
      PROVE  t \in GrantedIn(r, f, x) <=> t \in GrantedIn(s, f, x)
  <2>1. CASE t = u
    BY <1>0, <1>8, <2>1 DEF GrantedIn, WaitsFor
  <2>2. CASE t # u
    BY <1>8, <2>2 DEF GrantedIn, WaitsFor, Tcb
  <2> QED
    BY <2>1, <2>2
<1>10. \A x \in Event : GrantedIn(r, f, x) = GrantedIn(s, f, x)
  <2>1. \A x \in Event : GrantedIn(r, f, x) \subseteq Task /\ GrantedIn(s, f, x) \subseteq Task
    BY DEF GrantedIn
  <2> QED
    BY <1>9, <2>1
<1> QED
  BY <1>4, <1>5, <1>6, <1>7, <1>10

-----------------------------------------------------------------------------
DelayedTcb(tcb, ticks) == [tcb EXCEPT !.OSTCBDly = ticks]
StoppedTcb(tcb) == [tcb EXCEPT !.OSTCBStat = @ \cup {"SUSPEND"}]
GoingTcb(tcb) == [tcb EXCEPT !.OSTCBStat = @ \ {"SUSPEND"}]

(* The fields of the TCB of a task that is delayed, suspended or resumed. *)
LEMMA AdjustedTcbs ==
  ASSUME NEW tcb \in TcbType
  PROVE  /\ \A n \in Nat : /\ DelayedTcb(tcb, n) \in TcbType /\ DelayedTcb(tcb, n).OSTCBDly = n
                           /\ DelayedTcb(tcb, n).OSTCBPrio = tcb.OSTCBPrio
                           /\ DelayedTcb(tcb, n).OSTCBStat = tcb.OSTCBStat
                           /\ DelayedTcb(tcb, n).OSTCBStatPend = tcb.OSTCBStatPend
                           /\ DelayedTcb(tcb, n).OSTCBEventPtr = tcb.OSTCBEventPtr
         /\ StoppedTcb(tcb) \in TcbType /\ StoppedTcb(tcb).OSTCBDly = tcb.OSTCBDly
         /\ StoppedTcb(tcb).OSTCBPrio = tcb.OSTCBPrio
         /\ StoppedTcb(tcb).OSTCBStat = tcb.OSTCBStat \cup {"SUSPEND"}
         /\ StoppedTcb(tcb).OSTCBStatPend = tcb.OSTCBStatPend
         /\ StoppedTcb(tcb).OSTCBEventPtr = tcb.OSTCBEventPtr
         /\ StoppedTcb(tcb).OSTCBMsg = tcb.OSTCBMsg
         /\ GoingTcb(tcb) \in TcbType /\ GoingTcb(tcb).OSTCBDly = tcb.OSTCBDly
         /\ GoingTcb(tcb).OSTCBPrio = tcb.OSTCBPrio
         /\ GoingTcb(tcb).OSTCBStat = tcb.OSTCBStat \ {"SUSPEND"}
         /\ GoingTcb(tcb).OSTCBStatPend = tcb.OSTCBStatPend
         /\ GoingTcb(tcb).OSTCBEventPtr = tcb.OSTCBEventPtr
         /\ GoingTcb(tcb).OSTCBMsg = tcb.OSTCBMsg
<1>1. ASSUME NEW n \in Nat
      PROVE  /\ DelayedTcb(tcb, n) \in TcbType /\ DelayedTcb(tcb, n).OSTCBDly = n
             /\ DelayedTcb(tcb, n).OSTCBPrio = tcb.OSTCBPrio
             /\ DelayedTcb(tcb, n).OSTCBStat = tcb.OSTCBStat
             /\ DelayedTcb(tcb, n).OSTCBStatPend = tcb.OSTCBStatPend
             /\ DelayedTcb(tcb, n).OSTCBEventPtr = tcb.OSTCBEventPtr
  BY DEF DelayedTcb, TcbType
<1>2. /\ StoppedTcb(tcb) \in TcbType /\ StoppedTcb(tcb).OSTCBDly = tcb.OSTCBDly
      /\ StoppedTcb(tcb).OSTCBPrio = tcb.OSTCBPrio
      /\ StoppedTcb(tcb).OSTCBStat = tcb.OSTCBStat \cup {"SUSPEND"}
      /\ StoppedTcb(tcb).OSTCBStatPend = tcb.OSTCBStatPend
      /\ StoppedTcb(tcb).OSTCBEventPtr = tcb.OSTCBEventPtr
      /\ StoppedTcb(tcb).OSTCBMsg = tcb.OSTCBMsg
  BY DEF StoppedTcb, TcbType
<1>3. /\ GoingTcb(tcb) \in TcbType /\ GoingTcb(tcb).OSTCBDly = tcb.OSTCBDly
      /\ GoingTcb(tcb).OSTCBPrio = tcb.OSTCBPrio
      /\ GoingTcb(tcb).OSTCBStat = tcb.OSTCBStat \ {"SUSPEND"}
      /\ GoingTcb(tcb).OSTCBStatPend = tcb.OSTCBStatPend
      /\ GoingTcb(tcb).OSTCBEventPtr = tcb.OSTCBEventPtr
      /\ GoingTcb(tcb).OSTCBMsg = tcb.OSTCBMsg
  BY DEF GoingTcb, TcbType
<1> QED
  BY <1>1, <1>2, <1>3

(* The fields of the TCB of a task whose delay OSTimeDlyResume ends. *)
LEMMA ResumedIs ==
  ASSUME NEW tcb \in TcbType
  PROVE  /\ ResumedTcb(tcb) \in TcbType
         /\ ResumedTcb(tcb).OSTCBPrio = tcb.OSTCBPrio
         /\ ResumedTcb(tcb).OSTCBDly = 0
         /\ ResumedTcb(tcb).OSTCBEventPtr = tcb.OSTCBEventPtr
         /\ ResumedTcb(tcb).OSTCBMsg = tcb.OSTCBMsg
         /\ ResumedTcb(tcb).OSTCBStat = tcb.OSTCBStat \cap {"SUSPEND"}
         /\ ResumedTcb(tcb).OSTCBStatPend = IF tcb.OSTCBStat \ {"SUSPEND"} = {} THEN "OK" ELSE "TO"
<1>1. PICK n, st, sp : /\ n = ResumedTcb(tcb)
                       /\ st = tcb.OSTCBStat \cap {"SUSPEND"}
                       /\ sp = IF tcb.OSTCBStat \ {"SUSPEND"} = {} THEN "OK" ELSE "TO"
  OBVIOUS
<1>2. tcb.OSTCBStat \subseteq {"SUSPEND", "SEM", "MUTEX", "MBOX", "Q"}
  BY DEF TcbType
<1>3. /\ tcb.OSTCBStat \ OS_STAT_PEND_ANY = st
      /\ tcb.OSTCBStat \cap OS_STAT_PEND_ANY = tcb.OSTCBStat \ {"SUSPEND"}
  BY <1>1, <1>2 DEF OS_STAT_PEND_ANY
<1>4. DOMAIN tcb = {"OSTCBPrio", "OSTCBStat", "OSTCBStatPend", "OSTCBDly", "OSTCBEventPtr",
                "OSTCBEventMultiPtr", "OSTCBMsg", "OSTCBFlagNode", "OSTCBFlagsRdy", "OSTCBDelReq"}
  BY DEF TcbType
<1>5. n = [tcb EXCEPT !.OSTCBDly = 0, !.OSTCBStat = st, !.OSTCBStatPend = sp]
  BY <1>1, <1>3 DEF ResumedTcb
<1>6. st \in SUBSET {"SUSPEND", "SEM", "MUTEX", "MBOX", "Q"} /\ sp \in {"OK", "TO", "ABORT"}
  BY <1>1, <1>2
<1>7. n \in TcbType
  BY <1>5, <1>6 DEF TcbType
<1> QED
  BY <1>1, <1>4, <1>5, <1>7

Delayed(s, t, ticks) == [Unready(s, t) EXCEPT !.tcb[t].OSTCBDly = ticks]

(* OSTimeDly keeps the lists. *)
LEMMA DelayLists ==
  ASSUME NEW s, NEW f, ListsOK(s, f), SchedOK(s, f), NEW t, Running(s, t), ~Asleep(f, t),
         NEW ticks \in Nat \ {0},
         NEW r, r = Delayed(s, t, ticks)
  PROVE  /\ ListsOK(r, f) /\ SameSched(r, s) /\ SameContents(r, s) /\ SameTables(r, s)
         /\ \A x \in Event : GrantedIn(r, f, x) = GrantedIn(s, f, x)
<1>1. PICK p, w, rdy : p = PrioOf(s, t) /\ w = DelayedTcb(s.tcb[t], ticks) /\ rdy = ClearBit(s.OSRdy, p)
  OBVIOUS
<1>2. /\ t \in Task /\ t \in Tcb /\ p \in Prio /\ p # NULL /\ TaskOK(s, f, t) /\ t # Idle
  BY <1>1, RunningIs
<1>3. Agrees(s.OSRdy) /\ s.tcb[t] \in TcbType
  BY <1>2 DEF ListsOK, KernelType
<1>4. PICK a : a = Unready(s, t)
  OBVIOUS
<1>5. /\ DOMAIN a = DOMAIN s /\ SameSched(a, s) /\ a.OSTCBPrioTbl = s.OSTCBPrioTbl /\ a.flag = s.flag
      /\ a.OSRdy = rdy /\ a.ecb = s.ecb /\ a.tcb = s.tcb
  BY <1>1, <1>2, <1>4, TcbFields DEF Unready, SameSched
<1>6. Changed(s, r, t, w, rdy, s.ecb)
  <2>1. r = [a EXCEPT !.tcb[t].OSTCBDly = ticks]
    BY <1>4 DEF Delayed
  <2>2. /\ DOMAIN r = DOMAIN s /\ SameSched(r, s) /\ r.OSTCBPrioTbl = s.OSTCBPrioTbl /\ r.flag = s.flag
        /\ r.OSRdy = rdy /\ r.ecb = s.ecb /\ r.tcb = [s.tcb EXCEPT ![t] = [@ EXCEPT !.OSTCBDly = ticks]]
    BY <1>2, <1>5, <2>1, TcbFields DEF SameSched
  <2> QED
    BY <1>1, <2>2 DEF Changed, DelayedTcb
<1>7. Agrees(rdy) /\ rdy.tbl = s.OSRdy.tbl \ {p}
  BY <1>1, <1>3, ClearBitIs
<1>8. ButFor(p, rdy, s.OSRdy)
  BY <1>7 DEF ButFor
<1>9. /\ w \in TcbType /\ w.OSTCBDly = ticks /\ w.OSTCBPrio = p /\ w.OSTCBStat = s.tcb[t].OSTCBStat
      /\ w.OSTCBStatPend = s.tcb[t].OSTCBStatPend /\ w.OSTCBEventPtr = s.tcb[t].OSTCBEventPtr
  <2>1. s.tcb[t].OSTCBPrio = p
    BY <1>1 DEF PrioOf
  <2>2. PICK tcb \in TcbType : tcb = s.tcb[t]
    BY <1>3
  <2> QED
    BY <1>1, <2>1, <2>2, AdjustedTcbs
<1>10. r.tcb[t] = w /\ r.ecb = s.ecb /\ r.OSRdy = rdy
  BY <1>2, <1>6, TcbFields DEF Changed
<1>11. TaskOK(r, f, t)
  <2>1. s.tcb[t].OSTCBEventPtr = NULL /\ ~StillWaits(s, t) /\ ~StillWaits(r, t)
    BY <1>2, <1>9, <1>10 DEF TaskOK, StillWaits, WaitsFor
  <2>2. \A x \in Event : w.OSTCBPrio \in s.ecb[x].wait.tbl <=> w.OSTCBEventPtr = x
    BY <1>1, <1>2, <1>9 DEF TaskOK, PrioOf
  <2>3. w.OSTCBStat \ {"SUSPEND"} = {}
    BY <1>2, <1>9, <2>1 DEF TaskOK
  <2>4. Owns(r, f, t)
    BY DEF Owns
  <2> QED
    BY <1>2, <1>7, <1>9, <1>10, <2>1, <2>2, <2>3, <2>4 DEF TaskOK
<1>12. /\ PrioOf(s, t) # NULL /\ w.OSTCBPrio = PrioOf(s, t) /\ ButFor(PrioOf(s, t), rdy, s.OSRdy)
       /\ s.tcb[t].OSTCBEventPtr = NULL /\ Asleep(f, t) => w.OSTCBStatPend = s.tcb[t].OSTCBStatPend
  BY <1>1, <1>2, <1>8, <1>9
<1>13. Adjusted(s, f, r, t, w, rdy)
  BY <1>6, <1>9, <1>11, <1>12 DEF Adjusted
<1> QED
  BY <1>2, <1>13, AdjustedLists

StopIt(s, u) == [Unready(s, u) EXCEPT !.tcb[u].OSTCBStat = @ \cup {"SUSPEND"}]
GoIt(s, u) == [s EXCEPT !.tcb[u].OSTCBStat = @ \ {"SUSPEND"}]
EndDelay(s, u) == [s EXCEPT !.tcb[u] = ResumedTcb(@)]

(* A task that exists has a priority, and its TCB is typed. *)
LEMMA LiveIs ==
  ASSUME NEW s, NEW f, ListsOK(s, f), NEW u \in Task, PrioOf(s, u) # NULL
  PROVE  u \in Tcb /\ PrioOf(s, u) \in Prio /\ TaskOK(s, f, u) /\ s.tcb[u] \in TcbType /\ Agrees(s.OSRdy)
<1>1. u \in Tcb /\ s.tcb[u] \in TcbType
  BY DEF Tcb, ListsOK, KernelType
<1>2. PrioOf(s, u) \in Prio
  BY <1>1 DEF TcbType, PrioOf
<1> QED
  BY <1>1, <1>2 DEF ListsOK, KernelType

(* OSTaskSuspend keeps the lists. *)
LEMMA StopLists ==
  ASSUME NEW s, NEW f, ListsOK(s, f), NEW u \in Task, PrioOf(s, u) # NULL,
         NEW r, r = StopIt(s, u)
  PROVE  /\ ListsOK(r, f) /\ SameSched(r, s) /\ SameContents(r, s) /\ SameTables(r, s)
         /\ r.OSRdy.tbl = s.OSRdy.tbl \ {PrioOf(s, u)}
         /\ \A x \in Event : GrantedIn(r, f, x) = GrantedIn(s, f, x)
<1>1. PICK p, w, rdy : p = PrioOf(s, u) /\ w = StoppedTcb(s.tcb[u]) /\ rdy = ClearBit(s.OSRdy, p)
  OBVIOUS
<1>2. /\ u \in Tcb /\ p \in Prio /\ p # NULL /\ TaskOK(s, f, u) /\ s.tcb[u] \in TcbType /\ Agrees(s.OSRdy)
  BY <1>1, LiveIs
<1>4. PICK a : a = Unready(s, u)
  OBVIOUS
<1>5. /\ DOMAIN a = DOMAIN s /\ SameSched(a, s) /\ a.OSTCBPrioTbl = s.OSTCBPrioTbl /\ a.flag = s.flag
      /\ a.OSRdy = rdy /\ a.ecb = s.ecb /\ a.tcb = s.tcb
  BY <1>1, <1>2, <1>4, TcbFields DEF Unready, SameSched
<1>6. Changed(s, r, u, w, rdy, s.ecb)
  <2>1. PICK st : st = s.tcb[u].OSTCBStat \cup {"SUSPEND"}
    OBVIOUS
  <2>2. r = [a EXCEPT !.tcb[u].OSTCBStat = st]
    BY <1>4, <1>5, <2>1 DEF StopIt
  <2>3. /\ DOMAIN r = DOMAIN s /\ SameSched(r, s) /\ r.OSTCBPrioTbl = s.OSTCBPrioTbl /\ r.flag = s.flag
        /\ r.OSRdy = rdy /\ r.ecb = s.ecb /\ r.tcb = [s.tcb EXCEPT ![u] = [@ EXCEPT !.OSTCBStat = st]]
    BY <1>2, <1>5, <2>2, TcbFields DEF SameSched
  <2>4. w = [s.tcb[u] EXCEPT !.OSTCBStat = st]
    BY <1>1, <2>1 DEF StoppedTcb
  <2> QED
    BY <2>3, <2>4 DEF Changed
<1>7. Agrees(rdy) /\ rdy.tbl = s.OSRdy.tbl \ {p}
  BY <1>1, <1>2, ClearBitIs
<1>8. ButFor(p, rdy, s.OSRdy)
  BY <1>7 DEF ButFor
<1>9. /\ w \in TcbType /\ w.OSTCBDly = s.tcb[u].OSTCBDly /\ w.OSTCBPrio = p
      /\ w.OSTCBStat = s.tcb[u].OSTCBStat \cup {"SUSPEND"} /\ w.OSTCBMsg = s.tcb[u].OSTCBMsg
      /\ w.OSTCBStatPend = s.tcb[u].OSTCBStatPend /\ w.OSTCBEventPtr = s.tcb[u].OSTCBEventPtr
  <2>1. s.tcb[u].OSTCBPrio = p
    BY <1>1 DEF PrioOf
  <2>2. PICK tcb \in TcbType : tcb = s.tcb[u]
    BY <1>2
  <2> QED
    BY <1>1, <2>1, <2>2, AdjustedTcbs
<1>10. r.tcb[u] = w /\ r.ecb = s.ecb /\ r.OSRdy = rdy
  BY <1>2, <1>6, TcbFields DEF Changed
<1>11. TaskOK(r, f, u)
  <2>1. (StillWaits(r, u) <=> StillWaits(s, u)) /\ Stopped(r, u)
    BY <1>9, <1>10 DEF StillWaits, WaitsFor, Stopped
  <2>2. \A x \in Event : w.OSTCBPrio \in s.ecb[x].wait.tbl <=> w.OSTCBEventPtr = x
    BY <1>1, <1>2, <1>9 DEF TaskOK, PrioOf
  <2>3. w.OSTCBStat \ {"SUSPEND"} = s.tcb[u].OSTCBStat \ {"SUSPEND"}
    BY <1>9
  <2>4. w.OSTCBStat \ {"SUSPEND"} = IF StillWaits(r, u) THEN {r.ecb[w.OSTCBEventPtr].OSEventType} ELSE {}
    BY <1>2, <1>9, <1>10, <2>1, <2>3 DEF TaskOK
  <2>5. Owns(r, f, u)
    BY <1>2, <1>9, <1>10 DEF TaskOK, Owns, WaitsFor
  <2> QED
    BY <1>2, <1>7, <1>9, <1>10, <2>1, <2>2, <2>4, <2>5 DEF TaskOK
<1>12. /\ PrioOf(s, u) # NULL /\ w.OSTCBPrio = PrioOf(s, u) /\ ButFor(PrioOf(s, u), rdy, s.OSRdy)
       /\ s.tcb[u].OSTCBEventPtr = NULL /\ Asleep(f, u) => w.OSTCBStatPend = s.tcb[u].OSTCBStatPend
  BY <1>1, <1>2, <1>8, <1>9
<1>130. Adjusted(s, f, r, u, w, rdy)
  BY <1>6, <1>9, <1>11, <1>12 DEF Adjusted
<1>13. /\ ListsOK(r, f) /\ SameSched(r, s) /\ SameContents(r, s) /\ SameTables(r, s)
       /\ \A x \in Event : GrantedIn(r, f, x) = GrantedIn(s, f, x)
  BY <1>130, AdjustedLists
<1> QED
  BY <1>1, <1>7, <1>10, <1>13

(* What TaskResume does to a task that is suspended. *)
Gone(s, u) ==
    IF GoIt(s, u).tcb[u].OSTCBStat \cap OS_STAT_PEND_ANY = {} /\ GoIt(s, u).tcb[u].OSTCBDly = 0
    THEN Ready(GoIt(s, u), u) ELSE GoIt(s, u)

(* OSTaskResume keeps the lists, and readies the task only when nothing    *)
(* else holds it up.                                                       *)
LEMMA GoLists ==
  ASSUME NEW s, NEW f, ListsOK(s, f), NEW u \in Task, PrioOf(s, u) # NULL, Stopped(s, u),
         NEW r, r = Gone(s, u)
  PROVE  /\ ListsOK(r, f) /\ SameSched(r, s) /\ SameContents(r, s) /\ SameTables(r, s)
         /\ \A x \in Event : GrantedIn(r, f, x) = GrantedIn(s, f, x)
         /\ ~(GoIt(s, u).tcb[u].OSTCBStat \cap OS_STAT_PEND_ANY = {} /\ GoIt(s, u).tcb[u].OSTCBDly = 0)
               => r.OSRdy = s.OSRdy
<1>1. PICK p, w, n : p = PrioOf(s, u) /\ w = GoingTcb(s.tcb[u]) /\ n = GoIt(s, u)
  OBVIOUS
<1>2. /\ u \in Tcb /\ p \in Prio /\ p # NULL /\ TaskOK(s, f, u) /\ s.tcb[u] \in TcbType /\ Agrees(s.OSRdy)
  BY <1>1, LiveIs
<1>3. /\ w \in TcbType /\ w.OSTCBDly = s.tcb[u].OSTCBDly /\ w.OSTCBPrio = p
      /\ w.OSTCBStat = s.tcb[u].OSTCBStat \ {"SUSPEND"} /\ w.OSTCBMsg = s.tcb[u].OSTCBMsg
      /\ w.OSTCBStatPend = s.tcb[u].OSTCBStatPend /\ w.OSTCBEventPtr = s.tcb[u].OSTCBEventPtr
  <2>1. s.tcb[u].OSTCBPrio = p
    BY <1>1 DEF PrioOf
  <2>2. PICK tcb \in TcbType : tcb = s.tcb[u]
    BY <1>2
  <2> QED
    BY <1>1, <2>1, <2>2, AdjustedTcbs
<1>4. /\ DOMAIN n = DOMAIN s /\ SameSched(n, s) /\ n.OSTCBPrioTbl = s.OSTCBPrioTbl /\ n.flag = s.flag
      /\ n.OSRdy = s.OSRdy /\ n.ecb = s.ecb /\ n.tcb = [s.tcb EXCEPT ![u] = w]
  <2>1. PICK st : st = s.tcb[u].OSTCBStat \ {"SUSPEND"}
    OBVIOUS
  <2>2. n = [s EXCEPT !.tcb[u].OSTCBStat = st]
    BY <1>1, <2>1 DEF GoIt
  <2>3. w = [s.tcb[u] EXCEPT !.OSTCBStat = st]
    BY <1>1, <2>1 DEF GoingTcb
  <2>4. /\ DOMAIN n = DOMAIN s /\ SameSched(n, s) /\ n.OSTCBPrioTbl = s.OSTCBPrioTbl /\ n.flag = s.flag
        /\ n.OSRdy = s.OSRdy /\ n.ecb = s.ecb /\ n.tcb = [s.tcb EXCEPT ![u] = [@ EXCEPT !.OSTCBStat = st]]
    BY <1>2, <2>2, TcbFields DEF SameSched
  <2> QED
    BY <2>3, <2>4
<1>5. n.tcb[u] = w /\ PrioOf(n, u) = p
  BY <1>2, <1>3, <1>4, TcbFields DEF PrioOf
<1>6. PICK free, rdy : /\ free = (w.OSTCBStat \cap OS_STAT_PEND_ANY = {} /\ w.OSTCBDly = 0)
                       /\ rdy = IF free THEN SetBit(s.OSRdy, p) ELSE s.OSRdy
  OBVIOUS
<1>7. w.OSTCBStat \cap OS_STAT_PEND_ANY = w.OSTCBStat
  BY <1>3 DEF OS_STAT_PEND_ANY, TcbType
<1>8. StillWaits(s, u) <=> w.OSTCBStat # {}
  BY <1>2, <1>3, WaitsStat
<1>9. Changed(s, r, u, w, rdy, s.ecb)
  <2>1. CASE free
    <3>1. r = Ready(n, u)
      BY <1>1, <1>5, <1>6, <2>1 DEF Gone
    <3>2. r = [n EXCEPT !.OSRdy = SetBit(s.OSRdy, p)]
      BY <1>4, <1>5, <3>1 DEF Ready
    <3>3. /\ DOMAIN r = DOMAIN s /\ SameSched(r, s) /\ r.OSTCBPrioTbl = s.OSTCBPrioTbl /\ r.flag = s.flag
          /\ r.OSRdy = SetBit(s.OSRdy, p) /\ r.ecb = s.ecb /\ r.tcb = n.tcb
      BY <1>2, <1>4, <3>2, TcbFields DEF SameSched
    <3> QED
      BY <1>4, <1>6, <2>1, <3>3 DEF Changed
  <2>2. CASE ~free
    <3>1. r = n
      BY <1>1, <1>5, <1>6, <2>2 DEF Gone
    <3> QED
      BY <1>4, <1>6, <2>2, <3>1 DEF Changed
  <2> QED
    BY <2>1, <2>2
<1>10. /\ Agrees(rdy) /\ (p \in rdy.tbl <=> free) /\ rdy.tbl \ {p} = s.OSRdy.tbl \ {p}
  <2>1. p \notin s.OSRdy.tbl
    BY <1>1, <1>2 DEF TaskOK, PrioOf
  <2>2. CASE free
    BY <1>2, <1>6, <2>2, SetBitIs
  <2>3. CASE ~free
    BY <1>2, <1>6, <2>1, <2>3
  <2> QED
    BY <2>2, <2>3
<1>11. ButFor(p, rdy, s.OSRdy)
  BY <1>10 DEF ButFor
<1>12. r.tcb[u] = w /\ r.ecb = s.ecb /\ r.OSRdy = rdy
  BY <1>2, <1>9, TcbFields DEF Changed
<1>13. TaskOK(r, f, u)
  <2>1. (StillWaits(r, u) <=> StillWaits(s, u)) /\ ~Stopped(r, u)
    BY <1>3, <1>12 DEF StillWaits, WaitsFor, Stopped
  <2>2. \A x \in Event : w.OSTCBPrio \in s.ecb[x].wait.tbl <=> w.OSTCBEventPtr = x
    BY <1>1, <1>2, <1>3 DEF TaskOK, PrioOf
  <2>3. w.OSTCBStat \ {"SUSPEND"} = s.tcb[u].OSTCBStat \ {"SUSPEND"}
    BY <1>3
  <2>4. w.OSTCBStat \ {"SUSPEND"} = IF StillWaits(r, u) THEN {r.ecb[w.OSTCBEventPtr].OSEventType} ELSE {}
    BY <1>2, <1>3, <1>12, <2>1, <2>3 DEF TaskOK
  <2>5. p \in rdy.tbl <=> w.OSTCBDly = 0 /\ ~StillWaits(s, u)
    BY <1>6, <1>7, <1>8, <1>10
  <2>6. Owns(r, f, u)
    BY <1>2, <1>3, <1>12 DEF TaskOK, Owns, WaitsFor
  <2> QED
    BY <1>2, <1>3, <1>12, <2>1, <2>2, <2>4, <2>5, <2>6 DEF TaskOK
<1>14. /\ PrioOf(s, u) # NULL /\ w.OSTCBPrio = PrioOf(s, u) /\ ButFor(PrioOf(s, u), rdy, s.OSRdy)
       /\ s.tcb[u].OSTCBEventPtr = NULL /\ Asleep(f, u) => w.OSTCBStatPend = s.tcb[u].OSTCBStatPend
  BY <1>1, <1>2, <1>3, <1>11
<1>150. Adjusted(s, f, r, u, w, rdy)
  BY <1>3, <1>9, <1>13, <1>14 DEF Adjusted
<1>15. /\ ListsOK(r, f) /\ SameSched(r, s) /\ SameContents(r, s) /\ SameTables(r, s)
       /\ \A x \in Event : GrantedIn(r, f, x) = GrantedIn(s, f, x)
  BY <1>150, AdjustedLists
<1> QED
  BY <1>1, <1>5, <1>6, <1>12, <1>15

(* What OSTimeDlyResume does to a task that is delayed. *)
Undelayed(s, u) == IF "SUSPEND" \in EndDelay(s, u).tcb[u].OSTCBStat THEN EndDelay(s, u)
                   ELSE Ready(EndDelay(s, u), u)

(* OSTimeDlyResume keeps the lists, and readies the task unless it is      *)
(* suspended.                                                              *)
LEMMA UndelayLists ==
  ASSUME NEW s, NEW f, ListsOK(s, f), NEW u \in Task, PrioOf(s, u) # NULL, s.tcb[u].OSTCBDly # 0,
         NEW r, r = Undelayed(s, u)
  PROVE  /\ ListsOK(r, f) /\ SameSched(r, s) /\ SameContents(r, s) /\ SameTables(r, s)
         /\ \A x \in Event : GrantedIn(r, f, x) = GrantedIn(s, f, x)
         /\ "SUSPEND" \in EndDelay(s, u).tcb[u].OSTCBStat => r.OSRdy = s.OSRdy
<1>1. PICK p, w, n : p = PrioOf(s, u) /\ w = ResumedTcb(s.tcb[u]) /\ n = EndDelay(s, u)
  OBVIOUS
<1>2. /\ u \in Tcb /\ p \in Prio /\ p # NULL /\ TaskOK(s, f, u) /\ s.tcb[u] \in TcbType /\ Agrees(s.OSRdy)
  BY <1>1, LiveIs
<1>3. /\ w \in TcbType /\ w.OSTCBDly = 0 /\ w.OSTCBPrio = p
      /\ w.OSTCBStat = s.tcb[u].OSTCBStat \cap {"SUSPEND"} /\ w.OSTCBMsg = s.tcb[u].OSTCBMsg
      /\ w.OSTCBStatPend = IF s.tcb[u].OSTCBStat \ {"SUSPEND"} = {} THEN "OK" ELSE "TO"
      /\ w.OSTCBEventPtr = s.tcb[u].OSTCBEventPtr
  <2>1. s.tcb[u].OSTCBPrio = p
    BY <1>1 DEF PrioOf
  <2>2. PICK tcb \in TcbType : tcb = s.tcb[u]
    BY <1>2
  <2> QED
    BY <1>1, <2>1, <2>2, ResumedIs
<1>4. /\ DOMAIN n = DOMAIN s /\ SameSched(n, s) /\ n.OSTCBPrioTbl = s.OSTCBPrioTbl /\ n.flag = s.flag
      /\ n.OSRdy = s.OSRdy /\ n.ecb = s.ecb /\ n.tcb = [s.tcb EXCEPT ![u] = w]
  BY <1>1, <1>2, TcbFields DEF SameSched, EndDelay
<1>5. n.tcb[u] = w /\ PrioOf(n, u) = p
  BY <1>2, <1>3, <1>4, TcbFields DEF PrioOf
<1>6. PICK stop, rdy : /\ stop = ("SUSPEND" \in w.OSTCBStat)
                       /\ rdy = IF stop THEN s.OSRdy ELSE SetBit(s.OSRdy, p)
  OBVIOUS
<1>7. stop <=> Stopped(s, u)
  BY <1>3, <1>6 DEF Stopped
<1>8. StillWaits(s, u) <=> w.OSTCBStatPend = "TO"
  BY <1>2, <1>3, WaitsStat
<1>9. Changed(s, r, u, w, rdy, s.ecb)
  <2>1. CASE ~stop
    <3>1. r = Ready(n, u)
      BY <1>1, <1>5, <1>6, <2>1 DEF Undelayed
    <3>2. r = [n EXCEPT !.OSRdy = SetBit(s.OSRdy, p)]
      BY <1>4, <1>5, <3>1 DEF Ready
    <3>3. /\ DOMAIN r = DOMAIN s /\ SameSched(r, s) /\ r.OSTCBPrioTbl = s.OSTCBPrioTbl /\ r.flag = s.flag
          /\ r.OSRdy = SetBit(s.OSRdy, p) /\ r.ecb = s.ecb /\ r.tcb = n.tcb
      BY <1>2, <1>4, <3>2, TcbFields DEF SameSched
    <3> QED
      BY <1>4, <1>6, <2>1, <3>3 DEF Changed
  <2>2. CASE stop
    <3>1. r = n
      BY <1>1, <1>5, <1>6, <2>2 DEF Undelayed
    <3> QED
      BY <1>4, <1>6, <2>2, <3>1 DEF Changed
  <2> QED
    BY <2>1, <2>2
<1>10. /\ Agrees(rdy) /\ (p \in rdy.tbl <=> ~stop) /\ rdy.tbl \ {p} = s.OSRdy.tbl \ {p}
  <2>1. p \notin s.OSRdy.tbl
    BY <1>1, <1>2 DEF TaskOK, PrioOf
  <2>2. CASE ~stop
    BY <1>2, <1>6, <2>2, SetBitIs
  <2>3. CASE stop
    BY <1>2, <1>6, <2>1, <2>3
  <2> QED
    BY <2>2, <2>3
<1>11. ButFor(p, rdy, s.OSRdy)
  BY <1>10 DEF ButFor
<1>12. r.tcb[u] = w /\ r.ecb = s.ecb /\ r.OSRdy = rdy
  BY <1>2, <1>9, TcbFields DEF Changed
<1>13. TaskOK(r, f, u)
  <2>0. s.tcb[u].OSTCBEventPtr # NULL => StillWaits(s, u)
    BY <1>2 DEF TaskOK
  <2>1. ~StillWaits(r, u)
    BY <1>3, <1>8, <1>12, <2>0 DEF StillWaits, WaitsFor
  <2>8. Stopped(r, u) <=> stop
    BY <1>6, <1>12 DEF Stopped
  <2>2. \A x \in Event : w.OSTCBPrio \in s.ecb[x].wait.tbl <=> w.OSTCBEventPtr = x
    BY <1>1, <1>2, <1>3 DEF TaskOK, PrioOf
  <2>3. w.OSTCBStat \ {"SUSPEND"} = {}
    BY <1>3
  <2>4. Asleep(f, u) => StillWaits(s, u)
    BY <1>2 DEF TaskOK
  <2>5. StillWaits(s, u) => w.OSTCBEventPtr # NULL
    BY <1>3 DEF StillWaits, WaitsFor
  <2>6. /\ w.OSTCBEventPtr # NULL => Asleep(f, u)
        /\ ~StillWaits(s, u) => w.OSTCBStatPend = "OK"
        /\ Asleep(f, u) => w.OSTCBEventPtr \in {f[u].call.e, NULL}
        /\ w.OSTCBStatPend # "ABORT"
    BY <1>2, <1>3, <1>8 DEF TaskOK
  <2>7. ~Asleep(f, u) => ~StillWaits(s, u)
    BY <1>2, <1>3, <2>5, <2>6
  <2>9. Owns(r, f, u)
    BY <1>12, <2>4, <2>5 DEF Owns, WaitsFor
  <2> QED
    BY <1>2, <1>3, <1>10, <1>12, <2>1, <2>2, <2>3, <2>4, <2>5, <2>6, <2>7, <2>8, <2>9 DEF TaskOK
<1>14. /\ PrioOf(s, u) # NULL /\ w.OSTCBPrio = PrioOf(s, u) /\ ButFor(PrioOf(s, u), rdy, s.OSRdy)
       /\ s.tcb[u].OSTCBEventPtr = NULL /\ Asleep(f, u) => w.OSTCBStatPend = s.tcb[u].OSTCBStatPend
  <2>1. Asleep(f, u) => s.tcb[u].OSTCBEventPtr # NULL
    BY <1>2 DEF TaskOK, StillWaits, WaitsFor
  <2> QED
    BY <1>1, <1>2, <1>3, <1>11, <2>1
<1>150. Adjusted(s, f, r, u, w, rdy)
  BY <1>3, <1>9, <1>13, <1>14 DEF Adjusted
<1>15. /\ ListsOK(r, f) /\ SameSched(r, s) /\ SameContents(r, s) /\ SameTables(r, s)
       /\ \A x \in Event : GrantedIn(r, f, x) = GrantedIn(s, f, x)
  BY <1>150, AdjustedLists
<1> QED
  BY <1>1, <1>5, <1>6, <1>12, <1>15

(* Same tasks, same lists and same events: only the scheduler's own fields *)
(* may have changed.                                                       *)
SameLists(r, s) ==
    /\ DOMAIN r = DOMAIN s
    /\ r.OSRdy = s.OSRdy /\ r.OSTCBPrioTbl = s.OSTCBPrioTbl /\ r.tcb = s.tcb /\ r.ecb = s.ecb
SchedTypes(r) ==
    /\ r.OSRunning \in BOOLEAN /\ r.msip \in BOOLEAN
    /\ r.OSIntNesting \in Nat /\ r.OSLockNesting \in 0 .. 1
    /\ r.OSPrioCur \in Prio /\ r.OSPrioHighRdy \in Prio
    /\ r.OSTCBCur \in Tcb \cup {NULL} /\ r.OSTCBHighRdy \in Tcb \cup {NULL}

(* Steps of the scheduler alone keep the lists and lose nothing. *)
LEMMA SchedLists ==
  ASSUME NEW s, NEW f, ListsOK(s, f), NEW r, SameLists(r, s), SchedTypes(r)
  PROVE  /\ ListsOK(r, f)
         /\ \A x \in Event : Count(r, f, x) = Count(s, f, x)
<1>1. KernelType(r)
  BY DEF ListsOK, KernelType, SameLists, SchedTypes
<1>2. TablesOK(r) /\ BitsTasks(r) /\ r.tcb[Idle] = s.tcb[Idle]
  BY DEF ListsOK, TablesOK, BitsTasks, SameLists, PrioOf
<1>3. FrameOK(r, f)
  BY DEF ListsOK, FrameOK, CallOK, SameLists, PrioOf
<1>4. ASSUME NEW t \in Tcb PROVE TaskOK(r, f, t)
  BY DEF ListsOK, TaskOK, Owns, SameLists, StillWaits, WaitsFor, Stopped
<1>5. \A x \in Event : GrantedIn(r, f, x) = GrantedIn(s, f, x)
  BY DEF GrantedIn, WaitsFor, SameLists
<1> QED
  BY <1>1, <1>2, <1>3, <1>4, <1>5 DEF ListsOK, Count, SameLists

-----------------------------------------------------------------------------
(* A service, from the state its task enters it in.                        *)
Entered(s, f, t, c) ==
    /\ ListsOK(s, f) /\ SchedOK(s, f) /\ Running(s, t) /\ f[t].at \in {"app", "enter"}
    /\ CallOK(s, c) /\ (c.op \in UnlockedOps => s.OSLockNesting = 0)

(* Same names: every task has its priority, every event its type.          *)
SameNames(r, s) ==
    /\ \A u \in Tcb : PrioOf(r, u) = PrioOf(s, u)
    /\ \A x \in Event : r.ecb[x].OSEventType = s.ecb[x].OSEventType

(* What all services that do not wait keep.                                *)
KeepsLists(s, f, r) ==
    /\ ListsOK(r.s, f) /\ SameSched(r.s, s) /\ SameNames(r.s, s)
    /\ \/ r.then = "sched"
       \/ r.then = "return" /\ (s.OSLockNesting = 0 => Highest(r.s.OSRdy) = Highest(s.OSRdy))

(* And those that are not for a mutex, whose owner may change. *)
Keeps(s, f, r) == KeepsLists(s, f, r) /\ EventsMove(r.s, s)

(* A call stays a proper one while tasks keep their priorities and events  *)
(* their types.                                                            *)
LEMMA CallStays ==
  ASSUME NEW s, NEW r, SameNames(r, s), NEW c, CallOK(s, c)
  PROVE  CallOK(r, c)
<1>1. c.op \in EventOps => c.e \in Event
  BY DEF CallOK, PlainCall, EventOps, SemOps, MutexOps, MboxOps, QOps, PendOps
<1> QED
  BY <1>1 DEF CallOK, SameNames

(* A service that does not wait leaves the scheduler right: either it ends *)
(* with OS_Sched, or the highest ready task is the one that runs.          *)
LEMMA ServiceKeeps ==
  ASSUME NEW s, NEW f, NEW t, NEW c, Entered(s, f, t, c), NEW r, KeepsLists(s, f, r),
         NEW g, g = PutFrame(f, t, FrameAfter(c, r))
  PROVE  /\ ListsOK(r.s, g) /\ SchedOK(r.s, g)
         /\ \A x \in Event : Count(r.s, g, x) = Count(r.s, f, x)
<1>1. /\ t \in Task /\ t \in Tcb /\ PrioOf(s, t) # NULL /\ PrioOf(s, t) = s.OSPrioCur
      /\ s.OSIntNesting = 0 /\ s.OSRunning /\ ~s.msip /\ s.OSTCBCur = t
  BY RunningIs DEF Entered, Running
<1>2. PICK n : n = r.s
  OBVIOUS
<1>3. /\ ListsOK(n, f) /\ SameSched(n, s) /\ SameNames(n, s) /\ PrioOf(n, t) = PrioOf(s, t)
      /\ r.then = "sched" \/ r.then = "return"
      /\ r.then = "return" /\ s.OSLockNesting = 0 => Highest(n.OSRdy) = Highest(s.OSRdy)
  BY <1>1, <1>2 DEF KeepsLists, SameNames
<1>4. DOMAIN f = Tcb
  BY DEF Entered, ListsOK, FrameOK
<1>5. /\ g[t] = IF r.then = "return" THEN App ELSE [at |-> "sched", call |-> c]
      /\ DOMAIN g = Tcb /\ \A u \in Tcb \ {t} : g[u] = f[u]
  BY <1>1, <1>3, <1>4 DEF FrameAfter, PutFrame
<1>6. ~Asleep(f, t) /\ ~Asleep(g, t) /\ g[t].at \in {"app", "sched"} /\ f[t].at \notin {"sched", "block"}
  BY <1>5 DEF Entered, Asleep, App
<1>7. CallOK(n, c) /\ c \in PlainCall
  BY <1>3, CallStays DEF Entered, CallOK
<1>8. FramesBut(t, g, f) /\ FrameAt(n, g, t)
  BY <1>5, <1>6, <1>7 DEF FramesBut, FrameAt
<1>9. ListsOK(n, g) /\ \A x \in Event : GrantedIn(n, g, x) = GrantedIn(n, f, x)
  BY <1>1, <1>3, <1>6, <1>8, FrameLists
<1>10. SchedOK(n, g)
  <2>1. s.OSLockNesting = 0 => s.OSPrioCur = Highest(s.OSRdy)
    BY <1>1, <1>6 DEF Entered, SchedOK
  <2>2. /\ n.OSIntNesting = 0 /\ n.OSRunning /\ ~n.msip /\ n.OSTCBCur = t /\ n.OSPrioCur = s.OSPrioCur
        /\ n.OSLockNesting = s.OSLockNesting
    BY <1>1, <1>3 DEF SameSched
  <2>3. n.OSLockNesting = 0 /\ g[t].at \notin {"sched", "block"} => n.OSPrioCur = Highest(n.OSRdy)
    BY <1>3, <1>5, <2>1, <2>2
  <2> QED
    BY <1>1, <1>3, <1>6, <2>2, <2>3 DEF SchedOK
<1> QED
  BY <1>2, <1>9, <1>10 DEF Count

-----------------------------------------------------------------------------
(* What a service adds to what its event holds and owes.                   *)
Flushes == {"QFlush", "SemSet"}
(* What a call that ends with r adds to its event, and that it does. *)
Delta(s, c, r) ==
    IF c.op \in Posts THEN IF r.err = NONE THEN Receivers(s, c) ELSE 0
    ELSE IF c.op \in Takes THEN IF GotIt(c, r) THEN -1 ELSE 0
    ELSE IF c.op \in Flushes THEN Contents(r.s.ecb[c.e]) - Contents(s.ecb[c.e]) ELSE 0

Gives(s, f, r, c) ==
    /\ Delta(s, c, r) \in Int
    /\ \A x \in Event : Count(r.s, f, x) =
          Count(s, f, x) + (IF c.op \in EventOps /\ x = c.e THEN Delta(s, c, r) ELSE 0)

(* What an event holds and what it has granted are natural numbers. *)
LEMMA CountIs ==
  ASSUME NEW s, NEW f, ListsOK(s, f), NEW x \in Event
  PROVE  Count(s, f, x) \in Nat /\ Contents(s.ecb[x]) \in Nat /\ GrantedTo(s, f, x) \in Nat
         /\ Count(s, f, x) = Contents(s.ecb[x]) + GrantedTo(s, f, x)
<1>1. GrantedTo(s, f, x) \in Nat
  BY FiniteLists
<1>2. PICK ecb : ecb = s.ecb[x]
  OBVIOUS
<1>3. EcbOK(ecb)
  BY <1>2 DEF ListsOK, KernelType
<1>4. ecb.OSEventType = "Q" => ecb.OSEventPtr.OSQEntries \in Nat
  BY <1>3, ApplicationAssumption DEF EcbOK, Ring
<1>5. Contents(ecb) \in Nat
  BY <1>3, <1>4 DEF Contents, EcbOK
<1> QED
  BY <1>1, <1>2, <1>5 DEF Count, GrantedTo

(* If a service adds to an event what the history says it adds, the books  *)
(* still balance.                                                          *)
LEMMA CreditIs ==
  ASSUME NEW s, NEW f, ListsOK(s, f), CreditOK(s, f, credit), NEW c, CallOK(s, c), NEW r,
         Gives(s, f, r, c), ListsOK(r.s, f)
  PROVE  \A x \in Event : CreditAfter(s, c, r)[x] = Count(r.s, f, x)
<1>1. c.op \in EventOps => c.e \in Event
  BY DEF CallOK, PlainCall, EventOps, SemOps, MutexOps, MboxOps, QOps, PendOps
<1>2. credit \in [Event -> Int] /\ \A x \in Event : credit[x] = Count(s, f, x)
  BY DEF CreditOK
<1>3. c.op \notin {"PendMulti", "SemDel", "MboxDel", "QDel", "SemCreate", "MboxCreate"}
  BY DEF CallOK, PlainCall, PendOps
<1>4. PICK d : d = Delta(s, c, r)
  OBVIOUS
<1>5. d \in Int /\ \A x \in Event : Count(r.s, f, x) =
          Count(s, f, x) + (IF c.op \in EventOps /\ x = c.e THEN d ELSE 0)
  BY <1>4 DEF Gives
<1>6. CASE c.op \in Posts
  <2>1. c.op \notin Takes /\ c.op \notin Flushes /\ c.op \in EventOps
    BY <1>6 DEF Posts, Takes, Flushes, EventOps, SemOps, MutexOps, MboxOps, QOps
  <2>2. CASE r.err = NONE
    <3>1. CreditAfter(s, c, r) = [credit EXCEPT ![c.e] = @ + d]
      BY <1>3, <1>4, <1>6, <2>1, <2>2 DEF CreditAfter, Delta, Flushes
    <3> QED
      BY <1>1, <1>2, <1>5, <2>1, <3>1
  <2>3. CASE r.err # NONE
    <3>1. CreditAfter(s, c, r) = credit /\ d = 0
      BY <1>3, <1>4, <1>6, <2>1, <2>3 DEF CreditAfter, Delta, Flushes
    <3> QED
      BY <1>1, <1>2, <1>5, <3>1, CountIs
  <2> QED
    BY <2>2, <2>3
<1>7. CASE c.op \in Takes
  <2>1. c.op \notin Posts /\ c.op \notin Flushes /\ c.op \in EventOps
    BY <1>7 DEF Posts, Takes, Flushes, EventOps, SemOps, MutexOps, MboxOps, QOps
  <2>2. CASE GotIt(c, r)
    <3>1. CreditAfter(s, c, r) = [credit EXCEPT ![c.e] = @ - 1] /\ d = -1
      BY <1>3, <1>4, <1>7, <2>1, <2>2 DEF CreditAfter, Delta, Flushes
    <3> QED
      BY <1>1, <1>2, <1>5, <2>1, <3>1
  <2>3. CASE ~GotIt(c, r)
    <3>1. CreditAfter(s, c, r) = credit /\ d = 0
      BY <1>3, <1>4, <1>7, <2>1, <2>3 DEF CreditAfter, Delta, Flushes
    <3> QED
      BY <1>1, <1>2, <1>5, <3>1, CountIs
  <2> QED
    BY <2>2, <2>3
<1>8. CASE c.op \in Flushes
  <2>1. c.op \notin Posts /\ c.op \notin Takes /\ c.op \in EventOps
    BY <1>8 DEF Posts, Takes, Flushes, EventOps, SemOps, MutexOps, MboxOps, QOps
  <2>2. PICK a, b : a = Contents(r.s.ecb[c.e]) /\ b = Contents(s.ecb[c.e])
    OBVIOUS
  <2>3. d = a - b /\ b \in Int
    BY <1>1, <1>4, <2>1, <1>8, <2>2, CountIs DEF Delta
  <2>4. CreditAfter(s, c, r) = [credit EXCEPT ![c.e] = @ + a - b]
    BY <1>3, <1>8, <2>1, <2>2 DEF CreditAfter, Flushes
  <2>5. \A x \in Event : CreditAfter(s, c, r)[x] = IF x = c.e THEN credit[x] + a - b ELSE credit[x]
    BY <1>1, <1>2, <2>1, <2>4
  <2>6. a \in Int
    BY <1>1, <2>1, <2>2, CountIs
  <2> QED
    BY <1>1, <1>2, <1>5, <2>1, <2>3, <2>5, <2>6, CountIs
<1>9. CASE c.op \notin Posts \cup Takes \cup Flushes
  <2>1. CreditAfter(s, c, r) = credit /\ d = 0
    BY <1>3, <1>4, <1>9 DEF CreditAfter, Delta, Flushes
  <2> QED
    BY <1>1, <1>2, <1>5, <2>1, CountIs
<1> QED
  BY <1>6, <1>7, <1>8, <1>9

(* Posts, whoever calls them: a task or an interrupt handler.              *)
LEMMA ServedCounts ==
  ASSUME NEW s, NEW r, NEW f, NEW e \in Event, NEW stat \in {"OK", "ABORT"}, NEW k \in Nat,
         ListsOK(s, f), ServedSome(s, r, f, e, stat, k)
  PROVE  /\ ListsOK(r, f) /\ SameSched(r, s) /\ SameNames(r, s)
         /\ \A x \in Event : Count(r, f, x) =
               Count(s, f, x) + (IF x = e /\ stat = "OK" THEN k ELSE 0)
<1>1. ListsOK(r, f) /\ SameSched(r, s) /\ SameNames(r, s)
  BY DEF ServedSome, SameTables, SameNames, PrioOf
<1>2. ASSUME NEW x \in Event
      PROVE  Count(r, f, x) = Count(s, f, x) + (IF x = e /\ stat = "OK" THEN k ELSE 0)
  <2>1. Contents(r.ecb[x]) = Contents(s.ecb[x])
    BY ContentsSame DEF ServedSome, SameContentsIs
  <2>2. GrantedTo(r, f, x) = GrantedTo(s, f, x) + (IF x = e /\ stat = "OK" THEN k ELSE 0)
    <3>1. CASE x = e
      BY <3>1, CountIs DEF ServedSome
    <3>2. CASE x # e
      BY <3>2, CountIs DEF ServedSome, GrantedTo
    <3> QED
      BY <3>1, <3>2
  <2> QED
    BY <1>1, <2>1, <2>2, CountIs
<1> QED
  BY <1>1, <1>2

(* The event e alone is filled or emptied.                                 *)
LEMMA FilledCounts ==
  ASSUME NEW s, NEW r, NEW f, NEW e \in Event, ListsOK(s, f), ListsOK(r, f),
         \A x \in Event : GrantedIn(r, f, x) = GrantedIn(s, f, x),
         \A x \in Event \ {e} : r.ecb[x] = s.ecb[x]
  PROVE  \A x \in Event : Count(r, f, x) =
            Count(s, f, x) + (IF x = e THEN Contents(r.ecb[e]) - Contents(s.ecb[e]) ELSE 0)
<1>1. ASSUME NEW x \in Event
      PROVE  Count(r, f, x) =
                Count(s, f, x) + (IF x = e THEN Contents(r.ecb[e]) - Contents(s.ecb[e]) ELSE 0)
  <2>1. GrantedTo(r, f, x) = GrantedTo(s, f, x)
    BY DEF GrantedTo
  <2>2. x # e => Contents(r.ecb[x]) = Contents(s.ecb[x])
    OBVIOUS
  <2> QED
    BY <2>1, <2>2, CountIs
<1> QED
  BY <1>1

Filled(s, n, f, e) ==
    /\ ListsOK(n, f) /\ SameSched(n, s) /\ n.OSRdy = s.OSRdy /\ n.tcb = s.tcb
    /\ \A x \in Event : GrantedIn(n, f, x) = GrantedIn(s, f, x)
    /\ \A x \in Event \ {e} : n.ecb[x] = s.ecb[x]
    /\ n.ecb[e].OSEventType = s.ecb[e].OSEventType
    /\ s.ecb[e].OSEventType = "Q" => RingMoves(s.ecb[e].OSEventPtr, n.ecb[e].OSEventPtr)
    /\ s.ecb[e].OSEventType # "MUTEX"

(* A service that only changes what its event holds gives as much as it    *)
(* adds to it.                                                             *)
LEMMA FillingServes ==
  ASSUME NEW s, NEW f, ListsOK(s, f), NEW n, NEW e \in Event, Filled(s, n, f, e),
         NEW r, r.s = n, r.then = "return", NEW c, c.op \in EventOps, c.e = e,
         Delta(s, c, r) = Contents(n.ecb[e]) - Contents(s.ecb[e])
  PROVE  Keeps(s, f, r) /\ Gives(s, f, r, c)
<1>1. PICK d : d = Contents(n.ecb[e]) - Contents(s.ecb[e])
  OBVIOUS
<1>2. \A x \in Event : Count(n, f, x) = Count(s, f, x) + (IF x = e THEN d ELSE 0)
  BY <1>1, FilledCounts DEF Filled
<1>3. SameNames(n, s)
  BY DEF SameNames, PrioOf, Filled
<1>4. d \in Int
  BY <1>1, CountIs DEF Filled
<1>5. EventsMove(n, s)
  BY DEF Filled, EventsMove, QueuesMove, RingStays, OwnersStay
<1> QED
  BY <1>1, <1>2, <1>3, <1>4, <1>5 DEF Keeps, KeepsLists, Gives, Filled

(* A service that serves k waiters gives k. *)
LEMMA ServingServes ==
  ASSUME NEW s, NEW f, ListsOK(s, f), NEW n, NEW e \in Event, NEW stat \in {"OK", "ABORT"},
         NEW k \in Nat, ServedSome(s, n, f, e, stat, k),
         NEW r, r.s = n, r.then = "sched", NEW c, c.op \in EventOps, c.e = e,
         Delta(s, c, r) = IF stat = "OK" THEN k ELSE 0
  PROVE  Keeps(s, f, r) /\ Gives(s, f, r, c)
<1>1. /\ ListsOK(n, f) /\ SameSched(n, s) /\ SameNames(n, s)
      /\ \A x \in Event : Count(n, f, x) = Count(s, f, x) + (IF x = e /\ stat = "OK" THEN k ELSE 0)
  BY ServedCounts
<1>2. PICK d : d = Delta(s, c, r)
  OBVIOUS
<1>3. d \in Int /\ \A x \in Event : Count(n, f, x) = Count(s, f, x) + (IF x = e THEN d ELSE 0)
  BY <1>1, <1>2
<1>4. EventsMove(n, s)
  BY QueuesStay DEF ServedSome
<1> QED
  BY <1>1, <1>2, <1>3, <1>4 DEF Keeps, KeepsLists, Gives

(* A service that fails or finds nothing gives nothing. *)
LEMMA NothingChanges ==
  ASSUME NEW s, NEW f, ListsOK(s, f), NEW r, r.s = s, r.then = "return", NEW c, Delta(s, c, r) = 0
  PROVE  Keeps(s, f, r) /\ Gives(s, f, r, c)
<1>1. PICK n : n = r.s
  OBVIOUS
<1>2. n = s
  BY <1>1
<1>3. SameSched(n, s) /\ SameNames(n, s) /\ ListsOK(n, f)
  BY <1>2 DEF SameSched, SameNames
<1>4. \A x \in Event : Count(n, f, x) = Count(s, f, x) + 0
  BY <1>2, CountIs
<1>5. EventsMove(n, s)
  BY <1>2 DEF EventsMove, QueuesMove, RingStays, OwnersStay
<1> QED
  BY <1>1, <1>2, <1>3, <1>4, <1>5 DEF Keeps, KeepsLists, Gives

(* The calls, by what they carry.                                          *)
LEMMA CallIs ==
  ASSUME NEW s, NEW c, CallOK(s, c)
  PROVE  /\ c.op \in EventOps => c.e \in Event /\ s.ecb[c.e].OSEventType = TypeFor(c.op)
         /\ c.op \in PendOps => c.timeout \in Nat
         /\ c.op = "SemSet" => c.cnt \in Nat
         /\ c.op \in {"SemPendAbort", "MboxPendAbort", "QPendAbort"} => c.broadcast \in BOOLEAN
         /\ c.op \in Posts \ {"SemPost"} => c.msg \in Message
         /\ c.op \in {"MboxPostOpt", "QPostOpt"} =>
               c.opt \subseteq {"BROADCAST", "FRONT"} /\ "opt" \in DOMAIN c
         /\ c.op \in Posts \ {"MboxPostOpt", "QPostOpt"} => "opt" \notin DOMAIN c
<1>1. c \in PlainCall
  BY DEF CallOK
<1>2. c.op \in EventOps => c.e \in Event /\ s.ecb[c.e].OSEventType = TypeFor(c.op)
  BY <1>1 DEF CallOK, PlainCall, EventOps, SemOps, MutexOps, MboxOps, QOps, PendOps
<1>3. c.op \in PendOps => c.timeout \in Nat
  BY <1>1 DEF PlainCall, PendOps
<1>4. c.op = "SemSet" => c.cnt \in Nat
  BY <1>1 DEF PlainCall, PendOps
<1>5. c.op \in {"SemPendAbort", "MboxPendAbort", "QPendAbort"} => c.broadcast \in BOOLEAN
  BY <1>1 DEF PlainCall, PendOps
<1>6. c.op \in Posts \ {"SemPost"} => c.msg \in Message
  BY <1>1 DEF PlainCall, PendOps, Posts
<1>7. c.op \in {"MboxPostOpt", "QPostOpt"} => c.opt \subseteq {"BROADCAST", "FRONT"} /\ "opt" \in DOMAIN c
  BY <1>1 DEF PlainCall, PendOps
<1>8. c.op \in Posts \ {"MboxPostOpt", "QPostOpt"} => "opt" \notin DOMAIN c
  BY <1>1 DEF PlainCall, PendOps, Posts
<1> QED
  BY <1>2, <1>3, <1>4, <1>5, <1>6, <1>7, <1>8

(* OSSemPost gives one permit, to a waiter or to the count. *)
LEMMA SemPostServes ==
  ASSUME NEW s, NEW f, ListsOK(s, f), NEW c, CallOK(s, c), c.op = "SemPost",
         NEW r, r = OSSemPost(s, c.e)
  PROVE  Keeps(s, f, r) /\ Gives(s, f, r, c)
<1>1. PICK e : e = c.e
  OBVIOUS
<1>2. /\ e \in Event /\ s.ecb[e].OSEventType = "SEM" /\ c.op \in EventOps /\ c.op \in Posts
      /\ s.ecb[e].OSEventCnt \in Nat
  BY <1>1, CallIs, EcbFields DEF EventOps, SemOps, MutexOps, MboxOps, Posts, TypeFor, EcbOK
<1>3. Receivers(s, c) = 1
  BY CallIs DEF Receivers, Posts
<1>4. CASE Waiting(s, e)
  <2>1. PICK n : n = OS_EventTaskRdy(s, e, NULL, "SEM", "OK")
    OBVIOUS
  <2>2. r.s = n /\ r.then = "sched" /\ r.err = NONE
    BY <1>1, <1>4, <2>1 DEF OSSemPost, ThenSched
  <2>3. ServedSome(s, n, f, e, "OK", 1)
    BY <1>2, <1>4, <2>1, RdyServes
  <2>4. Delta(s, c, r) = 1
    BY <1>2, <1>3, <2>2 DEF Delta
  <2> QED
    BY <1>1, <1>2, <2>2, <2>3, <2>4, ServingServes
<1>5. CASE ~Waiting(s, e) /\ s.ecb[e].OSEventCnt < SEM_MAX
  <2>1. PICK cnt, n : cnt = s.ecb[e].OSEventCnt + 1 /\ n = SetCnt(s, e, cnt)
    OBVIOUS
  <2>2. r.s = n /\ r.then = "return" /\ r.err = NONE
    <3>1. r = Return([s EXCEPT !.ecb[e].OSEventCnt = @ + 1], NONE)
      BY <1>1, <1>5 DEF OSSemPost
    <3>2. [s EXCEPT !.ecb[e].OSEventCnt = @ + 1] = n
      BY <1>2, <2>1, EcbFields DEF SetCnt
    <3> QED
      BY <3>1, <3>2 DEF Return
  <2>3. cnt \in Nat
    BY <1>2, <2>1
  <2>4. Filled(s, n, f, e) /\ n.ecb[e].OSEventType = "SEM" /\ n.ecb[e].OSEventCnt = cnt
    BY <1>2, <2>1, <2>3, SemFilled DEF Filled
  <2>5. Contents(n.ecb[e]) - Contents(s.ecb[e]) = 1
    BY <1>2, <2>1, <2>4 DEF Contents
  <2>6. Delta(s, c, r) = 1
    BY <1>2, <1>3, <2>2 DEF Delta
  <2> QED
    BY <1>1, <1>2, <2>2, <2>4, <2>5, <2>6, FillingServes
<1>6. CASE ~Waiting(s, e) /\ ~(s.ecb[e].OSEventCnt < SEM_MAX)
  <2>1. r.s = s /\ r.then = "return" /\ r.err # NONE
    BY <1>1, <1>6, KernelAssumption DEF OSSemPost, Return
  <2>2. Delta(s, c, r) = 0
    BY <1>2, <2>1 DEF Delta
  <2> QED
    BY <2>1, <2>2, NothingChanges
<1> QED
  BY <1>4, <1>5, <1>6

(* A post to a mailbox nobody waits for stores the message, or fails and   *)
(* gives nothing.                                                          *)
LEMMA MboxStoreServes ==
  ASSUME NEW s, NEW f, ListsOK(s, f), NEW c, CallOK(s, c), c.op \in {"MboxPost", "MboxPostOpt"},
         ~Waiting(s, c.e), NEW r, r = MboxStore(s, c.e, c.msg)
  PROVE  Keeps(s, f, r) /\ Gives(s, f, r, c)
<1>1. PICK e, msg : e = c.e /\ msg = c.msg
  OBVIOUS
<1>2. /\ e \in Event /\ s.ecb[e].OSEventType = "MBOX" /\ c.op \in EventOps /\ c.op \in Posts
      /\ msg \in Message /\ msg # NULL
  BY <1>1, CallIs, ApplicationAssumption DEF EventOps, SemOps, MutexOps, MboxOps, Posts, TypeFor
<1>3. Receivers(s, c) = 1
  BY DEF Receivers
<1>4. CASE s.ecb[e].OSEventPtr = NULL
  <2>1. PICK n : n = SetPtr(s, e, msg)
    OBVIOUS
  <2>2. r.s = n /\ r.then = "return" /\ r.err = NONE
    BY <1>1, <1>4, <2>1 DEF MboxStore, Return, SetPtr
  <2>3. Filled(s, n, f, e) /\ n.ecb[e].OSEventType = "MBOX" /\ n.ecb[e].OSEventPtr = msg
    BY <1>2, <2>1, MboxFilled DEF Filled
  <2>4. Contents(n.ecb[e]) - Contents(s.ecb[e]) = 1
    BY <1>2, <1>4, <2>3 DEF Contents
  <2>5. Delta(s, c, r) = 1
    BY <1>2, <1>3, <2>2 DEF Delta
  <2> QED
    BY <1>1, <1>2, <2>2, <2>3, <2>4, <2>5, FillingServes
<1>5. CASE s.ecb[e].OSEventPtr # NULL
  <2>1. r.s = s /\ r.then = "return" /\ r.err # NONE
    BY <1>1, <1>5, KernelAssumption DEF MboxStore, Return
  <2>2. Delta(s, c, r) = 0
    BY <1>2, <2>1 DEF Delta
  <2> QED
    BY <2>1, <2>2, NothingChanges
<1> QED
  BY <1>4, <1>5

(* A post to a queue nobody waits for stores the message, at either end,   *)
(* or fails and gives nothing.                                             *)
LEMMA QStoreServes ==
  ASSUME NEW s, NEW f, ListsOK(s, f), NEW c, CallOK(s, c), c.op \in {"QPost", "QPostFront", "QPostOpt"},
         ~Waiting(s, c.e), NEW front, NEW r, r = QStore(s, c.e, c.msg, front)
  PROVE  Keeps(s, f, r) /\ Gives(s, f, r, c)
<1>1. PICK e, msg, q : e = c.e /\ msg = c.msg /\ q = s.ecb[e].OSEventPtr
  OBVIOUS
<1>2. /\ e \in Event /\ s.ecb[e].OSEventType = "Q" /\ c.op \in EventOps /\ c.op \in Posts
      /\ msg \in Message /\ Ring(q)
  BY <1>1, CallIs, EcbFields DEF EventOps, SemOps, MutexOps, MboxOps, QOps, Posts, TypeFor, EcbOK
<1>3. Receivers(s, c) = 1
  BY DEF Receivers
<1>4. PICK m : m = IF front
             THEN [q EXCEPT !.OSQOut = StepBack(@), !.ring[StepBack(q.OSQOut)] = msg,
                            !.OSQEntries = @ + 1]
             ELSE [q EXCEPT !.OSQIn = Step(@), !.ring[q.OSQIn] = msg, !.OSQEntries = @ + 1]
  OBVIOUS
<1>5. q.OSQEntries \in Nat /\ QSIZE \in Nat
  BY <1>2, ApplicationAssumption DEF Ring
<1>6. CASE q.OSQEntries < QSIZE
  <2>1. PICK n : n = SetPtr(s, e, m)
    OBVIOUS
  <2>2. r.s = n /\ r.then = "return" /\ r.err = NONE
    <3>1. ~(q.OSQEntries >= QSIZE)
      BY <1>5, <1>6
    <3> QED
      BY <1>1, <1>4, <2>1, <3>1 DEF QStore, Return, SetPtr
  <2>3. Ring(m) /\ m.OSQEntries = q.OSQEntries + 1 /\ RingMoves(q, m)
    <3>1. CASE front
      <4>1. m = Prepending(q, msg)
        BY <1>4, <3>1 DEF Prepending
      <4> QED
        BY <1>2, <1>6, <4>1, Prepended DEF RingMoves
    <3>2. CASE ~front
      <4>1. m = Appending(q, msg)
        BY <1>4, <3>2 DEF Appending
      <4> QED
        BY <1>2, <1>6, <4>1, Appended DEF RingMoves
    <3> QED
      BY <3>1, <3>2
  <2>4. Filled(s, n, f, e) /\ n.ecb[e].OSEventType = "Q" /\ n.ecb[e].OSEventPtr = m
    BY <1>1, <1>2, <2>1, <2>3, QFilled DEF Filled
  <2>5. Contents(n.ecb[e]) - Contents(s.ecb[e]) = 1
    BY <1>1, <1>2, <1>5, <2>3, <2>4 DEF Contents
  <2>6. Delta(s, c, r) = 1
    BY <1>2, <1>3, <2>2 DEF Delta
  <2> QED
    BY <1>1, <1>2, <2>2, <2>4, <2>5, <2>6, FillingServes
<1>7. CASE ~(q.OSQEntries < QSIZE)
  <2>0. q.OSQEntries >= QSIZE
    BY <1>5, <1>7
  <2>1. r.s = s /\ r.then = "return" /\ r.err # NONE
    BY <1>1, <2>0, KernelAssumption DEF QStore, Return
  <2>2. Delta(s, c, r) = 0
    BY <1>2, <2>1 DEF Delta
  <2> QED
    BY <2>1, <2>2, NothingChanges
<1> QED
  BY <1>6, <1>7

(* A message for a task that waits, or for all of them.                    *)
LEMMA HandOverServes ==
  ASSUME NEW s, NEW f, ListsOK(s, f), NEW c, CallOK(s, c), c.op \in Posts \ {"SemPost"},
         NEW e, e = c.e, Waiting(s, e), NEW type, type = s.ecb[e].OSEventType, NEW n,
         n = IF "opt" \in DOMAIN c /\ "BROADCAST" \in c.opt
             THEN OS_EventTaskRdyAll(s, e, c.msg, type, "OK") ELSE OS_EventTaskRdy(s, e, c.msg, type, "OK"),
         NEW r, r = ThenSched(n, NONE)
  PROVE  Keeps(s, f, r) /\ Gives(s, f, r, c)
<1>1. /\ e \in Event /\ c.op \in EventOps /\ c.op \in Posts /\ c.msg \in Message
      /\ s.ecb[e].OSEventType # "MUTEX"
  BY CallIs DEF EventOps, SemOps, MutexOps, MboxOps, QOps, Posts, TypeFor
<1>2. r.s = n /\ r.then = "sched" /\ r.err = NONE
  BY DEF ThenSched
<1>3. PICK k : k = Receivers(s, c)
  OBVIOUS
<1>4. k \in Nat /\ ServedSome(s, n, f, e, "OK", k)
  <2>1. CASE "opt" \in DOMAIN c /\ "BROADCAST" \in c.opt
    <3>1. k = Waiters(s, e)
      BY <1>3, <2>1 DEF Receivers, Waiters
    <3>2. n = OS_EventTaskRdyAll(s, e, c.msg, s.ecb[e].OSEventType, "OK")
      BY <2>1
    <3> QED
      BY <1>1, <3>1, <3>2, RdyAllServes, FiniteLists
  <2>2. CASE ~("opt" \in DOMAIN c /\ "BROADCAST" \in c.opt)
    <3>1. k = 1
      BY <1>3, <2>2 DEF Receivers
    <3>2. n = OS_EventTaskRdy(s, e, c.msg, s.ecb[e].OSEventType, "OK")
      BY <2>2
    <3> QED
      BY <1>1, <3>1, <3>2, RdyServes
  <2> QED
    BY <2>1, <2>2
<1>5. Delta(s, c, r) = k
  BY <1>1, <1>2, <1>3 DEF Delta
<1> QED
  BY <1>1, <1>2, <1>4, <1>5, ServingServes

(* OSMboxPost gives one message. *)
LEMMA MboxPostServes ==
  ASSUME NEW s, NEW f, ListsOK(s, f), NEW c, CallOK(s, c), c.op = "MboxPost",
         NEW r, r = OSMboxPost(s, c.e, c.msg)
  PROVE  Keeps(s, f, r) /\ Gives(s, f, r, c)
<1>1. c.op \in Posts \ {"SemPost"} /\ s.ecb[c.e].OSEventType = "MBOX" /\ "opt" \notin DOMAIN c
  BY CallIs DEF Posts, EventOps, SemOps, MutexOps, MboxOps, TypeFor
<1>2. CASE Waiting(s, c.e)
  <2>1. r = ThenSched(OS_EventTaskRdy(s, c.e, c.msg, "MBOX", "OK"), NONE)
    BY <1>2 DEF OSMboxPost
  <2> QED
    BY <1>1, <1>2, <2>1, HandOverServes
<1>3. CASE ~Waiting(s, c.e)
  <2>1. r = MboxStore(s, c.e, c.msg)
    BY <1>3 DEF OSMboxPost
  <2> QED
    BY <1>3, <2>1, MboxStoreServes
<1> QED
  BY <1>2, <1>3

(* OSQPost and OSQPostFront give one message. *)
LEMMA QPostServes ==
  ASSUME NEW s, NEW f, ListsOK(s, f), NEW c, CallOK(s, c), c.op \in {"QPost", "QPostFront"},
         NEW r, r = IF c.op = "QPost" THEN OSQPost(s, c.e, c.msg) ELSE OSQPostFront(s, c.e, c.msg)
  PROVE  Keeps(s, f, r) /\ Gives(s, f, r, c)
<1>1. c.op \in Posts \ {"SemPost"} /\ s.ecb[c.e].OSEventType = "Q" /\ "opt" \notin DOMAIN c
  BY CallIs DEF Posts, EventOps, SemOps, MutexOps, MboxOps, QOps, TypeFor
<1>2. CASE Waiting(s, c.e)
  <2>1. r = ThenSched(OS_EventTaskRdy(s, c.e, c.msg, "Q", "OK"), NONE)
    BY <1>2 DEF OSQPost, OSQPostFront, QHandOver
  <2> QED
    BY <1>1, <1>2, <2>1, HandOverServes
<1>3. CASE ~Waiting(s, c.e)
  <2>1. PICK front \in BOOLEAN : r = QStore(s, c.e, c.msg, front)
    BY <1>3 DEF OSQPost, OSQPostFront
  <2> QED
    BY <1>3, <2>1, QStoreServes
<1> QED
  BY <1>2, <1>3

(* A post with options gives one message, or one to each waiter. *)
LEMMA PostOptServes ==
  ASSUME NEW s, NEW f, ListsOK(s, f), NEW c, CallOK(s, c), c.op \in {"MboxPostOpt", "QPostOpt"},
         NEW r, r = IF c.op = "MboxPostOpt" THEN OSMboxPostOpt(s, c.e, c.msg, c.opt)
                                            ELSE OSQPostOpt(s, c.e, c.msg, c.opt)
  PROVE  Keeps(s, f, r) /\ Gives(s, f, r, c)
<1>1. /\ c.op \in Posts \ {"SemPost"} /\ "opt" \in DOMAIN c /\ "NO_SCHED" \notin c.opt
      /\ s.ecb[c.e].OSEventType = IF c.op = "MboxPostOpt" THEN "MBOX" ELSE "Q"
  BY CallIs DEF Posts, EventOps, SemOps, MutexOps, MboxOps, QOps, TypeFor
<1>2. CASE Waiting(s, c.e)
  <2>1. PICK type, n :
          /\ type = s.ecb[c.e].OSEventType
          /\ n = IF "BROADCAST" \in c.opt
                 THEN OS_EventTaskRdyAll(s, c.e, c.msg, type, "OK") ELSE OS_EventTaskRdy(s, c.e, c.msg, type, "OK")
    OBVIOUS
  <2>2. r = ThenSched(n, NONE)
    BY <1>1, <1>2, <2>1 DEF OSMboxPostOpt, OSQPostOpt
  <2>3. n = IF "opt" \in DOMAIN c /\ "BROADCAST" \in c.opt
            THEN OS_EventTaskRdyAll(s, c.e, c.msg, type, "OK") ELSE OS_EventTaskRdy(s, c.e, c.msg, type, "OK")
    BY <1>1, <2>1
  <2> QED
    BY <1>1, <1>2, <2>1, <2>2, <2>3, HandOverServes
<1>3. CASE ~Waiting(s, c.e) /\ c.op = "MboxPostOpt"
  <2>1. r = MboxStore(s, c.e, c.msg)
    BY <1>3 DEF OSMboxPostOpt
  <2> QED
    BY <1>3, <2>1, MboxStoreServes
<1>4. CASE ~Waiting(s, c.e) /\ c.op # "MboxPostOpt"
  <2>1. PICK front : front = ("FRONT" \in c.opt)
    OBVIOUS
  <2>2. r = QStore(s, c.e, c.msg, front)
    BY <1>4, <2>1 DEF OSQPostOpt
  <2> QED
    BY <1>4, <2>1, <2>2, QStoreServes
<1> QED
  BY <1>2, <1>3, <1>4

-----------------------------------------------------------------------------
(* Takes, sets and aborts. *)

(* Taking a permit takes one from the count. *)
LEMMA SemTakeServes ==
  ASSUME NEW s, NEW f, ListsOK(s, f), NEW c, CallOK(s, c), c.op \in {"SemAccept", "SemPend"},
         s.ecb[c.e].OSEventCnt > 0,
         NEW r, r = Return([s EXCEPT !.ecb[c.e].OSEventCnt = @ - 1], NONE)
  PROVE  Keeps(s, f, r) /\ Gives(s, f, r, c)
<1>1. PICK e : e = c.e
  OBVIOUS
<1>2. /\ e \in Event /\ s.ecb[e].OSEventType = "SEM" /\ c.op \in EventOps /\ c.op \in Takes
      /\ c.op \notin Posts /\ s.ecb[e].OSEventCnt \in Nat
  BY <1>1, CallIs, EcbFields DEF EventOps, SemOps, MutexOps, MboxOps, Posts, Takes, TypeFor, EcbOK
<1>3. PICK cnt, n : cnt = s.ecb[e].OSEventCnt - 1 /\ n = SetCnt(s, e, cnt)
  OBVIOUS
<1>4. r.s = n /\ r.then = "return" /\ r.err = NONE
  <2>1. [s EXCEPT !.ecb[e].OSEventCnt = @ - 1] = n
    BY <1>2, <1>3, EcbFields DEF SetCnt
  <2> QED
    BY <1>1, <2>1 DEF Return
<1>5. cnt \in Nat
  BY <1>1, <1>2, <1>3
<1>6. Filled(s, n, f, e) /\ n.ecb[e].OSEventType = "SEM" /\ n.ecb[e].OSEventCnt = cnt
  BY <1>2, <1>3, <1>5, SemFilled DEF Filled
<1>7. Contents(n.ecb[e]) - Contents(s.ecb[e]) = -1
  BY <1>2, <1>3, <1>6 DEF Contents
<1>8. Delta(s, c, r) = -1
  BY <1>2, <1>4 DEF Delta, GotIt
<1> QED
  BY <1>1, <1>2, <1>4, <1>6, <1>7, <1>8, FillingServes

(* OSSemAccept takes one permit or none. *)
LEMMA SemAcceptServes ==
  ASSUME NEW s, NEW f, ListsOK(s, f), NEW c, CallOK(s, c), c.op = "SemAccept",
         NEW r, r = OSSemAccept(s, c.e)
  PROVE  Keeps(s, f, r) /\ Gives(s, f, r, c)
<1>1. CASE s.ecb[c.e].OSEventCnt > 0
  BY <1>1, SemTakeServes DEF OSSemAccept
<1>2. CASE ~(s.ecb[c.e].OSEventCnt > 0)
  <2>1. r.s = s /\ r.then = "return" /\ r.err # NONE
    BY <1>2, KernelAssumption DEF OSSemAccept, Return
  <2>2. Delta(s, c, r) = 0
    BY <2>1 DEF Delta, GotIt, Posts, Takes
  <2> QED
    BY <2>1, <2>2, NothingChanges
<1> QED
  BY <1>1, <1>2

(* OSMboxAccept takes the message, if there is one. *)
LEMMA MboxAcceptServes ==
  ASSUME NEW s, NEW f, ListsOK(s, f), NEW c, CallOK(s, c), c.op \in {"MboxAccept", "MboxPend"},
         NEW r, r = OSMboxAccept(s, c.e)
  PROVE  Keeps(s, f, r) /\ Gives(s, f, r, c)
<1>1. PICK e, n : e = c.e /\ n = SetPtr(s, e, NULL)
  OBVIOUS
<1>2. /\ e \in Event /\ s.ecb[e].OSEventType = "MBOX" /\ c.op \in EventOps /\ c.op \in Takes
      /\ c.op \notin Posts /\ c.op \notin {"SemPend", "SemAccept"}
  BY <1>1, CallIs DEF EventOps, SemOps, MutexOps, MboxOps, Posts, Takes, TypeFor
<1>3. r.s = n /\ r.then = "return" /\ r.err = NONE /\ r.val = s.ecb[e].OSEventPtr
  BY <1>1 DEF OSMboxAccept, Deliver, SetPtr
<1>4. Filled(s, n, f, e) /\ n.ecb[e].OSEventType = "MBOX" /\ n.ecb[e].OSEventPtr = NULL
  BY <1>1, <1>2, MboxFilled DEF Filled
<1>5. Contents(n.ecb[e]) - Contents(s.ecb[e]) = IF s.ecb[e].OSEventPtr = NULL THEN 0 ELSE -1
  BY <1>2, <1>4 DEF Contents
<1>6. Delta(s, c, r) = IF s.ecb[e].OSEventPtr = NULL THEN 0 ELSE -1
  BY <1>2, <1>3 DEF Delta, GotIt
<1> QED
  BY <1>1, <1>2, <1>3, <1>4, <1>5, <1>6, FillingServes

(* Storing twice at one place leaves the second. *)
LEMMA PtrTwice ==
  ASSUME NEW s, NEW f, ListsOK(s, f), NEW e \in Event, NEW x, NEW y, NEW a, a = SetPtr(s, e, x)
  PROVE  /\ a.ecb[e].OSEventPtr = x /\ DOMAIN a = DOMAIN s /\ DOMAIN a.ecb = Event
         /\ DOMAIN a.ecb[e] = DOMAIN s.ecb[e]
         /\ SetPtr(a, e, y) = SetPtr(s, e, y)
<1>1. PICK b, g, d : b = s.ecb /\ g = s.ecb[e] /\ d = [g EXCEPT !.OSEventPtr = x]
  OBVIOUS
<1>2. PICK c : c = [b EXCEPT ![e] = d]
  OBVIOUS
<1>3. a = [s EXCEPT !.ecb = c]
  BY <1>1, <1>2 DEF SetPtr
<1>4. /\ a.ecb = c /\ DOMAIN a = DOMAIN s /\ c[e] = d /\ DOMAIN c = Event /\ DOMAIN d = DOMAIN g
      /\ d.OSEventPtr = x
  BY <1>1, <1>2, <1>3, EcbFields
<1>5. PICK d1, d2 : d1 = [g EXCEPT !.OSEventPtr = y] /\ d2 = [d EXCEPT !.OSEventPtr = y]
  OBVIOUS
<1>6. d1 = d2
  BY <1>1, <1>5
<1>7. [b EXCEPT ![e] = d1] = [c EXCEPT ![e] = d2]
  BY <1>1, <1>2, <1>4, <1>6, EcbFields
<1>8. PICK b1 : b1 = [b EXCEPT ![e] = d1]
  OBVIOUS
<1>9. SetPtr(s, e, y) = [s EXCEPT !.ecb = b1] /\ SetPtr(a, e, y) = [a EXCEPT !.ecb = b1]
  BY <1>1, <1>4, <1>5, <1>7, <1>8 DEF SetPtr
<1>10. [s EXCEPT !.ecb = b1] = [a EXCEPT !.ecb = b1]
  BY <1>3, EcbFields
<1> QED
  BY <1>1, <1>4, <1>9, <1>10

(* Taking a message off a queue takes one. *)
LEMMA QTakeServes ==
  ASSUME NEW s, NEW f, ListsOK(s, f), NEW c, CallOK(s, c), c.op \in {"QAccept", "QPend"},
         Entries(s, c.e) > 0, NEW r, r = Deliver(DropFirst(s, c.e), FirstMsg(s, c.e))
  PROVE  Keeps(s, f, r) /\ Gives(s, f, r, c)
<1>1. PICK e, q, m : e = c.e /\ q = s.ecb[e].OSEventPtr /\ m = Dropping(q)
  OBVIOUS
<1>2. /\ e \in Event /\ s.ecb[e].OSEventType = "Q" /\ c.op \in EventOps /\ c.op \in Takes
      /\ c.op \notin Posts /\ Ring(q)
  BY <1>1, CallIs, EcbFields DEF EventOps, SemOps, MutexOps, MboxOps, QOps, Posts, Takes, TypeFor, EcbOK
<1>3. /\ Ring(m) /\ m.OSQEntries = q.OSQEntries - 1 /\ q.ring[q.OSQOut] \in Message
      /\ q.OSQEntries \in Nat /\ RingMoves(q, m)
  <2>1. q.OSQEntries > 0
    BY <1>1 DEF Entries
  <2>2. q.OSQEntries \in Nat
    BY <1>2, ApplicationAssumption DEF Ring
  <2> QED
    BY <1>1, <1>2, <2>1, <2>2, Dropped DEF RingMoves
<1>4. PICK n : n = SetPtr(s, e, m)
  OBVIOUS
<1>5. DropFirst(s, e) = n
  <2>1. PICK x, a, y : /\ x = [q EXCEPT !.OSQOut = Step(@)] /\ a = SetPtr(s, e, x)
                       /\ y = [x EXCEPT !.OSQEntries = @ - 1]
    OBVIOUS
  <2>2. a = [s EXCEPT !.ecb[e].OSEventPtr.OSQOut = Step(@)]
    BY <1>1, <1>2, <2>1, EcbFields DEF SetPtr
  <2>3. a.ecb[e].OSEventPtr = x /\ SetPtr(a, e, y) = SetPtr(s, e, y)
    BY <1>2, <2>1, PtrTwice
  <2>4. DropFirst(s, e) = [a EXCEPT !.ecb[e].OSEventPtr.OSQEntries = @ - 1]
    BY <2>2, ZenonT(30) DEF DropFirst
  <2>5. [a EXCEPT !.ecb[e].OSEventPtr.OSQEntries = @ - 1] = SetPtr(a, e, y)
    BY <1>2, <2>1, <2>3, PtrTwice, EcbFields DEF SetPtr
  <2>6. m = y
    BY <1>1, <2>1 DEF Dropping
  <2> QED
    BY <1>4, <2>3, <2>4, <2>5, <2>6
<1>6. r.s = n /\ r.then = "return" /\ r.err = NONE /\ r.val = q.ring[q.OSQOut]
  BY <1>1, <1>5 DEF Deliver, FirstMsg
<1>7. r.val # NULL
  BY <1>3, <1>6, ApplicationAssumption, SMTT(30)
<1>8. Filled(s, n, f, e) /\ n.ecb[e].OSEventType = "Q" /\ n.ecb[e].OSEventPtr = m
  BY <1>1, <1>2, <1>3, <1>4, QFilled DEF Filled
<1>9. Contents(n.ecb[e]) - Contents(s.ecb[e]) = -1
  BY <1>1, <1>2, <1>3, <1>8 DEF Contents
<1>10. Delta(s, c, r) = -1
  BY <1>2, <1>6, <1>7 DEF Delta, GotIt
<1> QED
  BY <1>1, <1>2, <1>6, <1>8, <1>9, <1>10, FillingServes

(* OSQAccept takes one message or none. *)
LEMMA QAcceptServes ==
  ASSUME NEW s, NEW f, ListsOK(s, f), NEW c, CallOK(s, c), c.op = "QAccept",
         NEW r, r = OSQAccept(s, c.e)
  PROVE  Keeps(s, f, r) /\ Gives(s, f, r, c)
<1>1. CASE Entries(s, c.e) > 0
  BY <1>1, QTakeServes DEF OSQAccept
<1>2. CASE ~(Entries(s, c.e) > 0)
  <2>1. r.s = s /\ r.then = "return" /\ r.err # NONE
    BY <1>2, KernelAssumption DEF OSQAccept, Return
  <2>2. Delta(s, c, r) = 0
    BY <2>1 DEF Delta, GotIt, Posts, Takes
  <2> QED
    BY <2>1, <2>2, NothingChanges
<1> QED
  BY <1>1, <1>2

(* OSSemSet sets the count, and the history with it. *)
LEMMA SemSetServes ==
  ASSUME NEW s, NEW f, ListsOK(s, f), NEW c, CallOK(s, c), c.op = "SemSet",
         NEW r, r = OSSemSet(s, c.e, c.cnt)
  PROVE  Keeps(s, f, r) /\ Gives(s, f, r, c)
<1>1. PICK e, n : e = c.e /\ n = SetCnt(s, e, c.cnt)
  OBVIOUS
<1>2. /\ e \in Event /\ s.ecb[e].OSEventType = "SEM" /\ c.op \in EventOps /\ c.op \notin Posts
      /\ c.op \notin Takes /\ c.op \in Flushes /\ c.cnt \in Nat
  BY <1>1, CallIs DEF EventOps, SemOps, MutexOps, MboxOps, Posts, Takes, Flushes, TypeFor
<1>3. CASE s.ecb[e].OSEventCnt > 0 \/ ~Waiting(s, e)
  <2>1. r.s = n /\ r.then = "return"
    BY <1>1, <1>3 DEF OSSemSet, Return, SetCnt
  <2>2. Filled(s, n, f, e)
    BY <1>1, <1>2, SemFilled DEF Filled
  <2>3. Delta(s, c, r) = Contents(n.ecb[e]) - Contents(s.ecb[e])
    BY <1>1, <1>2, <2>1 DEF Delta
  <2> QED
    BY <1>1, <1>2, <2>1, <2>2, <2>3, FillingServes
<1>4. CASE ~(s.ecb[e].OSEventCnt > 0 \/ ~Waiting(s, e))
  <2>1. r.s = s /\ r.then = "return"
    BY <1>1, <1>4 DEF OSSemSet, Return
  <2>2. PICK k \in Nat : k = Contents(s.ecb[e])
    BY <1>2, CountIs
  <2>3. Delta(s, c, r) = k - k
    BY <1>1, <1>2, <2>1, <2>2 DEF Delta
  <2>4. Delta(s, c, r) = 0
    BY <2>2, <2>3
  <2> QED
    BY <2>1, <2>4, NothingChanges
<1> QED
  BY <1>3, <1>4

(* OSQFlush empties the queue, and the history with it. *)
LEMMA QFlushServes ==
  ASSUME NEW s, NEW f, ListsOK(s, f), NEW c, CallOK(s, c), c.op = "QFlush",
         NEW r, r = OSQFlush(s, c.e)
  PROVE  Keeps(s, f, r) /\ Gives(s, f, r, c)
<1>1. PICK e, q, m, n : e = c.e /\ q = s.ecb[e].OSEventPtr /\ m = Emptying(q) /\ n = SetPtr(s, e, m)
  OBVIOUS
<1>2. /\ e \in Event /\ s.ecb[e].OSEventType = "Q" /\ c.op \in EventOps /\ c.op \notin Posts
      /\ c.op \notin Takes /\ c.op \in Flushes /\ Ring(q)
  BY <1>1, CallIs, EcbFields, SMTT(30) DEF EventOps, SemOps, MutexOps, MboxOps, QOps, Posts, Takes, Flushes, TypeFor, EcbOK
<1>3. r.s = n /\ r.then = "return"
  <2>1. PICK x, y, a, b :
          /\ x = [q EXCEPT !.OSQIn = 0] /\ a = SetPtr(s, e, x)
          /\ y = [x EXCEPT !.OSQOut = 0] /\ b = SetPtr(s, e, y)
    OBVIOUS
  <2>2. a = [s EXCEPT !.ecb[e].OSEventPtr.OSQIn = 0]
    BY <1>1, <1>2, <2>1, EcbFields DEF SetPtr
  <2>3. [a EXCEPT !.ecb[e].OSEventPtr.OSQOut = 0] = b
    <3>1. a.ecb[e].OSEventPtr = x /\ SetPtr(a, e, y) = b
      BY <1>2, <2>1, PtrTwice
    <3> QED
      BY <1>2, <2>1, <3>1, PtrTwice, EcbFields DEF SetPtr
  <2>4. [b EXCEPT !.ecb[e].OSEventPtr.OSQEntries = 0] = n
    <3>1. m = [y EXCEPT !.OSQEntries = 0]
      BY <1>1, <2>1 DEF Emptying
    <3>2. b.ecb[e].OSEventPtr = y /\ SetPtr(b, e, m) = n
      <4>1. b = SetPtr(s, e, y)
        BY <2>1
      <4>2. b.ecb[e].OSEventPtr = y /\ SetPtr(b, e, m) = SetPtr(s, e, m)
        BY <1>2, <4>1, PtrTwice
      <4> QED
        BY <1>1, <4>2
    <3> QED
      BY <1>2, <2>1, <3>1, <3>2, PtrTwice, EcbFields DEF SetPtr
  <2>5. r.s = [[[s EXCEPT !.ecb[e].OSEventPtr.OSQIn = 0] EXCEPT !.ecb[e].OSEventPtr.OSQOut = 0]
                  EXCEPT !.ecb[e].OSEventPtr.OSQEntries = 0] /\ r.then = "return"
    BY <1>1 DEF OSQFlush, Return
  <2> QED
    BY <2>2, <2>3, <2>4, <2>5
<1>4. Ring(m) /\ RingMoves(q, m)
  BY <1>1, <1>2, EmptyRing DEF RingMoves
<1>5. Filled(s, n, f, e)
  BY <1>1, <1>2, <1>4, QFilled DEF Filled
<1>6. Delta(s, c, r) = Contents(n.ecb[e]) - Contents(s.ecb[e])
  BY <1>1, <1>2, <1>3 DEF Delta
<1> QED
  BY <1>1, <1>2, <1>3, <1>5, <1>6, FillingServes

(* OSSemPendAbort, OSMboxPendAbort and OSQPendAbort end waits and give     *)
(* nothing.                                                                *)
LEMMA PendAbortServes ==
  ASSUME NEW s, NEW f, ListsOK(s, f), NEW c, CallOK(s, c),
         c.op \in {"SemPendAbort", "MboxPendAbort", "QPendAbort"},
         NEW r, r = PendAbort(s, c.e, TypeFor(c.op), c.broadcast)
  PROVE  Keeps(s, f, r) /\ Gives(s, f, r, c)
<1>1. PICK e, type : e = c.e /\ type = TypeFor(c.op)
  OBVIOUS
<1>2. /\ e \in Event /\ s.ecb[e].OSEventType = type /\ c.op \in EventOps /\ c.op \notin Posts
      /\ c.op \notin Takes /\ c.op \notin Flushes /\ type # "MUTEX"
  BY <1>1, CallIs DEF EventOps, SemOps, MutexOps, MboxOps, QOps, Posts, Takes, Flushes, TypeFor
<1>3. Delta(s, c, r) = 0
  BY <1>2 DEF Delta
<1>4. CASE ~Waiting(s, e)
  <2>1. r.s = s /\ r.then = "return"
    BY <1>1, <1>4 DEF PendAbort, Return
  <2> QED
    BY <1>3, <2>1, NothingChanges
<1>5. CASE Waiting(s, e) /\ c.broadcast
  <2>1. PICK n : n = OS_EventTaskRdyAll(s, e, NULL, type, "ABORT")
    OBVIOUS
  <2>2. r.s = n /\ r.then = "sched"
    BY <1>1, <1>5, <2>1 DEF PendAbort, ThenSched
  <2>3. n = OS_EventTaskRdyAll(s, e, NULL, s.ecb[e].OSEventType, "ABORT")
    BY <1>2, <2>1
  <2>4. PICK k \in Nat : k = Waiters(s, e)
    BY <1>2, FiniteLists
  <2>5. ServedSome(s, n, f, e, "ABORT", k)
    BY <1>2, <2>3, <2>4, RdyAllServes
  <2> QED
    BY <1>1, <1>2, <1>3, <2>2, <2>5, ServingServes
<1>6. CASE Waiting(s, e) /\ ~c.broadcast
  <2>1. PICK n : n = OS_EventTaskRdy(s, e, NULL, type, "ABORT")
    OBVIOUS
  <2>2. r.s = n /\ r.then = "sched"
    BY <1>1, <1>6, <2>1 DEF PendAbort, ThenSched
  <2>3. n = OS_EventTaskRdy(s, e, NULL, s.ecb[e].OSEventType, "ABORT")
    BY <1>2, <2>1
  <2>5. ServedSome(s, n, f, e, "ABORT", 1)
    BY <1>2, <1>6, <2>3, RdyServes
  <2> QED
    BY <1>1, <1>2, <1>3, <2>2, <2>5, ServingServes
<1> QED
  BY <1>4, <1>5, <1>6

(* Waiting.                                                                *)
LEMMA PendBlocks ==
  ASSUME NEW s, NEW f, NEW t, NEW c, Entered(s, f, t, c), c.op \in PendOps,
         NEW r, r = Pend(s, c.e, TypeFor(c.op), c.timeout),
         NEW g, g = PutFrame(f, t, FrameAfter(c, r))
  PROVE  /\ r.then = "block" /\ ListsOK(r.s, g) /\ SchedOK(r.s, g)
         /\ \A x \in Event : Count(r.s, g, x) = Count(s, f, x)
         /\ EventsMove(r.s, s)
<1>1. PICK n : n = r.s
  OBVIOUS
<1>2. r.then = "block" /\ n = Pend(s, c.e, TypeFor(c.op), c.timeout).s
  BY <1>1 DEF Pend, Block
<1>3. g = PutFrame(f, t, [at |-> "block", call |-> c])
  BY <1>2 DEF FrameAfter
<1>4. ~Asleep(f, t) /\ s.OSLockNesting = 0 /\ c \in PlainCall /\ CallOK(s, c)
  BY DEF Entered, Asleep, CallOK, UnlockedOps
<1>5. /\ ListsOK(n, g) /\ SameSched(n, s) /\ SameContents(n, s) /\ PrioOf(n, t) = PrioOf(s, t)
      /\ \A x \in Event : GrantedIn(n, g, x) = GrantedIn(s, f, x)
  BY <1>2, <1>3, <1>4, PendLists DEF Entered
<1>6. /\ t \in Tcb /\ s.OSTCBCur = t /\ PrioOf(s, t) = s.OSPrioCur /\ s.OSRunning /\ ~s.msip /\ s.OSIntNesting = 0
  BY RunningIs DEF Entered, Running
<1>7. g[t].at = "block"
  BY <1>3, <1>6 DEF Entered, ListsOK, FrameOK, PutFrame
<1>9. SchedOK(n, g)
  BY <1>4, <1>5, <1>6, <1>7 DEF SchedOK, SameSched
<1> QED
  BY <1>1, <1>2, <1>5, <1>9, ContentsSame, QueuesStay DEF Count, SameContentsIs

(* A service that does not wait leaves the lists, the scheduler and the    *)
(* books right.                                                            *)
LEMMA ServiceEnds ==
  ASSUME NEW s, NEW f, NEW t, NEW c, Entered(s, f, t, c), NEW r, KeepsLists(s, f, r), Gives(s, f, r, c),
         CreditOK(s, f, credit), CreditAfter(s, c, r) \in [Event -> Int],
         NEW g, g = PutFrame(f, t, FrameAfter(c, r))
  PROVE  /\ ListsOK(r.s, g) /\ SchedOK(r.s, g)
         /\ CreditOK(r.s, g, IF r.then = "block" THEN credit ELSE CreditAfter(s, c, r))
<1>1. /\ ListsOK(r.s, g) /\ SchedOK(r.s, g)
      /\ \A x \in Event : Count(r.s, g, x) = Count(r.s, f, x)
  BY ServiceKeeps
<1>2. \A x \in Event : CreditAfter(s, c, r)[x] = Count(r.s, f, x)
  BY CreditIs DEF Entered, KeepsLists
<1>3. r.then # "block"
  BY DEF KeepsLists
<1> QED
  BY <1>1, <1>2, <1>3 DEF CreditOK

-----------------------------------------------------------------------------
(* A task that has waited goes on, with what it was given or without.      *)

(* A task that has waited goes on, with what it was given or without, and  *)
(* the books balance.                                                      *)
LEMMA PendReturns ==
  ASSUME NEW s, NEW f, ListsOK(s, f), SchedOK(s, f), CreditOK(s, f, credit),
         NEW t, Running(s, t), f[t].at = "resume", f[t].call.op # "MutexPend",
         NEW c, c = f[t].call, NEW r, r = PendReturn(s, c.e), NEW g, g = PutFrame(f, t, App),
         CreditAfter(s, c, r) \in [Event -> Int]
  PROVE  /\ ListsOK(r.s, g) /\ SchedOK(r.s, g) /\ CreditOK(r.s, g, CreditAfter(s, c, r))
         /\ EventsMove(r.s, s)
<1>1. PICK n, e, stat : n = r.s /\ e = c.e /\ stat = s.tcb[t].OSTCBStatPend
  OBVIOUS
<1>2. /\ t \in Tcb /\ s.OSTCBCur = t /\ PrioOf(s, t) = s.OSPrioCur /\ s.OSRunning /\ ~s.msip
      /\ s.OSIntNesting = 0 /\ TaskOK(s, f, t) /\ Asleep(f, t)
  BY RunningIs DEF Running, Asleep
<1>3. /\ e \in Event /\ c.op \in PendOps /\ s.ecb[e].OSEventType = TypeFor(c.op)
  BY <1>1, <1>2, WaiterIs
<1>4. e = f[t].call.e /\ n = PendReturn(s, e).s
  BY <1>1
<1>5. /\ ListsOK(n, g) /\ SameSched(n, s) /\ n.OSRdy = s.OSRdy /\ SameContents(n, s)
      /\ PrioOf(n, t) = PrioOf(s, t) /\ s.OSLockNesting = 0
      /\ \A x \in Event : GrantedIn(n, g, x) =
            IF x = e /\ stat = "OK" THEN GrantedIn(s, f, x) \ {t} ELSE GrantedIn(s, f, x)
      /\ stat = "OK" => t \in GrantedIn(s, f, e)
  <2>1. /\ ListsOK(n, g) /\ SameSched(n, s) /\ n.OSRdy = s.OSRdy /\ SameContents(n, s)
        /\ PrioOf(n, t) = PrioOf(s, t) /\ s.OSLockNesting = 0
        /\ GivenUp(n, g, s, f, t, e)
        /\ s.tcb[t].OSTCBStatPend = "OK" => t \in GrantedIn(s, f, e)
    BY <1>4, ReturnLists
  <2> QED
    BY <1>1, <2>1 DEF GivenUp
<1>6. g[t] = App
  BY <1>2 DEF ListsOK, FrameOK, PutFrame
<1>7. s.OSPrioCur = Highest(s.OSRdy)
  BY <1>5, CurReady
<1>8. SchedOK(n, g)
  BY <1>2, <1>5, <1>6, <1>7 DEF SchedOK, SameSched, App
<1>9. \A x \in Event : Count(n, g, x) = Count(s, f, x) + (IF x = e /\ stat = "OK" THEN -1 ELSE 0)
  <2>1. ASSUME NEW x \in Event
        PROVE  GrantedTo(n, g, x) = GrantedTo(s, f, x) + (IF x = e /\ stat = "OK" THEN -1 ELSE 0)
    <3>1. CASE x = e /\ stat = "OK"
      <4>1. GrantedIn(n, g, x) = GrantedIn(s, f, x) \ {t} /\ t \in GrantedIn(s, f, x)
        BY <1>5, <3>1
      <4>2. IsFiniteSet(GrantedIn(s, f, x))
        BY FiniteLists
      <4>3. Cardinality(GrantedIn(n, g, x)) = Cardinality(GrantedIn(s, f, x)) - 1
        BY <4>1, <4>2, FS_RemoveElement
      <4> QED
        BY <3>1, <4>3 DEF GrantedTo
    <3>2. CASE ~(x = e /\ stat = "OK")
      BY <1>5, <3>2, CountIs DEF GrantedTo
    <3> QED
      BY <3>1, <3>2
  <2> QED
    BY <1>5, <2>1, CountIs, ContentsSame DEF SameContentsIs
<1>10. GotIt(c, r) <=> stat = "OK"
  <2>1. stat \in {"OK", "ABORT", "TO"}
    BY <1>1, <1>2, TcbFields, SMTT(30) DEF TcbType
  <2>2. stat # "OK" => r.err # NONE
    BY <1>1, <1>2, <2>1, KernelAssumption DEF PendReturn
  <2>3. stat = "OK" => r.err = NONE /\ r.val = s.tcb[t].OSTCBMsg
    BY <1>1, <1>2 DEF PendReturn
  <2>4. s.tcb[t].OSTCBEventPtr = NULL /\ stat = "OK" /\ c.op # "SemPend" => s.tcb[t].OSTCBMsg \in Message
    BY <1>1, <1>2, <1>3 DEF TaskOK, PendOps
  <2>5. stat = "OK" => WaitsFor(s, t) = NULL
    BY <1>5 DEF GrantedIn
  <2>6. stat = "OK" /\ c.op # "SemPend" => r.val # NULL
    BY <2>3, <2>4, <2>5, ApplicationAssumption, SMTT(30) DEF WaitsFor
  <2> QED
    BY <2>2, <2>3, <2>6 DEF GotIt
<1>11. CreditAfter(s, c, r) = IF stat = "OK" THEN [credit EXCEPT ![e] = @ - 1] ELSE credit
  BY <1>1, <1>3, <1>10 DEF CreditAfter, Posts, Takes, PendOps
<1>12. CreditOK(n, g, CreditAfter(s, c, r))
  <2>1. credit \in [Event -> Int] /\ \A x \in Event : credit[x] = Count(s, f, x)
    BY DEF CreditOK
  <2>2. \A x \in Event : CreditAfter(s, c, r)[x] = credit[x] + (IF x = e /\ stat = "OK" THEN -1 ELSE 0)
    BY <1>11, <2>1
  <2> QED
    BY <1>9, <2>1, <2>2 DEF CreditOK
<1> QED
  BY <1>1, <1>5, <1>8, <1>12, QueuesStay

(* A service that only delays, suspends or wakes a task leaves what events *)
(* hold, and what they gave, alone.                                        *)
Adjusts(s, n, f) ==
    /\ ListsOK(n, f) /\ SameSched(n, s) /\ SameContents(n, s) /\ SameTables(n, s)
    /\ \A x \in Event : GrantedIn(n, f, x) = GrantedIn(s, f, x)

(* A call that is for no event gives nothing. *)
LEMMA NoDelta ==
  ASSUME NEW s, NEW c, c.op \notin EventOps, NEW r
  PROVE  Delta(s, c, r) = 0
BY DEF Delta, EventOps, SemOps, MutexOps, MboxOps, QOps, Posts, Takes, Flushes

(* A service that only delays, suspends or wakes a task, as a service. *)
LEMMA AdjustServes ==
  ASSUME NEW s, NEW f, ListsOK(s, f), NEW n, Adjusts(s, n, f), NEW r, r.s = n,
         r.then = "sched" \/ (r.then = "return" /\ (s.OSLockNesting = 0 => Highest(n.OSRdy) = Highest(s.OSRdy))),
         NEW c, c.op \notin EventOps
  PROVE  Keeps(s, f, r) /\ Gives(s, f, r, c)
<1>1. Delta(s, c, r) = 0
  BY NoDelta
<1>2. SameNames(n, s)
  BY DEF Adjusts, SameTables, SameNames, PrioOf
<1>3. \A x \in Event : Count(n, f, x) = Count(s, f, x) /\ Count(s, f, x) \in Nat
  BY CountIs, ContentsSame DEF Adjusts, Count, SameContentsIs
<1>4. EventsMove(n, s)
  BY QueuesStay DEF Adjusts
<1> QED
  BY <1>1, <1>2, <1>3, <1>4 DEF Keeps, KeepsLists, Gives, Adjusts

(* The task that a priority names. *)
LEMMA NamedTask ==
  ASSUME NEW s, NEW f, ListsOK(s, f), NEW prio \in Prio, ~NoTaskAt(s, prio)
  PROVE  /\ At(s, prio) \in Tcb /\ PrioOf(s, At(s, prio)) = prio /\ prio # NULL
         /\ prio # OS_TASK_IDLE_PRIO => At(s, prio) \in Task
         /\ prio = OS_TASK_IDLE_PRIO => At(s, prio) = Idle
<1>1. At(s, prio) \in Tcb /\ s.OSTCBPrioTbl[prio] # NULL /\ At(s, prio) = s.OSTCBPrioTbl[prio]
  BY KernelAssumption DEF NoTaskAt, At
<1>2. PrioOf(s, At(s, prio)) = prio /\ PrioOf(s, Idle) = OS_TASK_IDLE_PRIO
  BY <1>1 DEF ListsOK, TablesOK
<1>3. prio # NULL /\ Idle \in Tcb
  BY KernelAssumption DEF Tcb
<1>4. prio = OS_TASK_IDLE_PRIO => At(s, prio) = Idle
  BY <1>1, <1>2, <1>3 DEF ListsOK, TablesOK
<1> QED
  BY <1>1, <1>2, <1>3, <1>4 DEF Tcb

-----------------------------------------------------------------------------
(* Delays.                                                                 *)

(* OSTimeDly, whatever the number of ticks. *)
LEMMA TimeDlyServes ==
  ASSUME NEW s, NEW f, NEW t, NEW c, Entered(s, f, t, c), c.op \notin EventOps, NEW ticks \in Nat,
         NEW r, r = OSTimeDly(s, ticks)
  PROVE  Keeps(s, f, r) /\ Gives(s, f, r, c)
<1>1. ListsOK(s, f) /\ SchedOK(s, f) /\ Running(s, t) /\ ~Asleep(f, t) /\ s.OSTCBCur = t
  BY DEF Entered, Asleep, Running
<1>2. CASE s.OSIntNesting > 0 \/ s.OSLockNesting > 0 \/ ticks = 0
  <2>1. r.s = s /\ r.then = "return"
    BY <1>2 DEF OSTimeDly, Return
  <2> QED
    BY <1>1, <2>1, NoDelta, NothingChanges
<1>3. CASE ~(s.OSIntNesting > 0 \/ s.OSLockNesting > 0 \/ ticks = 0)
  <2>1. PICK n : n = Delayed(s, t, ticks)
    OBVIOUS
  <2>2. r.s = n /\ r.then = "sched"
    BY <1>1, <1>3, <2>1 DEF OSTimeDly, ThenSched, Delayed
  <2>3. ticks \in Nat \ {0}
    BY <1>3
  <2>4. Adjusts(s, n, f)
    BY <1>1, <2>1, <2>3, DelayLists DEF Adjusts
  <2> QED
    BY <1>1, <2>2, <2>4, AdjustServes
<1> QED
  BY <1>2, <1>3

(* A delay in hours, minutes, seconds and milliseconds is a number of      *)
(* ticks.                                                                  *)
LEMMA DlyTicksNat ==
  ASSUME NEW hours \in Nat, NEW minutes \in Nat, NEW seconds \in Nat, NEW ms \in Nat
  PROVE  DlyTicks(hours, minutes, seconds, ms) \in Nat
<1>1. PICK k \in Nat \ {0} : k = OS_TICKS_PER_SEC
  BY ApplicationAssumption
<1>2. PICK secs \in Nat : secs = hours * 3600 + minutes * 60 + seconds
  OBVIOUS
<1>3. PICK half \in Nat : half = 500 \div k
  OBVIOUS
<1>4. secs * k \in Nat
  OBVIOUS
<1>5. PICK sum \in Nat : sum = ms + half
  OBVIOUS
<1>6. PICK prod \in Nat : prod = k * sum
  OBVIOUS
<1>7. prod \div 1000 \in Nat
  OBVIOUS
<1>8. DlyTicks(hours, minutes, seconds, ms) = secs * k + prod \div 1000
  BY <1>1, <1>2, <1>3, <1>5, <1>6 DEF DlyTicks
<1> QED
  BY <1>4, <1>7, <1>8

(* OSTimeDlyHMSM, whatever its arguments. *)
LEMMA TimeDlyHMSMServes ==
  ASSUME NEW s, NEW f, NEW t, NEW c, Entered(s, f, t, c), c.op \notin EventOps,
         NEW hours \in Nat, NEW minutes \in Nat, NEW seconds \in Nat, NEW ms \in Nat,
         NEW r, r = OSTimeDlyHMSM(s, hours, minutes, seconds, ms)
  PROVE  Keeps(s, f, r) /\ Gives(s, f, r, c)
<1>1. PICK ticks \in Nat : ticks = DlyTicks(hours, minutes, seconds, ms)
  BY DlyTicksNat
<1>2. ListsOK(s, f)
  BY DEF Entered
<1>3. (r.s = s /\ r.then = "return") \/ r = OSTimeDly(s, ticks)
  BY <1>1 DEF OSTimeDlyHMSM, Return
<1>4. CASE r.s = s /\ r.then = "return"
  BY <1>2, <1>4, NoDelta, NothingChanges
<1>5. CASE r = OSTimeDly(s, ticks)
  BY <1>5, TimeDlyServes
<1> QED
  BY <1>3, <1>4, <1>5

-----------------------------------------------------------------------------
(* Suspending and waking other tasks.                                      *)

(* OSTaskSuspend, whichever task it names. *)
LEMMA TaskSuspendServes ==
  ASSUME NEW s, NEW f, NEW t, NEW c, Entered(s, f, t, c), c.op \notin EventOps, NEW prio \in Prio,
         NEW r, r = OSTaskSuspend(s, prio)
  PROVE  Keeps(s, f, r) /\ Gives(s, f, r, c)
<1>1. /\ ListsOK(s, f) /\ SchedOK(s, f) /\ Running(s, t) /\ f[t].at \notin {"sched", "block"}
      /\ s.OSTCBCur = t
  BY DEF Entered, Running
<1>2. CASE prio = OS_TASK_IDLE_PRIO \/ NoTaskAt(s, prio)
  <2>1. r.s = s /\ r.then = "return"
    BY <1>2 DEF OSTaskSuspend, NoTaskError, Return
  <2> QED
    BY <1>1, <2>1, NoDelta, NothingChanges
<1>3. CASE prio # OS_TASK_IDLE_PRIO /\ ~NoTaskAt(s, prio)
  <2>1. PICK u, n : u = At(s, prio) /\ n = StopIt(s, u)
    OBVIOUS
  <2>2. u \in Task /\ PrioOf(s, u) = prio /\ PrioOf(s, u) # NULL
    BY <1>1, <1>3, <2>1, NamedTask
  <2>3. r = IF prio = PrioOf(s, t) THEN ThenSched(n, NONE) ELSE Return(n, NONE)
    BY <1>1, <1>3, <2>1 DEF OSTaskSuspend, StopIt
  <2>4. r.s = n /\ (r.then = "sched" \/ (r.then = "return" /\ prio # PrioOf(s, t)))
    BY <2>3 DEF ThenSched, Return
  <2>5. Adjusts(s, n, f) /\ n.OSRdy.tbl = s.OSRdy.tbl \ {prio}
    BY <1>1, <2>1, <2>2, StopLists DEF Adjusts
  <2>6. ASSUME prio # PrioOf(s, t), s.OSLockNesting = 0
        PROVE  Highest(n.OSRdy) = Highest(s.OSRdy)
    <3>1. PrioOf(s, t) = s.OSPrioCur /\ s.OSPrioCur = Highest(s.OSRdy)
      BY <1>1, <2>6, CurReady, RunningIs
    <3>2. /\ Highest(s.OSRdy) \in s.OSRdy.tbl /\ Highest(s.OSRdy) \in Prio
          /\ \A p \in s.OSRdy.tbl : Highest(s.OSRdy) <= p
      BY <1>1, HighestReady
    <3>3. /\ Highest(n.OSRdy) \in n.OSRdy.tbl /\ Highest(n.OSRdy) \in Prio
          /\ \A p \in n.OSRdy.tbl : Highest(n.OSRdy) <= p
      BY <2>5, HighestReady DEF Adjusts
    <3>4. Highest(s.OSRdy) \in n.OSRdy.tbl
      BY <2>5, <2>6, <3>1, <3>2
    <3> QED
      BY <2>5, <3>2, <3>3, <3>4 DEF Prio
  <2> QED
    BY <1>1, <2>4, <2>5, <2>6, AdjustServes
<1> QED
  BY <1>2, <1>3

(* OSTaskResume, whichever task it names. *)
LEMMA TaskResumeServes ==
  ASSUME NEW s, NEW f, NEW t, NEW c, Entered(s, f, t, c), c.op \notin EventOps, NEW prio \in Prio,
         NEW r, r = OSTaskResume(s, prio)
  PROVE  Keeps(s, f, r) /\ Gives(s, f, r, c)
<1>1. ListsOK(s, f) /\ s.OSRunning
  BY DEF Entered, Running
<1>2. PICK u : u = At(s, prio)
  OBVIOUS
<1>3. CASE NoTaskAt(s, prio) \/ ~Stopped(s, u)
  <2>1. r.s = s /\ r.then = "return"
    BY <1>2, <1>3 DEF OSTaskResume, NoTaskError, Return, Stopped
  <2> QED
    BY <1>1, <2>1, NoDelta, NothingChanges
<1>4. CASE ~NoTaskAt(s, prio) /\ Stopped(s, u)
  <2>1. /\ u \in Tcb /\ PrioOf(s, u) = prio /\ prio # NULL
        /\ prio # OS_TASK_IDLE_PRIO => u \in Task
        /\ prio = OS_TASK_IDLE_PRIO => u = Idle
    BY <1>1, <1>2, <1>4, NamedTask
  <2>2. ~Stopped(s, Idle)
    BY <1>1 DEF ListsOK, Stopped, FreeTcb
  <2>3. u \in Task
    BY <1>4, <2>1, <2>2
  <2>4. PICK n, free : /\ n = Gone(s, u)
                       /\ free = (/\ GoIt(s, u).tcb[u].OSTCBStat \cap OS_STAT_PEND_ANY = {}
                                  /\ GoIt(s, u).tcb[u].OSTCBDly = 0)
    OBVIOUS
  <2>5. Adjusts(s, n, f) /\ (~free => n.OSRdy = s.OSRdy)
    BY <1>1, <1>4, <2>1, <2>3, <2>4, GoLists DEF Adjusts
  <2>6. r = IF free THEN ThenSched(n, NONE) ELSE Return(n, NONE)
    <3>1. PICK m : m = GoIt(s, u)
      OBVIOUS
    <3>2. r = IF free THEN MaybeSched(Ready(m, u)) ELSE Return(m, NONE)
      BY <1>2, <1>4, <2>4, <3>1 DEF OSTaskResume, GoIt, Stopped
    <3>3. n = IF free THEN Ready(m, u) ELSE m
      BY <2>4, <3>1 DEF Gone
    <3>4. n.OSRunning
      BY <1>1, <2>5 DEF Adjusts, SameSched
    <3> QED
      BY <3>2, <3>3, <3>4 DEF MaybeSched
  <2>7. r.s = n /\ (r.then = "sched" \/ (r.then = "return" /\ ~free))
    BY <2>6 DEF ThenSched, Return
  <2> QED
    BY <1>1, <2>5, <2>7, AdjustServes
<1> QED
  BY <1>3, <1>4

(* OSTimeDlyResume, whichever task it names. *)
LEMMA TimeDlyResumeServes ==
  ASSUME NEW s, NEW f, NEW t, NEW c, Entered(s, f, t, c), c.op \notin EventOps, NEW prio \in Prio,
         NEW r, r = OSTimeDlyResume(s, prio)
  PROVE  Keeps(s, f, r) /\ Gives(s, f, r, c)
<1>1. ListsOK(s, f) /\ s.OSRunning
  BY DEF Entered, Running
<1>2. PICK u : u = At(s, prio)
  OBVIOUS
<1>3. CASE NoTaskAt(s, prio) \/ s.tcb[u].OSTCBDly = 0
  <2>1. r.s = s /\ r.then = "return"
    BY <1>2, <1>3 DEF OSTimeDlyResume, Return
  <2> QED
    BY <1>1, <2>1, NoDelta, NothingChanges
<1>4. CASE ~NoTaskAt(s, prio) /\ s.tcb[u].OSTCBDly # 0
  <2>1. /\ u \in Tcb /\ PrioOf(s, u) = prio /\ prio # NULL
        /\ prio # OS_TASK_IDLE_PRIO => u \in Task
        /\ prio = OS_TASK_IDLE_PRIO => u = Idle
    BY <1>1, <1>2, <1>4, NamedTask
  <2>2. s.tcb[Idle].OSTCBDly = 0
    BY <1>1 DEF ListsOK, FreeTcb
  <2>3. u \in Task
    BY <1>4, <2>1, <2>2
  <2>4. PICK n, stop : n = Undelayed(s, u) /\ stop = ("SUSPEND" \in EndDelay(s, u).tcb[u].OSTCBStat)
    OBVIOUS
  <2>5. r = IF stop THEN Return(n, NONE) ELSE ThenSched(n, NONE)
    BY <1>1, <1>2, <1>4, <2>4 DEF OSTimeDlyResume, Undelayed, EndDelay
  <2>6. r.s = n /\ (r.then = "sched" \/ (r.then = "return" /\ stop))
    BY <2>5 DEF ThenSched, Return
  <2>7. Adjusts(s, n, f) /\ (stop => n.OSRdy = s.OSRdy)
    BY <1>1, <1>4, <2>1, <2>3, <2>4, UndelayLists DEF Adjusts
  <2> QED
    BY <1>1, <2>6, <2>7, AdjustServes
<1> QED
  BY <1>3, <1>4

(* What a step of the kernel does, for a signalling scenario.              *)
KernelStep == KernelInv' /\ QueuesMove(os', os)

(* The history stays a number for each event. *)
LEMMA CreditTyped ==
  ASSUME credit \in [Event -> Int], NEW s, NEW c, CallOK(s, c), NEW r, Delta(s, c, r) \in Int,
         c.op \in Flushes => Contents(r.s.ecb[c.e]) \in Int /\ Contents(s.ecb[c.e]) \in Int
  PROVE  CreditAfter(s, c, r) \in [Event -> Int]
<1>1. c.op \in EventOps => c.e \in Event
  BY CallIs
<1>2. c.op \notin {"PendMulti", "SemDel", "MboxDel", "QDel", "SemCreate", "MboxCreate"}
  BY DEF CallOK, PlainCall, PendOps
<1>3. CASE c.op \in Posts
  <2>1. c.op \notin Takes /\ c.op \notin Flushes /\ c.op \in EventOps
    BY <1>3 DEF Posts, Takes, Flushes, EventOps, SemOps, MutexOps, MboxOps, QOps
  <2>2. CASE r.err = NONE
    <3>1. PICK d \in Int : d = Receivers(s, c)
      BY <1>3, <2>2 DEF Delta
    <3>2. CreditAfter(s, c, r) = [credit EXCEPT ![c.e] = @ + d]
      BY <1>2, <1>3, <2>1, <2>2, <3>1 DEF CreditAfter, Flushes
    <3> QED
      BY <1>1, <2>1, <3>2
  <2>3. CASE r.err # NONE
    <3>1. CreditAfter(s, c, r) = credit
      BY <1>2, <1>3, <2>1, <2>3 DEF CreditAfter, Flushes
    <3> QED
      BY <3>1
  <2> QED
    BY <2>2, <2>3
<1>4. CASE c.op \in Takes
  <2>1. c.op \notin Posts /\ c.op \notin Flushes /\ c.op \in EventOps
    BY <1>4 DEF Posts, Takes, Flushes, EventOps, SemOps, MutexOps, MboxOps, QOps
  <2>2. CreditAfter(s, c, r) = IF GotIt(c, r) THEN [credit EXCEPT ![c.e] = @ - 1] ELSE credit
    BY <1>2, <1>4, <2>1 DEF CreditAfter, Flushes
  <2> QED
    BY <1>1, <2>1, <2>2
<1>5. CASE c.op \in Flushes
  <2>1. c.op \notin Posts /\ c.op \notin Takes /\ c.op \in EventOps
    BY <1>5 DEF Posts, Takes, Flushes, EventOps, SemOps, MutexOps, MboxOps, QOps
  <2>2. PICK a \in Int, b \in Int : a = Contents(r.s.ecb[c.e]) /\ b = Contents(s.ecb[c.e])
    BY <1>5
  <2>3. CreditAfter(s, c, r) = [credit EXCEPT ![c.e] = @ + a - b]
    BY <1>2, <1>5, <2>1, <2>2 DEF CreditAfter, Flushes
  <2> QED
    BY <1>1, <2>1, <2>3
<1>6. CASE c.op \notin Posts \cup Takes \cup Flushes
  <2>1. CreditAfter(s, c, r) = credit
    BY <1>2, <1>6 DEF CreditAfter, Flushes
  <2> QED
    BY <2>1
<1> QED
  BY <1>3, <1>4, <1>5, <1>6

PlainOps ==
    {"SemPend", "MutexPend", "MboxPend", "QPend", "SemAccept", "SemPost", "MutexAccept",
     "MutexPost", "MboxAccept", "QAccept", "QFlush", "SemSet", "SemPendAbort",
     "MboxPendAbort", "QPendAbort", "MboxPost", "QPost", "QPostFront", "MboxPostOpt",
     "QPostOpt", "TimeDly", "TimeDlyHMSM", "TaskSuspend", "TaskResume",
     "TimeDlyResume", "SchedLock", "SchedUnlock"}

(* The calls the hypothesis leaves to the application.                     *)
LEMMA PlainIs ==
  ASSUME NEW c \in PlainCall
  PROVE  /\ c.op \in PlainOps
         /\ c.op = "TimeDly" => c.ticks \in Nat
         /\ c.op = "TimeDlyHMSM" =>
               c.hours \in Nat /\ c.minutes \in Nat /\ c.seconds \in Nat /\ c.ms \in Nat
         /\ c.op \in {"TaskSuspend", "TaskResume", "TimeDlyResume"} => c.prio \in Prio
BY DEF PlainCall, PlainOps, PendOps

-----------------------------------------------------------------------------
(* A service that does not wait, and one that does, as steps of the task.  *)

(* Who has a mutex is its owner still when no mutex changes hands.         *)
LEMMA OwnersKept ==
  ASSUME NEW s, NEW r, NEW h, OwnersOK(s, h), EventsMove(r, s)
  PROVE  OwnersOK(r, h)
BY DEF OwnersOK, EventsMove, QueuesMove, OwnersStay

(* In particular when the events stay as they are. *)
LEMMA EventsSame ==
  ASSUME NEW s, NEW r, r.ecb = s.ecb, NEW h, OwnersOK(s, h)
  PROVE  QueuesMove(r, s) /\ OwnersOK(r, h)
BY QueuesStay, OwnersKept DEF EventsMove

(* A service that does not wait, as a step of the task, keeps the          *)
(* invariant.                                                              *)
LEMMA CallStep ==
  ASSUME CreditOK(os, frame, credit), NEW t, NEW c, Entered(os, frame, t, c), NEW r,
         KeepsLists(os, frame, r), Gives(os, frame, r, c), Finish(t, c, r),
         QueuesMove(r.s, os), OwnersOK(r.s, HeldAfter(t, c, r))
  PROVE  KernelStep
<1>1. ListsOK(os, frame) /\ ListsOK(r.s, frame) /\ CallOK(os, c) /\ r.then # "block"
  BY DEF Entered, KeepsLists
<1>2. CreditAfter(os, c, r) \in [Event -> Int]
  <2>1. c.op \in Flushes => c.e \in Event
    BY <1>1, CallIs DEF Flushes, EventOps, SemOps, MutexOps, MboxOps, QOps
  <2>2. c.op \in Flushes => Contents(r.s.ecb[c.e]) \in Int /\ Contents(os.ecb[c.e]) \in Int
    BY <1>1, <2>1, CountIs
  <2>3. credit \in [Event -> Int] /\ Delta(os, c, r) \in Int
    BY DEF CreditOK, Gives
  <2> QED
    BY <1>1, <2>2, <2>3, CreditTyped
<1>3. PICK g, h : g = PutFrame(frame, t, FrameAfter(c, r)) /\ h = HeldAfter(t, c, r)
  OBVIOUS
<1>4. /\ ListsOK(r.s, g) /\ SchedOK(r.s, g)
      /\ CreditOK(r.s, g, IF r.then = "block" THEN credit ELSE CreditAfter(os, c, r))
  BY <1>2, <1>3, ServiceEnds
<1>5. os' = r.s /\ frame' = g /\ credit' = CreditAfter(os, c, r) /\ held' = h
  BY <1>1, <1>3 DEF Finish, PutFrame
<1>6. OwnersOK(r.s, h)
  BY <1>3
<1> QED
  BY <1>1, <1>4, <1>5, <1>6 DEF KernelInv, KernelStep

(* So does one that is not for a mutex. *)
LEMMA ServiceStep ==
  ASSUME CreditOK(os, frame, credit), OwnersOK(os, held), NEW t, NEW c, c.op \notin MutexOps,
         Entered(os, frame, t, c), NEW r,
         Keeps(os, frame, r), Gives(os, frame, r, c), Finish(t, c, r)
  PROVE  KernelStep
<1>1. KeepsLists(os, frame, r) /\ EventsMove(r.s, os) /\ QueuesMove(r.s, os) /\ c \in PlainCall
  BY DEF Keeps, EventsMove, Entered, CallOK
<1>2. HeldAfter(t, c, r) = held
  <2>1. c.op \notin {"MutexPend", "MutexAccept", "MutexPost", "MutexDel"}
    BY <1>1, PlainIs DEF MutexOps, PlainOps
  <2> QED
    BY <2>1 DEF HeldAfter
<1>3. OwnersOK(r.s, HeldAfter(t, c, r))
  BY <1>1, <1>2, OwnersKept
<1> QED
  BY <1>1, <1>3, CallStep

(* A service that waits, as a step of the task, keeps the invariant. *)
LEMMA PendStep ==
  ASSUME CreditOK(os, frame, credit), OwnersOK(os, held), NEW t, NEW c,
         Entered(os, frame, t, c), c.op \in PendOps, NEW r, r = Pend(os, c.e, TypeFor(c.op), c.timeout), Finish(t, c, r)
  PROVE  KernelStep
<1>1. PICK g : g = PutFrame(frame, t, FrameAfter(c, r))
  OBVIOUS
<1>2. /\ r.then = "block" /\ ListsOK(r.s, g) /\ SchedOK(r.s, g)
      /\ \A x \in Event : Count(r.s, g, x) = Count(os, frame, x)
      /\ EventsMove(r.s, os)
  BY <1>1, PendBlocks
<1>21. HeldAfter(t, c, r) = held
  <2>1. r.val = NULL /\ c.op \notin {"MutexPost", "MutexDel"}
    BY DEF Pend, Block, PendOps
  <2> QED
    BY <2>1 DEF HeldAfter
<1>3. os' = r.s /\ frame' = g /\ credit' = credit /\ held' = held
  BY <1>1, <1>2, <1>21 DEF Finish, PutFrame
<1>4. CreditOK(r.s, g, credit)
  BY <1>2 DEF CreditOK
<1>5. OwnersOK(r.s, held) /\ QueuesMove(r.s, os)
  BY <1>2, OwnersKept DEF EventsMove
<1> QED
  BY <1>2, <1>3, <1>4, <1>5 DEF KernelInv, KernelStep

(* A task goes on after the wait. *)
LEMMA ReturnStep ==
  ASSUME KernelInv, NEW t \in Task, NEW op, op # "MutexPend", NEW r, Resumes(t, op, r),
         r = PendReturn(os, frame[t].call.e)
  PROVE  KernelStep
<1>1. PICK c, g : c = frame[t].call /\ g = PutFrame(frame, t, App)
  OBVIOUS
<1>2. /\ ListsOK(os, frame) /\ SchedOK(os, frame) /\ CreditOK(os, frame, credit)
      /\ Running(os, t) /\ frame[t].at = "resume"
  BY DEF KernelInv, Resumes, Runs, Running
<1>21. c.op # "MutexPend" /\ frame[t].call.op # "MutexPend"
  BY <1>1 DEF Resumes
<1>3. CallOK(os, c) /\ c.op \in PendOps
  <2>1. t \in Tcb /\ FrameOK(os, frame) /\ Asleep(frame, t) /\ frame[t] # App
    BY <1>2 DEF ListsOK, Tcb, Asleep, App
  <2> QED
    BY <1>1, <2>1 DEF FrameOK
<1>4. CreditAfter(os, c, r) \in [Event -> Int]
  <2>1. c.op \notin Posts /\ c.op \notin Flushes /\ c.op \in Takes
    BY <1>21, <1>3 DEF PendOps, Posts, Flushes, Takes
  <2>2. Delta(os, c, r) \in Int
    BY <2>1 DEF Delta
  <2> QED
    BY <1>2, <1>3, <2>1, <2>2, CreditTyped DEF CreditOK
<1>5. /\ ListsOK(r.s, g) /\ SchedOK(r.s, g) /\ CreditOK(r.s, g, CreditAfter(os, c, r))
      /\ EventsMove(r.s, os)
  BY <1>1, <1>2, <1>21, <1>4, PendReturns
<1>6. HeldAfter(t, c, r) = held
  BY <1>21, <1>3 DEF HeldAfter, PendOps
<1>7. os' = r.s /\ frame' = g /\ credit' = CreditAfter(os, c, r) /\ held' = held
  BY <1>1, <1>6 DEF Resumes, PutFrame
<1>8. OwnersOK(r.s, held) /\ QueuesMove(r.s, os)
  BY <1>5, OwnersKept DEF EventsMove, KernelInv
<1> QED
  BY <1>5, <1>7, <1>8 DEF KernelInv, KernelStep

-----------------------------------------------------------------------------
(* Locking and unlocking the scheduler.                                    *)

(* OSSchedLock and OSSchedUnlock keep the invariant. *)
LEMMA LockStep ==
  ASSUME CreditOK(os, frame, credit), OwnersOK(os, held), NEW t, NEW c, Entered(os, frame, t, c), NEW r, NEW n,
         r = Return(n, NONE) \/ r = ThenSched(n, NONE),
         n = [os EXCEPT !.OSLockNesting = n.OSLockNesting], n.OSLockNesting \in 0 .. 1,
         n.OSLockNesting = 0 /\ r.then = "return" => os.OSLockNesting = 0,
         c.op \notin EventOps, Finish(t, c, r)
  PROVE  KernelStep
<1>1. /\ ListsOK(os, frame) /\ SchedOK(os, frame) /\ Running(os, t) /\ CallOK(os, c)
      /\ ~Asleep(frame, t) /\ frame[t].at \notin {"sched", "block"}
  BY DEF Entered, Asleep
<1>2. KernelType(os) /\ DOMAIN frame = Tcb
  BY <1>1 DEF ListsOK, FrameOK
<1>3. /\ t \in Task /\ t \in Tcb /\ PrioOf(os, t) # NULL /\ PrioOf(os, t) = os.OSPrioCur
      /\ os.OSIntNesting = 0 /\ os.OSRunning /\ ~os.msip /\ os.OSTCBCur = t
  BY <1>1, RunningIs DEF Running
<1>4. /\ DOMAIN n = DOMAIN os /\ n.OSRdy = os.OSRdy /\ n.OSTCBPrioTbl = os.OSTCBPrioTbl
      /\ n.tcb = os.tcb /\ n.ecb = os.ecb
      /\ n.OSRunning = os.OSRunning /\ n.msip = os.msip /\ n.OSIntNesting = os.OSIntNesting
      /\ n.OSPrioCur = os.OSPrioCur /\ n.OSPrioHighRdy = os.OSPrioHighRdy
      /\ n.OSTCBCur = os.OSTCBCur /\ n.OSTCBHighRdy = os.OSTCBHighRdy
  BY <1>2 DEF KernelType
<1>5. SameLists(n, os) /\ SchedTypes(n)
  BY <1>2, <1>4 DEF SameLists, SchedTypes, KernelType
<1>6. ListsOK(n, frame) /\ \A x \in Event : Count(n, frame, x) = Count(os, frame, x)
  BY <1>1, <1>5, SchedLists
<1>7. PICK g : g = PutFrame(frame, t, FrameAfter(c, r))
  OBVIOUS
<1>8. r.s = n /\ (r.then = "return" \/ r.then = "sched") /\ r.then # "block"
  BY DEF Return, ThenSched
<1>9. /\ g[t] = IF r.then = "return" THEN App ELSE [at |-> "sched", call |-> c]
      /\ DOMAIN g = Tcb /\ \A u \in Tcb \ {t} : g[u] = frame[u]
  BY <1>2, <1>3, <1>7, <1>8 DEF FrameAfter, PutFrame
<1>10. ~Asleep(g, t) /\ g[t].at \in {"app", "sched"} /\ (g[t].at = "app" <=> r.then = "return")
  BY <1>8, <1>9 DEF Asleep, App
<1>11. FramesBut(t, g, frame) /\ FrameAt(n, g, t)
  <2>1. CallOK(n, c) /\ c \in PlainCall
    BY <1>1, <1>4 DEF CallOK
  <2> QED
    BY <1>9, <1>10, <2>1 DEF FramesBut, FrameAt
<1>12. ListsOK(n, g) /\ \A x \in Event : GrantedIn(n, g, x) = GrantedIn(n, frame, x)
  <2>1. PrioOf(n, t) # NULL
    BY <1>3, <1>4 DEF PrioOf
  <2> QED
    BY <1>1, <1>3, <1>6, <1>10, <1>11, <2>1, FrameLists
<1>13. SchedOK(n, g)
  <2>1. os.OSLockNesting = 0 => os.OSPrioCur = Highest(os.OSRdy)
    BY <1>1, <1>3 DEF SchedOK
  <2>2. PrioOf(n, t) = n.OSPrioCur
    BY <1>3, <1>4 DEF PrioOf
  <2>3. n.OSLockNesting = 0 /\ g[t].at \notin {"sched", "block"} => n.OSPrioCur = Highest(n.OSRdy)
    BY <1>4, <1>10, <2>1
  <2> QED
    BY <1>3, <1>4, <1>10, <2>2, <2>3 DEF SchedOK
<1>14. CreditAfter(os, c, r) = credit
  <2>1. c.op \notin {"PendMulti", "SemDel", "MboxDel", "QDel", "SemCreate", "MboxCreate"}
    BY <1>1 DEF CallOK, PlainCall, PendOps
  <2> QED
    BY <2>1 DEF CreditAfter, EventOps, SemOps, MutexOps, MboxOps, QOps, Posts, Takes
<1>15. CreditOK(n, g, credit)
  BY <1>6, <1>12 DEF CreditOK, Count
<1>16. HeldAfter(t, c, r) = held
  <2>1. c.op \notin {"MutexPend", "MutexAccept", "MutexPost", "MutexDel"}
    BY <1>1, PlainIs DEF CallOK, EventOps, MutexOps, PlainOps
  <2> QED
    BY <2>1 DEF HeldAfter
<1>17. os' = n /\ frame' = g /\ credit' = credit /\ held' = held
  BY <1>7, <1>8, <1>14, <1>16 DEF Finish, PutFrame
<1>18. QueuesMove(n, os) /\ OwnersOK(n, held)
  BY <1>4, QueuesStay, OwnersKept DEF EventsMove
<1> QED
  BY <1>12, <1>13, <1>15, <1>17, <1>18 DEF KernelInv, KernelStep

(* The checks let a call through only to an event of its type, and a call  *)
(* that may wait only when the scheduler is not locked.                    *)
LEMMA RefusedNot ==
  ASSUME NEW s, NEW c \in PlainCall, Refused(s, c) = NONE
  PROVE  CallOK(s, c) /\ (c.op \in PendOps => ~(s.OSLockNesting > 0))
<1>1. c.op \in PlainOps
  BY PlainIs
<1>2. NONE \notin {"EVENT_TYPE", "PEND_ISR", "PEND_LOCKED", "DEL_ISR"}
  BY KernelAssumption
<1>3. CASE c.op \in PendOps
  <2>1. Refused(s, c) = PendRefused(s, c.e, TypeFor(c.op))
    BY <1>3 DEF Refused, PendOps, TypeFor, SemOps, MutexOps, MboxOps, QOps
  <2>2. ~WrongType(s, c.e, TypeFor(c.op)) /\ ~(s.OSLockNesting > 0)
    BY <1>2, <2>1 DEF PendRefused
  <2> QED
    BY <2>2 DEF WrongType, CallOK
<1>4. CASE c.op \in MutexOps \ PendOps
  <2>1. Refused(s, c) = DelRefused(s, c.e, TypeFor(c.op))
    BY <1>4 DEF Refused, PendOps, TypeFor, SemOps, MutexOps, MboxOps
  <2>2. ~WrongType(s, c.e, TypeFor(c.op))
    BY <1>2, <2>1 DEF DelRefused
  <2> QED
    BY <1>4, <2>2 DEF WrongType, CallOK
<1>5. CASE c.op \in EventOps \ (PendOps \cup MutexOps)
  <2>1. Refused(s, c) = TypeRefused(s, c.e, TypeFor(c.op))
    <3>1. CASE c.op \in SemOps
      BY <1>5, <3>1 DEF Refused, PendOps, TypeFor, SemOps, MutexOps, MboxOps
    <3>2. CASE c.op \in MboxOps
      BY <1>5, <3>2 DEF Refused, PendOps, TypeFor, SemOps, MutexOps, MboxOps
    <3>3. CASE c.op \in QOps
      BY <1>5, <3>3 DEF Refused, PendOps, TypeFor, SemOps, MutexOps, MboxOps, QOps
    <3> QED
      BY <1>5, <3>1, <3>2, <3>3 DEF EventOps
  <2>2. ~WrongType(s, c.e, TypeFor(c.op))
    BY <1>2, <2>1 DEF TypeRefused
  <2> QED
    BY <1>5, <2>2 DEF WrongType, CallOK
<1>6. CASE c.op \notin EventOps
  BY <1>6 DEF CallOK, EventOps, SemOps, MutexOps, MboxOps, QOps, PendOps
<1> QED
  BY <1>3, <1>4, <1>5, <1>6

(* What a task that makes a call has behind it. *)
LEMMA EntersIs ==
  ASSUME Signalling(scenario), scenario \in Scenarios, KernelInv, NEW t \in Task,
         NEW c \in Setup[scenario].calls[t], Enters(t, c)
  PROVE  Entered(os, frame, t, c) /\ c \in PlainCall
<1>1. /\ ListsOK(os, frame) /\ SchedOK(os, frame) /\ Running(os, t) /\ c \in PlainCall
  BY DEF KernelInv, Enters, Runs, Running, Signalling
<1>2. os.OSLockNesting \in 0 .. 1
  BY <1>1 DEF ListsOK, KernelType
<1>3. CASE frame[t].at = "app" /\ Sensible(t, c) /\ Refused(os, c) = NONE
  <2>1. CallOK(os, c) /\ (c.op \in PendOps => os.OSLockNesting = 0)
    BY <1>1, <1>2, <1>3, RefusedNot
  <2>2. c.op = "SchedLock" => os.OSLockNesting = 0
    BY <1>3 DEF Sensible
  <2> QED
    BY <1>1, <1>3, <2>1, <2>2 DEF Entered, UnlockedOps
<1>4. CASE frame[t].at = "enter" /\ frame[t].call = c
  <2>1. t \in Tcb /\ FrameOK(os, frame) /\ frame[t] # App
    BY <1>1, <1>4 DEF ListsOK, Tcb, App
  <2>2. CallOK(os, c)
    BY <1>4, <2>1 DEF FrameOK
  <2>3. c.op \in UnlockedOps => os.OSLockNesting = 0
    <3>1. os.OSTCBCur = t
      BY <1>1 DEF Running
    <3> QED
      BY <1>1, <1>2, <1>4, <3>1 DEF SchedOK
  <2> QED
    BY <1>1, <1>4, <2>2, <2>3 DEF Entered
<1> QED
  BY <1>3, <1>4 DEF Enters

-----------------------------------------------------------------------------
(* The services of semaphores.                                             *)

(* The services of semaphores keep the invariant. *)
LEMMA SemStep ==
  ASSUME Signalling(scenario), scenario \in Scenarios, KernelInv, NEW t \in Task, SemCall(t)
  PROVE  KernelStep
<1>1. CreditOK(os, frame, credit) /\ OwnersOK(os, held)
  BY DEF KernelInv
<1>2. ASSUME NEW op, NEW c \in Calls(t, op), Enters(t, c)
      PROVE  /\ c.op = op /\ op \in PlainOps
             /\ Entered(os, frame, t, c) /\ ListsOK(os, frame) /\ CallOK(os, c)
  BY <1>2, EntersIs, PlainIs DEF Calls, Entered
<1>3. CASE SemPend(t)
  <2>1. PICK c \in Calls(t, "SemPend") : Service(t, c, OSSemPend(os, c.e, c.timeout))
    BY <1>3 DEF SemPend
  <2>2. PICK r : r = OSSemPend(os, c.e, c.timeout)
    OBVIOUS
  <2>3. Enters(t, c) /\ Finish(t, c, r)
    BY <2>1, <2>2 DEF Service
  <2>4. c.op = "SemPend" /\ Entered(os, frame, t, c) /\ ListsOK(os, frame) /\ CallOK(os, c)
    BY <1>2, <2>3
  <2>5. CASE os.ecb[c.e].OSEventCnt > 0
    <3>1. r = Return([os EXCEPT !.ecb[c.e].OSEventCnt = @ - 1], NONE)
      BY <2>2, <2>5 DEF OSSemPend
    <3>2. Keeps(os, frame, r) /\ Gives(os, frame, r, c)
      BY <2>4, <2>5, <3>1, SemTakeServes
    <3> QED
      BY <1>1, <2>3, <2>4, <3>2, ServiceStep DEF MutexOps
  <2>6. CASE ~(os.ecb[c.e].OSEventCnt > 0)
    <3>1. r = Pend(os, c.e, TypeFor(c.op), c.timeout) /\ c.op \in PendOps
      BY <2>2, <2>4, <2>6 DEF OSSemPend, TypeFor, SemOps, MutexOps, MboxOps, PendOps
    <3> QED
      BY <1>1, <2>3, <2>4, <3>1, PendStep
  <2> QED
    BY <2>5, <2>6
<1>4. CASE SemAccept(t)
  <2>1. PICK c \in Calls(t, "SemAccept") : Service(t, c, OSSemAccept(os, c.e))
    BY <1>4 DEF SemAccept
  <2>2. PICK r : r = OSSemAccept(os, c.e)
    OBVIOUS
  <2>3. Enters(t, c) /\ Finish(t, c, r)
    BY <2>1, <2>2 DEF Service
  <2>4. c.op = "SemAccept" /\ Entered(os, frame, t, c) /\ ListsOK(os, frame) /\ CallOK(os, c)
    BY <1>2, <2>3
  <2>5. Keeps(os, frame, r) /\ Gives(os, frame, r, c)
    BY <2>2, <2>4, SemAcceptServes
  <2> QED
    BY <1>1, <2>3, <2>4, <2>5, ServiceStep DEF MutexOps
<1>5. CASE SemPost(t)
  <2>1. PICK c \in Calls(t, "SemPost") : Service(t, c, OSSemPost(os, c.e))
    BY <1>5 DEF SemPost
  <2>2. PICK r : r = OSSemPost(os, c.e)
    OBVIOUS
  <2>3. Enters(t, c) /\ Finish(t, c, r)
    BY <2>1, <2>2 DEF Service
  <2>4. c.op = "SemPost" /\ Entered(os, frame, t, c) /\ ListsOK(os, frame) /\ CallOK(os, c)
    BY <1>2, <2>3
  <2>5. Keeps(os, frame, r) /\ Gives(os, frame, r, c)
    BY <2>2, <2>4, SemPostServes
  <2> QED
    BY <1>1, <2>3, <2>4, <2>5, ServiceStep DEF MutexOps
<1>6. CASE SemSet(t)
  <2>1. PICK c \in Calls(t, "SemSet") : Service(t, c, OSSemSet(os, c.e, c.cnt))
    BY <1>6 DEF SemSet
  <2>2. PICK r : r = OSSemSet(os, c.e, c.cnt)
    OBVIOUS
  <2>3. Enters(t, c) /\ Finish(t, c, r)
    BY <2>1, <2>2 DEF Service
  <2>4. c.op = "SemSet" /\ Entered(os, frame, t, c) /\ ListsOK(os, frame) /\ CallOK(os, c)
    BY <1>2, <2>3
  <2>5. Keeps(os, frame, r) /\ Gives(os, frame, r, c)
    BY <2>2, <2>4, SemSetServes
  <2> QED
    BY <1>1, <2>3, <2>4, <2>5, ServiceStep DEF MutexOps
<1>7. CASE SemPendAbort(t)
  <2>1. PICK c \in Calls(t, "SemPendAbort") : Service(t, c, OSSemPendAbort(os, c.e, c.broadcast))
    BY <1>7 DEF SemPendAbort
  <2>2. PICK r : r = OSSemPendAbort(os, c.e, c.broadcast)
    OBVIOUS
  <2>3. Enters(t, c) /\ Finish(t, c, r)
    BY <2>1, <2>2 DEF Service
  <2>4. c.op = "SemPendAbort" /\ Entered(os, frame, t, c) /\ ListsOK(os, frame) /\ CallOK(os, c)
    BY <1>2, <2>3
  <2>5. r = PendAbort(os, c.e, TypeFor(c.op), c.broadcast)
    BY <2>2, <2>4 DEF OSSemPendAbort, TypeFor, SemOps, MutexOps, MboxOps
  <2>6. Keeps(os, frame, r) /\ Gives(os, frame, r, c)
    BY <2>4, <2>5, PendAbortServes
  <2> QED
    BY <1>1, <2>3, <2>4, <2>6, ServiceStep DEF MutexOps
<1>8. ~SemDel(t) /\ ~SemCreate(t)
  <2>1. "SemDel" \notin PlainOps /\ "SemCreate" \notin PlainOps
    BY DEF PlainOps
  <2> QED
    BY <1>2, <2>1 DEF SemDel, SemCreate, Service
<1> QED
  BY <1>3, <1>4, <1>5, <1>6, <1>7, <1>8 DEF SemCall

(* The services of mailboxes. *)
LEMMA MboxStep ==
  ASSUME Signalling(scenario), scenario \in Scenarios, KernelInv, NEW t \in Task, MboxCall(t)
  PROVE  KernelStep
<1>1. CreditOK(os, frame, credit) /\ OwnersOK(os, held)
  BY DEF KernelInv
<1>2. ASSUME NEW op, NEW c \in Calls(t, op), Enters(t, c)
      PROVE  /\ c.op = op /\ op \in PlainOps /\ c \in PlainCall
             /\ Entered(os, frame, t, c) /\ ListsOK(os, frame) /\ CallOK(os, c)
  BY <1>2, EntersIs, PlainIs DEF Calls, Entered
<1>3. CASE MboxPend(t)
  <2>1. PICK c \in Calls(t, "MboxPend") : Service(t, c, OSMboxPend(os, c.e, c.timeout))
    BY <1>3 DEF MboxPend
  <2>2. PICK r : r = OSMboxPend(os, c.e, c.timeout)
    OBVIOUS
  <2>3. Enters(t, c) /\ Finish(t, c, r)
    BY <2>1, <2>2 DEF Service
  <2>4. c.op = "MboxPend" /\ Entered(os, frame, t, c) /\ ListsOK(os, frame) /\ CallOK(os, c)
    BY <1>2, <2>3
  <2>5. CASE os.ecb[c.e].OSEventPtr # NULL
    <3>1. r = OSMboxAccept(os, c.e)
      BY <2>2, <2>5 DEF OSMboxPend
    <3>2. Keeps(os, frame, r) /\ Gives(os, frame, r, c)
      BY <2>4, <2>5, <3>1, MboxAcceptServes
    <3> QED
      BY <1>1, <2>3, <2>4, <3>2, ServiceStep DEF MutexOps
  <2>6. CASE ~(os.ecb[c.e].OSEventPtr # NULL)
    <3>1. r = Pend(os, c.e, TypeFor(c.op), c.timeout) /\ c.op \in PendOps
      BY <2>2, <2>4, <2>6 DEF OSMboxPend, TypeFor, SemOps, MutexOps, MboxOps, PendOps
    <3> QED
      BY <1>1, <2>3, <2>4, <3>1, PendStep
  <2> QED
    BY <2>5, <2>6
<1>4. CASE MboxAccept(t)
  <2>1. PICK c \in Calls(t, "MboxAccept") : Service(t, c, OSMboxAccept(os, c.e))
    BY <1>4 DEF MboxAccept
  <2>2. PICK r : r = OSMboxAccept(os, c.e)
    OBVIOUS
  <2>3. Enters(t, c) /\ Finish(t, c, r)
    BY <2>1, <2>2 DEF Service
  <2>4. c.op = "MboxAccept" /\ Entered(os, frame, t, c) /\ ListsOK(os, frame) /\ CallOK(os, c)
    BY <1>2, <2>3
  <2>5. Keeps(os, frame, r) /\ Gives(os, frame, r, c)
    BY <2>2, <2>4, MboxAcceptServes
  <2> QED
    BY <1>1, <2>3, <2>4, <2>5, ServiceStep DEF MutexOps
<1>5. CASE MboxPost(t)
  <2>1. PICK c \in Calls(t, "MboxPost") : Service(t, c, OSMboxPost(os, c.e, c.msg))
    BY <1>5 DEF MboxPost
  <2>2. PICK r : r = OSMboxPost(os, c.e, c.msg)
    OBVIOUS
  <2>3. Enters(t, c) /\ Finish(t, c, r)
    BY <2>1, <2>2 DEF Service
  <2>4. c.op = "MboxPost" /\ Entered(os, frame, t, c) /\ ListsOK(os, frame) /\ CallOK(os, c)
    BY <1>2, <2>3
  <2>5. Keeps(os, frame, r) /\ Gives(os, frame, r, c)
    BY <2>2, <2>4, MboxPostServes
  <2> QED
    BY <1>1, <2>3, <2>4, <2>5, ServiceStep DEF MutexOps
<1>6. CASE MboxPostOpt(t)
  <2>1. PICK c \in Calls(t, "MboxPostOpt") : Service(t, c, OSMboxPostOpt(os, c.e, c.msg, c.opt))
    BY <1>6 DEF MboxPostOpt
  <2>2. PICK r : r = OSMboxPostOpt(os, c.e, c.msg, c.opt)
    OBVIOUS
  <2>3. Enters(t, c) /\ Finish(t, c, r)
    BY <2>1, <2>2 DEF Service
  <2>4. c.op = "MboxPostOpt" /\ Entered(os, frame, t, c) /\ ListsOK(os, frame) /\ CallOK(os, c)
    BY <1>2, <2>3
  <2>5. Keeps(os, frame, r) /\ Gives(os, frame, r, c)
    BY <2>2, <2>4, PostOptServes
  <2> QED
    BY <1>1, <2>3, <2>4, <2>5, ServiceStep DEF MutexOps
<1>7. CASE MboxPendAbort(t)
  <2>1. PICK c \in Calls(t, "MboxPendAbort") : Service(t, c, OSMboxPendAbort(os, c.e, c.broadcast))
    BY <1>7 DEF MboxPendAbort
  <2>2. PICK r : r = OSMboxPendAbort(os, c.e, c.broadcast)
    OBVIOUS
  <2>3. Enters(t, c) /\ Finish(t, c, r)
    BY <2>1, <2>2 DEF Service
  <2>4. c.op = "MboxPendAbort" /\ Entered(os, frame, t, c) /\ ListsOK(os, frame) /\ CallOK(os, c)
    BY <1>2, <2>3
  <2>5. r = PendAbort(os, c.e, TypeFor(c.op), c.broadcast)
    BY <2>2, <2>4 DEF OSMboxPendAbort, TypeFor, SemOps, MutexOps, MboxOps
  <2>6. Keeps(os, frame, r) /\ Gives(os, frame, r, c)
    BY <2>2, <2>4, <2>5, PendAbortServes
  <2> QED
    BY <1>1, <2>3, <2>4, <2>6, ServiceStep DEF MutexOps
<1>8. ~MboxDel(t) /\ ~MboxCreate(t)
  <2>1. "MboxDel" \notin PlainOps /\ "MboxCreate" \notin PlainOps
    BY DEF PlainOps
  <2> QED
    BY <1>2, <2>1 DEF MboxDel, MboxCreate, Service
<1> QED
  BY <1>3, <1>4, <1>5, <1>6, <1>7, <1>8 DEF MboxCall

(* The services of queues. *)
LEMMA QStep ==
  ASSUME Signalling(scenario), scenario \in Scenarios, KernelInv, NEW t \in Task, QCall(t)
  PROVE  KernelStep
<1>1. CreditOK(os, frame, credit) /\ OwnersOK(os, held)
  BY DEF KernelInv
<1>2. ASSUME NEW op, NEW c \in Calls(t, op), Enters(t, c)
      PROVE  /\ c.op = op /\ op \in PlainOps /\ c \in PlainCall
             /\ Entered(os, frame, t, c) /\ ListsOK(os, frame) /\ CallOK(os, c)
  BY <1>2, EntersIs, PlainIs DEF Calls, Entered
<1>3. CASE QPend(t)
  <2>1. PICK c \in Calls(t, "QPend") : Service(t, c, OSQPend(os, c.e, c.timeout))
    BY <1>3 DEF QPend
  <2>2. PICK r : r = OSQPend(os, c.e, c.timeout)
    OBVIOUS
  <2>3. Enters(t, c) /\ Finish(t, c, r)
    BY <2>1, <2>2 DEF Service
  <2>4. c.op = "QPend" /\ Entered(os, frame, t, c) /\ ListsOK(os, frame) /\ CallOK(os, c)
    BY <1>2, <2>3
  <2>5. CASE Entries(os, c.e) > 0
    <3>1. r = Deliver(DropFirst(os, c.e), FirstMsg(os, c.e))
      BY <2>2, <2>5 DEF OSQPend
    <3>2. Keeps(os, frame, r) /\ Gives(os, frame, r, c)
      BY <2>4, <2>5, <3>1, QTakeServes
    <3> QED
      BY <1>1, <2>3, <2>4, <3>2, ServiceStep DEF MutexOps
  <2>6. CASE ~(Entries(os, c.e) > 0)
    <3>1. r = Pend(os, c.e, TypeFor(c.op), c.timeout) /\ c.op \in PendOps
      BY <2>2, <2>4, <2>6 DEF OSQPend, TypeFor, SemOps, MutexOps, MboxOps, QOps, PendOps
    <3> QED
      BY <1>1, <2>3, <2>4, <3>1, PendStep
  <2> QED
    BY <2>5, <2>6
<1>4. CASE QAccept(t)
  <2>1. PICK c \in Calls(t, "QAccept") : Service(t, c, OSQAccept(os, c.e))
    BY <1>4 DEF QAccept
  <2>2. PICK r : r = OSQAccept(os, c.e)
    OBVIOUS
  <2>3. Enters(t, c) /\ Finish(t, c, r)
    BY <2>1, <2>2 DEF Service
  <2>4. c.op = "QAccept" /\ Entered(os, frame, t, c) /\ ListsOK(os, frame) /\ CallOK(os, c)
    BY <1>2, <2>3
  <2>5. Keeps(os, frame, r) /\ Gives(os, frame, r, c)
    BY <2>2, <2>4, QAcceptServes
  <2> QED
    BY <1>1, <2>3, <2>4, <2>5, ServiceStep DEF MutexOps
<1>5. CASE QPost(t)
  <2>1. PICK c \in Calls(t, "QPost") : Service(t, c, OSQPost(os, c.e, c.msg))
    BY <1>5 DEF QPost
  <2>2. PICK r : r = OSQPost(os, c.e, c.msg)
    OBVIOUS
  <2>3. Enters(t, c) /\ Finish(t, c, r)
    BY <2>1, <2>2 DEF Service
  <2>4. c.op = "QPost" /\ Entered(os, frame, t, c) /\ ListsOK(os, frame) /\ CallOK(os, c)
    BY <1>2, <2>3
  <2>5. Keeps(os, frame, r) /\ Gives(os, frame, r, c)
    BY <2>2, <2>4, QPostServes
  <2> QED
    BY <1>1, <2>3, <2>4, <2>5, ServiceStep DEF MutexOps
<1>6. CASE QPostFront(t)
  <2>1. PICK c \in Calls(t, "QPostFront") : Service(t, c, OSQPostFront(os, c.e, c.msg))
    BY <1>6 DEF QPostFront
  <2>2. PICK r : r = OSQPostFront(os, c.e, c.msg)
    OBVIOUS
  <2>3. Enters(t, c) /\ Finish(t, c, r)
    BY <2>1, <2>2 DEF Service
  <2>4. c.op = "QPostFront" /\ Entered(os, frame, t, c) /\ ListsOK(os, frame) /\ CallOK(os, c)
    BY <1>2, <2>3
  <2>5. Keeps(os, frame, r) /\ Gives(os, frame, r, c)
    BY <2>2, <2>4, QPostServes
  <2> QED
    BY <1>1, <2>3, <2>4, <2>5, ServiceStep DEF MutexOps
<1>7. CASE QPostOpt(t)
  <2>1. PICK c \in Calls(t, "QPostOpt") : Service(t, c, OSQPostOpt(os, c.e, c.msg, c.opt))
    BY <1>7 DEF QPostOpt
  <2>2. PICK r : r = OSQPostOpt(os, c.e, c.msg, c.opt)
    OBVIOUS
  <2>3. Enters(t, c) /\ Finish(t, c, r)
    BY <2>1, <2>2 DEF Service
  <2>4. c.op = "QPostOpt" /\ Entered(os, frame, t, c) /\ ListsOK(os, frame) /\ CallOK(os, c)
    BY <1>2, <2>3
  <2>5. Keeps(os, frame, r) /\ Gives(os, frame, r, c)
    BY <2>2, <2>4, PostOptServes
  <2> QED
    BY <1>1, <2>3, <2>4, <2>5, ServiceStep DEF MutexOps
<1>8. CASE QFlush(t)
  <2>1. PICK c \in Calls(t, "QFlush") : Service(t, c, OSQFlush(os, c.e))
    BY <1>8 DEF QFlush
  <2>2. PICK r : r = OSQFlush(os, c.e)
    OBVIOUS
  <2>3. Enters(t, c) /\ Finish(t, c, r)
    BY <2>1, <2>2 DEF Service
  <2>4. c.op = "QFlush" /\ Entered(os, frame, t, c) /\ ListsOK(os, frame) /\ CallOK(os, c)
    BY <1>2, <2>3
  <2>5. Keeps(os, frame, r) /\ Gives(os, frame, r, c)
    BY <2>2, <2>4, QFlushServes
  <2> QED
    BY <1>1, <2>3, <2>4, <2>5, ServiceStep DEF MutexOps
<1>9. CASE QPendAbort(t)
  <2>1. PICK c \in Calls(t, "QPendAbort") : Service(t, c, OSQPendAbort(os, c.e, c.broadcast))
    BY <1>9 DEF QPendAbort
  <2>2. PICK r : r = OSQPendAbort(os, c.e, c.broadcast)
    OBVIOUS
  <2>3. Enters(t, c) /\ Finish(t, c, r)
    BY <2>1, <2>2 DEF Service
  <2>4. c.op = "QPendAbort" /\ Entered(os, frame, t, c) /\ ListsOK(os, frame) /\ CallOK(os, c)
    BY <1>2, <2>3
  <2>5. r = PendAbort(os, c.e, TypeFor(c.op), c.broadcast)
    BY <2>2, <2>4 DEF OSQPendAbort, TypeFor, SemOps, MutexOps, MboxOps, QOps
  <2>6. Keeps(os, frame, r) /\ Gives(os, frame, r, c)
    BY <2>2, <2>4, <2>5, PendAbortServes
  <2> QED
    BY <1>1, <2>3, <2>4, <2>6, ServiceStep DEF MutexOps
<1>10. ~QDel(t) /\ ~QCreate(t) /\ ~PendMulti(t)
  <2>1. "QDel" \notin PlainOps /\ "QCreate" \notin PlainOps /\ "PendMulti" \notin PlainOps
    BY DEF PlainOps
  <2> QED
    BY <1>2, <2>1 DEF QDel, QCreate, PendMulti, Service
<1> QED
  BY <1>3, <1>4, <1>5, <1>6, <1>7, <1>8, <1>9, <1>10 DEF QCall

(* The services of tasks, delays and the lock. *)
LEMMA TaskStep ==
  ASSUME Signalling(scenario), scenario \in Scenarios, KernelInv, NEW t \in Task, TaskCall(t)
  PROVE  KernelStep
<1>1. CreditOK(os, frame, credit) /\ OwnersOK(os, held)
  BY DEF KernelInv
<1>2. ASSUME NEW op, NEW c \in Calls(t, op), Enters(t, c)
      PROVE  /\ c.op = op /\ op \in PlainOps /\ c \in PlainCall
             /\ Entered(os, frame, t, c) /\ ListsOK(os, frame) /\ CallOK(os, c)
  BY <1>2, EntersIs, PlainIs DEF Calls, Entered
<1>3. CASE TimeDly(t)
  <2>1. PICK c \in Calls(t, "TimeDly") : Service(t, c, OSTimeDly(os, c.ticks))
    BY <1>3 DEF TimeDly
  <2>2. PICK r : r = OSTimeDly(os, c.ticks)
    OBVIOUS
  <2>3. Enters(t, c) /\ Finish(t, c, r)
    BY <2>1, <2>2 DEF Service
  <2>4. c.op = "TimeDly" /\ Entered(os, frame, t, c) /\ ListsOK(os, frame) /\ CallOK(os, c)
    BY <1>2, <2>3
  <2>5. c.op \notin EventOps /\ c.ticks \in Nat
    BY <2>2, <2>4, <1>2, <2>3, PlainIs DEF EventOps, SemOps, MutexOps, MboxOps, QOps
  <2>6. Keeps(os, frame, r) /\ Gives(os, frame, r, c)
    BY <2>2, <2>4, <2>5, TimeDlyServes
  <2> QED
    BY <1>1, <2>3, <2>4, <2>6, ServiceStep DEF MutexOps
<1>4. CASE TimeDlyHMSM(t)
  <2>1. PICK c \in Calls(t, "TimeDlyHMSM") : Service(t, c, OSTimeDlyHMSM(os, c.hours, c.minutes, c.seconds, c.ms))
    BY <1>4 DEF TimeDlyHMSM
  <2>2. PICK r : r = OSTimeDlyHMSM(os, c.hours, c.minutes, c.seconds, c.ms)
    OBVIOUS
  <2>3. Enters(t, c) /\ Finish(t, c, r)
    BY <2>1, <2>2 DEF Service
  <2>4. c.op = "TimeDlyHMSM" /\ Entered(os, frame, t, c) /\ ListsOK(os, frame) /\ CallOK(os, c)
    BY <1>2, <2>3
  <2>5. c.op \notin EventOps /\ c.hours \in Nat /\ c.minutes \in Nat /\ c.seconds \in Nat /\ c.ms \in Nat
    BY <2>2, <2>4, <1>2, <2>3, PlainIs DEF EventOps, SemOps, MutexOps, MboxOps, QOps
  <2>6. Keeps(os, frame, r) /\ Gives(os, frame, r, c)
    BY <2>2, <2>4, <2>5, TimeDlyHMSMServes
  <2> QED
    BY <1>1, <2>3, <2>4, <2>6, ServiceStep DEF MutexOps
<1>5. CASE TaskSuspend(t)
  <2>1. PICK c \in Calls(t, "TaskSuspend") : Service(t, c, OSTaskSuspend(os, c.prio))
    BY <1>5 DEF TaskSuspend
  <2>2. PICK r : r = OSTaskSuspend(os, c.prio)
    OBVIOUS
  <2>3. Enters(t, c) /\ Finish(t, c, r)
    BY <2>1, <2>2 DEF Service
  <2>4. c.op = "TaskSuspend" /\ Entered(os, frame, t, c) /\ ListsOK(os, frame) /\ CallOK(os, c)
    BY <1>2, <2>3
  <2>5. c.op \notin EventOps /\ c.prio \in Prio
    BY <2>2, <2>4, <1>2, <2>3, PlainIs DEF EventOps, SemOps, MutexOps, MboxOps, QOps
  <2>6. Keeps(os, frame, r) /\ Gives(os, frame, r, c)
    BY <2>2, <2>4, <2>5, TaskSuspendServes
  <2> QED
    BY <1>1, <2>3, <2>4, <2>6, ServiceStep DEF MutexOps
<1>6. CASE TaskResume(t)
  <2>1. PICK c \in Calls(t, "TaskResume") : Service(t, c, OSTaskResume(os, c.prio))
    BY <1>6 DEF TaskResume
  <2>2. PICK r : r = OSTaskResume(os, c.prio)
    OBVIOUS
  <2>3. Enters(t, c) /\ Finish(t, c, r)
    BY <2>1, <2>2 DEF Service
  <2>4. c.op = "TaskResume" /\ Entered(os, frame, t, c) /\ ListsOK(os, frame) /\ CallOK(os, c)
    BY <1>2, <2>3
  <2>5. c.op \notin EventOps /\ c.prio \in Prio
    BY <2>2, <2>4, <1>2, <2>3, PlainIs DEF EventOps, SemOps, MutexOps, MboxOps, QOps
  <2>6. Keeps(os, frame, r) /\ Gives(os, frame, r, c)
    BY <2>2, <2>4, <2>5, TaskResumeServes
  <2> QED
    BY <1>1, <2>3, <2>4, <2>6, ServiceStep DEF MutexOps
<1>7. CASE TimeDlyResume(t)
  <2>1. PICK c \in Calls(t, "TimeDlyResume") : Service(t, c, OSTimeDlyResume(os, c.prio))
    BY <1>7 DEF TimeDlyResume
  <2>2. PICK r : r = OSTimeDlyResume(os, c.prio)
    OBVIOUS
  <2>3. Enters(t, c) /\ Finish(t, c, r)
    BY <2>1, <2>2 DEF Service
  <2>4. c.op = "TimeDlyResume" /\ Entered(os, frame, t, c) /\ ListsOK(os, frame) /\ CallOK(os, c)
    BY <1>2, <2>3
  <2>5. c.op \notin EventOps /\ c.prio \in Prio
    BY <2>2, <2>4, <1>2, <2>3, PlainIs DEF EventOps, SemOps, MutexOps, MboxOps, QOps
  <2>6. Keeps(os, frame, r) /\ Gives(os, frame, r, c)
    BY <2>2, <2>4, <2>5, TimeDlyResumeServes
  <2> QED
    BY <1>1, <2>3, <2>4, <2>6, ServiceStep DEF MutexOps
<1>8. CASE SchedLock(t)
  <2>1. PICK c \in Calls(t, "SchedLock") : Service(t, c, Return(OSSchedLock(os), NONE))
    BY <1>8 DEF SchedLock
  <2>2. PICK n, r : n = OSSchedLock(os) /\ r = Return(n, NONE)
    OBVIOUS
  <2>3. Enters(t, c) /\ Finish(t, c, r)
    BY <2>1, <2>2 DEF Service
  <2>4. c.op = "SchedLock" /\ Entered(os, frame, t, c) /\ KernelType(os)
    BY <1>2, <2>3 DEF ListsOK
  <2>5. c.op \notin EventOps /\ os.OSLockNesting = 0
    BY <2>4 DEF Entered, UnlockedOps, EventOps, SemOps, MutexOps, MboxOps, QOps
  <2>6. n.OSLockNesting = 1 /\ n = [os EXCEPT !.OSLockNesting = n.OSLockNesting]
    <3>1. n = [os EXCEPT !.OSLockNesting = 1]
      BY <2>2, <2>5 DEF OSSchedLock
    <3>2. n.OSLockNesting = 1
      BY <2>4, <3>1 DEF KernelType
    <3> QED
      BY <3>1, <3>2
  <2>7. n.OSLockNesting \in 0 .. 1 /\ (n.OSLockNesting = 0 /\ r.then = "return" => os.OSLockNesting = 0)
    BY <2>6
  <2> QED
    BY <1>1, <2>2, <2>3, <2>4, <2>5, <2>6, <2>7, LockStep
<1>9. CASE SchedUnlock(t)
  <2>1. PICK c \in Calls(t, "SchedUnlock") :
           Service(t, c, IF os.OSLockNesting = 1 THEN ThenSched(OSSchedUnlock(os), NONE)
                                                 ELSE Return(OSSchedUnlock(os), NONE))
    BY <1>9 DEF SchedUnlock
  <2>2. PICK n, r : n = OSSchedUnlock(os) /\ r = IF os.OSLockNesting = 1 THEN ThenSched(n, NONE)
                                                                         ELSE Return(n, NONE)
    OBVIOUS
  <2>3. Enters(t, c) /\ Finish(t, c, r)
    BY <2>1, <2>2 DEF Service
  <2>4. c.op = "SchedUnlock" /\ Entered(os, frame, t, c) /\ KernelType(os)
    BY <1>2, <2>3 DEF ListsOK
  <2>5. c.op \notin EventOps /\ os.OSLockNesting \in 0 .. 1
    BY <2>4 DEF KernelType, EventOps, SemOps, MutexOps, MboxOps, QOps
  <2>6. n.OSLockNesting = 0 /\ n = [os EXCEPT !.OSLockNesting = n.OSLockNesting]
    <3>1. n = [os EXCEPT !.OSLockNesting = 0]
      BY <2>2, <2>5 DEF OSSchedUnlock
    <3>2. n.OSLockNesting = 0
      BY <2>4, <3>1 DEF KernelType
    <3> QED
      BY <3>1, <3>2
  <2>7. n.OSLockNesting \in 0 .. 1 /\ (n.OSLockNesting = 0 /\ r.then = "return" => os.OSLockNesting = 0)
    BY <2>2, <2>5, <2>6 DEF ThenSched, Return
  <2>8. r = Return(n, NONE) \/ r = ThenSched(n, NONE)
    BY <2>2
  <2> QED
    BY <1>1, <2>3, <2>4, <2>5, <2>6, <2>7, <2>8, LockStep
<1>10. ~TaskCreate(t) /\ ~TaskDel(t) /\ ~TaskDelReq(t) /\ ~TaskChangePrio(t)
  <2>1. /\ "TaskCreate" \notin PlainOps /\ "TaskDel" \notin PlainOps
        /\ "TaskDelReq" \notin PlainOps /\ "TaskChangePrio" \notin PlainOps
    BY DEF PlainOps
  <2> QED
    BY <1>2, <2>1 DEF TaskCreate, TaskDel, TaskDelReq, TaskChangePrio, Service
<1> QED
  BY <1>3, <1>4, <1>5, <1>6, <1>7, <1>8, <1>9, <1>10 DEF TaskCall

-----------------------------------------------------------------------------
(* The services of mutexes without a ceiling.                              *)

(* Mutex e has the owner u; all else is as it was.                         *)
Owned(s, r, f, e, u, prio) ==
    /\ ListsOK(r, f) /\ SameSched(r, s) /\ r.OSRdy = s.OSRdy /\ r.tcb = s.tcb
    /\ DOMAIN r = DOMAIN s /\ r.OSTCBPrioTbl = s.OSTCBPrioTbl /\ r.flag = s.flag
    /\ \A x \in Event : GrantedIn(r, f, x) = GrantedIn(s, f, x)
    /\ \A x \in Event \ {e} : r.ecb[x] = s.ecb[x]
    /\ r.ecb[e] = [s.ecb[e] EXCEPT !.OSEventCnt = prio, !.OSEventPtr = u]
    /\ r.ecb[e].OSEventType = "MUTEX" /\ r.ecb[e].OSEventPtr = u /\ r.ecb[e].wait = s.ecb[e].wait

(* A mutex gets another owner, or none.  The owner it had is no task that  *)
(* was handed it and has not run since.                                    *)
LEMMA OwnedLists ==
  ASSUME NEW s, NEW f, ListsOK(s, f), NEW e \in Event, s.ecb[e].OSEventType = "MUTEX",
         NEW u \in Task \cup {NULL}, NEW prio, prio = NULL => u = NULL,
         \A t \in Task : s.ecb[e].OSEventPtr = t => ~Asleep(f, t),
         NEW r, r = OwnBy(s, e, u, prio)
  PROVE  Owned(s, r, f, e, u, prio)
<1>1. PICK c : c = [s.ecb[e] EXCEPT !.OSEventCnt = prio, !.OSEventPtr = u]
  OBVIOUS
<1>2. PICK a : a = [s EXCEPT !.ecb[e].OSEventCnt = prio]
  OBVIOUS
<1>20. /\ DOMAIN a = DOMAIN s /\ SameSched(a, s) /\ a.OSTCBPrioTbl = s.OSTCBPrioTbl /\ a.flag = s.flag
       /\ a.tcb = s.tcb /\ a.OSRdy = s.OSRdy
       /\ a.ecb = [s.ecb EXCEPT ![e] = [@ EXCEPT !.OSEventCnt = prio]]
  BY <1>2, EcbFields DEF SameSched
<1>21. r = [a EXCEPT !.ecb[e].OSEventPtr = u]
  BY <1>2 DEF OwnBy
<1>22. /\ DOMAIN r = DOMAIN s /\ SameSched(r, s) /\ r.OSTCBPrioTbl = s.OSTCBPrioTbl /\ r.flag = s.flag
       /\ r.tcb = s.tcb /\ r.OSRdy = s.OSRdy
       /\ r.ecb = [a.ecb EXCEPT ![e] = [@ EXCEPT !.OSEventPtr = u]]
  BY <1>20, <1>21, EcbFields DEF SameSched
<1>23. r.ecb = [s.ecb EXCEPT ![e] = c]
  <2>1. DOMAIN s.ecb = Event /\ a.ecb[e] = [s.ecb[e] EXCEPT !.OSEventCnt = prio]
    BY <1>20, EcbFields
  <2>2. c = [a.ecb[e] EXCEPT !.OSEventPtr = u]
    BY <1>1, <2>1, EcbFields
  <2>3. r.ecb = [a.ecb EXCEPT ![e] = c]
    BY <1>22, <2>2
  <2> QED
    BY <1>20, <2>1, <2>3
<1>3. Refilled(s, r, e, c)
  BY <1>22, <1>23 DEF Refilled
<1>4. /\ c.OSEventType = s.ecb[e].OSEventType /\ c.wait = s.ecb[e].wait /\ c.pcp = s.ecb[e].pcp
      /\ c.OSEventCnt = prio /\ c.OSEventPtr = u /\ DOMAIN c = DOMAIN s.ecb[e]
  BY <1>1, EcbFields
<1>5. EcbOK(c)
  BY <1>4, EcbFields DEF EcbOK
<1>6. \A t \in Tcb : Owns(r, f, t)
  <2>1. ASSUME NEW t \in Tcb, Asleep(f, t), f[t].call.op = "MutexPend", WaitsFor(r, t) = NULL,
               r.tcb[t].OSTCBStatPend = "OK"
        PROVE  r.ecb[f[t].call.e].OSEventPtr = t
    <3>1. t \in Task /\ f[t].call.e \in Event
      BY <2>1, WaiterIs
    <3>2. r.tcb = s.tcb /\ TaskOK(s, f, t)
      BY <1>3 DEF Refilled, ListsOK
    <3>3. s.ecb[f[t].call.e].OSEventPtr = t
      BY <2>1, <3>2 DEF TaskOK, Owns, WaitsFor
    <3>4. f[t].call.e # e
      BY <2>1, <3>1, <3>3
    <3>5. r.ecb[f[t].call.e] = s.ecb[f[t].call.e]
      BY <1>3, <3>1, <3>4, EcbFields DEF Refilled
    <3> QED
      BY <3>3, <3>5
  <2> QED
    BY <2>1 DEF Owns
<1>7. /\ ListsOK(r, f)
      /\ \A x \in Event : GrantedIn(r, f, x) = GrantedIn(s, f, x)
      /\ \A x \in Event \ {e} : r.ecb[x] = s.ecb[x]
      /\ r.ecb[e] = c
  BY <1>3, <1>4, <1>5, <1>6, RefilledLists
<1> QED
  BY <1>1, <1>3, <1>4, <1>7 DEF Refilled, Owned

(* Only the mutex e has changed, and with it perhaps the task it was       *)
(* handed to.                                                              *)
OwnerMoves(s, n, f, e) ==
    /\ ListsOK(n, f) /\ SameSched(n, s) /\ \A u \in Tcb : PrioOf(n, u) = PrioOf(s, u)
    /\ \A x \in Event : GrantedIn(n, f, x) = GrantedIn(s, f, x)
    /\ \A x \in Event \ {e} : /\ n.ecb[x].OSEventType = s.ecb[x].OSEventType
                              /\ n.ecb[x].OSEventCnt = s.ecb[x].OSEventCnt
                              /\ n.ecb[x].OSEventPtr = s.ecb[x].OSEventPtr
    /\ s.ecb[e].OSEventType = "MUTEX" /\ n.ecb[e].OSEventType = "MUTEX"

(* A service that moves a mutex gives no permit and no message. *)
LEMMA OwnerServes ==
  ASSUME NEW s, NEW f, ListsOK(s, f), NEW e \in Event, NEW n, OwnerMoves(s, n, f, e),
         NEW r, r.s = n, r.then = "sched" \/ (r.then = "return" /\ n.OSRdy = s.OSRdy),
         NEW c, c.op \in MutexOps
  PROVE  KeepsLists(s, f, r) /\ Gives(s, f, r, c) /\ QueuesMove(r.s, s)
<1>1. SameNames(n, s)
  BY DEF OwnerMoves, SameNames
<1>2. KeepsLists(s, f, r)
  BY <1>1 DEF KeepsLists, OwnerMoves
<1>3. \A x \in Event : Contents(n.ecb[x]) = Contents(s.ecb[x])
  BY DEF OwnerMoves, Contents
<1>4. \A x \in Event : Count(n, f, x) = Count(s, f, x)
  BY <1>3 DEF Count, OwnerMoves
<1>6. Delta(s, c, r) = 0
  BY DEF Delta, MutexOps, Posts, Takes, Flushes
<1>7. Gives(s, f, r, c)
  <2>1. \A x \in Event : Count(n, f, x) = Count(s, f, x) + 0
    BY <1>4, CountIs
  <2> QED
    BY <1>6, <2>1 DEF Gives
<1>8. QueuesMove(n, s)
  BY DEF QueuesMove, RingStays, OwnerMoves
<1> QED
  BY <1>2, <1>7, <1>8

(* Nobody has a mutex that is available, nor anyone but its owner one that *)
(* is not: so the history follows the owner.                               *)
LEMMA OwnerTakes ==
  ASSUME NEW s, NEW f, NEW h, OwnersOK(s, h), NEW e \in Event, NEW n, OwnerMoves(s, n, f, e),
         s.ecb[e].OSEventPtr = NULL, NEW t \in Task, n.ecb[e].OSEventPtr = t
  PROVE  OwnersOK(n, h \cup {<<t, e>>})
<1>1. ASSUME NEW x \in h
      PROVE  /\ x \in Task \X Event
             /\ n.ecb[x[2]].OSEventType = "MUTEX" /\ n.ecb[x[2]].OSEventPtr = x[1]
  <2>1. /\ x \in Task \X Event /\ x[1] \in Task /\ x[2] \in Event
        /\ s.ecb[x[2]].OSEventType = "MUTEX" /\ s.ecb[x[2]].OSEventPtr = x[1]
    BY DEF OwnersOK
  <2>2. x[2] # e
    BY <2>1, KernelAssumption DEF Tcb
  <2> QED
    BY <2>1, <2>2 DEF OwnerMoves
<1>2. <<t, e>> \in Task \X Event /\ n.ecb[e].OSEventType = "MUTEX"
  BY DEF OwnerMoves
<1> QED
  BY <1>1, <1>2 DEF OwnersOK

(* When the owner gives it back, the history says so too.                  *)
LEMMA OwnerGives ==
  ASSUME NEW s, NEW f, NEW h, OwnersOK(s, h), NEW e \in Event, NEW n, OwnerMoves(s, n, f, e),
         NEW t \in Task, s.ecb[e].OSEventPtr = t
  PROVE  OwnersOK(n, h \ {<<t, e>>})
<1>1. ASSUME NEW x \in h, x # <<t, e>>
      PROVE  /\ x \in Task \X Event
             /\ n.ecb[x[2]].OSEventType = "MUTEX" /\ n.ecb[x[2]].OSEventPtr = x[1]
  <2>1. /\ x \in Task \X Event /\ x[1] \in Task /\ x[2] \in Event /\ x = <<x[1], x[2]>>
        /\ s.ecb[x[2]].OSEventType = "MUTEX" /\ s.ecb[x[2]].OSEventPtr = x[1]
    BY DEF OwnersOK
  <2>2. x[2] # e
    BY <1>1, <2>1
  <2> QED
    BY <2>1, <2>2 DEF OwnerMoves
<1> QED
  BY <1>1 DEF OwnersOK

(* What a call for a mutex finds: a mutex without a ceiling, and a task    *)
(* that runs and so is not one that has been handed it in its sleep.       *)
LEMMA MutexEntered ==
  ASSUME NEW s, NEW f, NEW t, NEW c, Entered(s, f, t, c), c.op \in MutexOps
  PROVE  /\ c.e \in Event /\ c.e # NULL /\ s.ecb[c.e].OSEventType = "MUTEX" /\ s.ecb[c.e].pcp = NULL
         /\ s.ecb[c.e].OSEventPtr \in Task \cup {NULL}
         /\ MutexAvailable(s, c.e) => s.ecb[c.e].OSEventPtr = NULL
         /\ ListsOK(s, f) /\ t \in Task /\ s.OSTCBCur = t /\ ~Asleep(f, t)
         /\ PrioOf(s, t) # NULL /\ t # NULL
<1>1. c.e \in Event /\ s.ecb[c.e].OSEventType = "MUTEX"
  <2>1. c.op \in EventOps /\ TypeFor(c.op) = "MUTEX"
    BY DEF EventOps, TypeFor, SemOps, MutexOps, MboxOps
  <2> QED
    BY <2>1, CallIs DEF Entered
<1>2. EcbOK(s.ecb[c.e]) /\ c.e # NULL
  BY <1>1, EcbFields, KernelAssumption DEF Entered
<1>3. ListsOK(s, f) /\ SchedOK(s, f) /\ Running(s, t) /\ ~Asleep(f, t)
  BY DEF Entered, Asleep
<1>4. t \in Task /\ PrioOf(s, t) # NULL /\ s.OSTCBCur = t
  BY <1>3, RunningIs DEF Running
<1> QED
  BY <1>1, <1>2, <1>3, <1>4, KernelAssumption DEF EcbOK, MutexAvailable, Tcb

(* The running task takes a mutex that is available. *)
LEMMA MutexTakes ==
  ASSUME CreditOK(os, frame, credit), OwnersOK(os, held), NEW t, NEW c,
         Entered(os, frame, t, c), c.op \in {"MutexPend", "MutexAccept"}, MutexAvailable(os, c.e),
         NEW r, r = MutexTake(os, c.e), Finish(t, c, r)
  PROVE  KernelStep
<1>1. PICK e, prio, n : e = c.e /\ prio = PrioOf(os, t) /\ n = OwnBy(os, e, t, prio)
  OBVIOUS
<1>2. c.op \in MutexOps
  BY DEF MutexOps
<1>3. /\ e \in Event /\ e # NULL /\ os.ecb[e].OSEventType = "MUTEX" /\ os.ecb[e].pcp = NULL
      /\ os.ecb[e].OSEventPtr = NULL
      /\ ListsOK(os, frame) /\ t \in Task /\ os.OSTCBCur = t /\ prio # NULL /\ t # NULL
  BY <1>1, <1>2, MutexEntered
<1>4. r.s = n /\ r.val = e /\ r.then = "return"
  BY <1>1, <1>3 DEF MutexTake, Return
<1>5. /\ ListsOK(n, frame) /\ SameSched(n, os) /\ n.OSRdy = os.OSRdy /\ n.tcb = os.tcb
      /\ \A x \in Event : GrantedIn(n, frame, x) = GrantedIn(os, frame, x)
      /\ \A x \in Event \ {e} : n.ecb[x] = os.ecb[x]
      /\ n.ecb[e].OSEventType = "MUTEX" /\ n.ecb[e].OSEventPtr = t
  <2>1. \A u \in Task : os.ecb[e].OSEventPtr = u => ~Asleep(frame, u)
    BY <1>3, KernelAssumption DEF Tcb
  <2>2. e \in Event /\ os.ecb[e].OSEventType = "MUTEX" /\ t \in Task \cup {NULL} /\ (prio = NULL => t = NULL)
    BY <1>3
  <2>3. n = OwnBy(os, e, t, prio) /\ ListsOK(os, frame)
    BY <1>1, <1>3
  <2>4. Owned(os, n, frame, e, t, prio)
    BY <2>1, <2>2, <2>3, OwnedLists
  <2> QED
    BY <2>4 DEF Owned
<1>6. OwnerMoves(os, n, frame, e)
  BY <1>3, <1>5 DEF OwnerMoves, PrioOf
<1>7. KeepsLists(os, frame, r) /\ Gives(os, frame, r, c) /\ QueuesMove(r.s, os)
  BY <1>2, <1>3, <1>4, <1>5, <1>6, OwnerServes
<1>8. HeldAfter(t, c, r) = held \cup {<<t, e>>}
  BY <1>1, <1>3, <1>4 DEF HeldAfter
<1>9. OwnersOK(r.s, HeldAfter(t, c, r))
  BY <1>3, <1>4, <1>5, <1>6, <1>8, OwnerTakes
<1> QED
  BY <1>7, <1>9, CallStep

(* A call for a mutex that changes nothing. *)
LEMMA MutexFails ==
  ASSUME CreditOK(os, frame, credit), OwnersOK(os, held), NEW t, NEW c,
         Entered(os, frame, t, c), c.op \in MutexOps,
         NEW r, r.s = os, r.then = "return", HeldAfter(t, c, r) = held, Finish(t, c, r)
  PROVE  KernelStep
<1>1. Delta(os, c, r) = 0
  BY DEF Delta, MutexOps, Posts, Takes, Flushes
<1>2. Keeps(os, frame, r) /\ Gives(os, frame, r, c)
  BY <1>1, NothingChanges DEF Entered
<1>3. KeepsLists(os, frame, r) /\ QueuesMove(r.s, os)
  BY <1>2 DEF Keeps, EventsMove
<1>4. OwnersOK(r.s, HeldAfter(t, c, r))
  OBVIOUS
<1> QED
  BY <1>2, <1>3, <1>4, CallStep

(* OSMutexPend takes the mutex or waits for it: without a ceiling the      *)
(* owner inherits no priority.                                             *)
LEMMA MutexPendStep ==
  ASSUME CreditOK(os, frame, credit), OwnersOK(os, held), NEW t, NEW c,
         Entered(os, frame, t, c), c.op = "MutexPend",
         NEW r, r = OSMutexPend(os, c.e, c.timeout), Finish(t, c, r)
  PROVE  KernelStep
<1>1. CASE MutexAvailable(os, c.e)
  <2>1. r = MutexTake(os, c.e)
    BY <1>1 DEF OSMutexPend
  <2> QED
    BY <1>1, <2>1, MutexTakes
<1>2. CASE ~MutexAvailable(os, c.e)
  <2>1. os.ecb[c.e].pcp = NULL
    BY MutexEntered DEF MutexOps
  <2>2. InheritPriority(os, c.e) = os
    BY <2>1 DEF InheritPriority
  <2>3. r = Pend(os, c.e, "MUTEX", c.timeout)
    BY <1>2, <2>2 DEF OSMutexPend
  <2>4. TypeFor(c.op) = "MUTEX" /\ c.op \in PendOps
    BY DEF TypeFor, SemOps, MutexOps, MboxOps, PendOps
  <2> QED
    BY <2>3, <2>4, PendStep
<1> QED
  BY <1>1, <1>2

(* OSMutexAccept takes the mutex or does nothing. *)
LEMMA MutexAcceptStep ==
  ASSUME CreditOK(os, frame, credit), OwnersOK(os, held), NEW t, NEW c,
         Entered(os, frame, t, c), c.op = "MutexAccept",
         NEW r, r = OSMutexAccept(os, c.e), Finish(t, c, r)
  PROVE  KernelStep
<1>1. CASE MutexAvailable(os, c.e)
  <2>1. r = MutexTake(os, c.e)
    BY <1>1 DEF OSMutexAccept
  <2> QED
    BY <1>1, <2>1, MutexTakes
<1>2. CASE ~MutexAvailable(os, c.e)
  <2>1. r.s = os /\ r.then = "return" /\ r.val = NULL
    BY <1>2 DEF OSMutexAccept, Return
  <2>2. HeldAfter(t, c, r) = held
    BY <2>1 DEF HeldAfter
  <2> QED
    BY <2>1, <2>2, MutexFails DEF MutexOps
<1> QED
  BY <1>1, <1>2

(* Handing a mutex to its highest waiter: the waiter is its owner before   *)
(* it runs.                                                                *)
LEMMA HandedLists ==
  ASSUME NEW s, NEW f, ListsOK(s, f), NEW e \in Event, s.ecb[e].OSEventType = "MUTEX", Waiting(s, e),
         \A t \in Task : s.ecb[e].OSEventPtr = t => ~Asleep(f, t),
         NEW u, u = HighestWaiting(s, e), NEW prio, prio # NULL,
         NEW r, r = OwnBy(OS_EventTaskRdy(s, e, NULL, "MUTEX", "OK"), e, u, prio)
  PROVE  OwnerMoves(s, r, f, e)
<1>1. PICK n : n = OwnBy(s, e, u, prio)
  OBVIOUS
<1>2. u \in Task /\ PrioOf(s, u) \in Prio
  BY HighestWaits
<1>3. /\ ListsOK(n, f) /\ SameSched(n, s) /\ n.OSRdy = s.OSRdy /\ n.tcb = s.tcb
      /\ DOMAIN n = DOMAIN s /\ n.OSTCBPrioTbl = s.OSTCBPrioTbl /\ n.flag = s.flag
      /\ \A x \in Event : GrantedIn(n, f, x) = GrantedIn(s, f, x)
      /\ \A x \in Event \ {e} : n.ecb[x] = s.ecb[x]
      /\ n.ecb[e] = [s.ecb[e] EXCEPT !.OSEventCnt = prio, !.OSEventPtr = u]
      /\ n.ecb[e].OSEventType = "MUTEX" /\ n.ecb[e].OSEventPtr = u /\ n.ecb[e].wait = s.ecb[e].wait
  <2>1. u \in Task \cup {NULL} /\ (prio = NULL => u = NULL)
    BY <1>2
  <2>2. Owned(s, n, f, e, u, prio)
    BY <1>1, <2>1, OwnedLists
  <2> QED
    BY <2>2 DEF Owned
<1>4. PICK w, p, bits : /\ w = OS_EventTaskRdy(s, e, NULL, "MUTEX", "OK") /\ p = PrioOf(s, u)
                        /\ bits = ClearBit(s.ecb[e].wait, p)
  OBVIOUS
<1>5. Woken(s, w, u, e, NULL, "OK")
  <2>1. NULL \in Message \cup {NULL} /\ "OK" \in {"OK", "ABORT"}
    OBVIOUS
  <2> QED
    BY <1>4, <2>1, RdyWakes
<1>6. /\ DOMAIN w = DOMAIN s /\ SameSched(w, s) /\ w.OSTCBPrioTbl = s.OSTCBPrioTbl /\ w.flag = s.flag
      /\ w.tcb = [s.tcb EXCEPT ![u] = Served(s.tcb[u], NULL, "OK")]
      /\ w.OSRdy = ReadyAgain(s, u) /\ w.ecb = [s.ecb EXCEPT ![e].wait = bits]
  BY <1>4, <1>5 DEF Woken, Changed, OffList
<1>7. PICK a : a = [w EXCEPT !.ecb[e].OSEventCnt = prio]
  OBVIOUS
<1>8. r = [a EXCEPT !.ecb[e].OSEventPtr = u]
  BY <1>4, <1>7 DEF OwnBy
<1>9. /\ DOMAIN a = DOMAIN s /\ SameSched(a, s) /\ a.OSTCBPrioTbl = s.OSTCBPrioTbl /\ a.flag = s.flag
      /\ a.tcb = w.tcb /\ a.OSRdy = w.OSRdy
      /\ a.ecb = [w.ecb EXCEPT ![e] = [@ EXCEPT !.OSEventCnt = prio]]
  BY <1>6, <1>7, EcbFields DEF SameSched
<1>10. /\ DOMAIN r = DOMAIN s /\ SameSched(r, s) /\ r.OSTCBPrioTbl = s.OSTCBPrioTbl /\ r.flag = s.flag
       /\ r.tcb = w.tcb /\ r.OSRdy = w.OSRdy
       /\ r.ecb = [a.ecb EXCEPT ![e] = [@ EXCEPT !.OSEventPtr = u]]
  BY <1>8, <1>9, EcbFields DEF SameSched
<1>11. r.ecb = OffList(n, e, p)
  <2>1. DOMAIN s.ecb = Event /\ DOMAIN n.ecb = Event
    BY <1>3, EcbFields
  <2>2. w.ecb[e] = [s.ecb[e] EXCEPT !.wait = bits] /\ DOMAIN w.ecb = Event
    BY <1>6, <2>1
  <2>3. a.ecb[e] = [w.ecb[e] EXCEPT !.OSEventCnt = prio] /\ DOMAIN a.ecb = Event
    BY <1>9, <2>2
  <2>4. r.ecb[e] = [a.ecb[e] EXCEPT !.OSEventPtr = u] /\ DOMAIN r.ecb = Event
    BY <1>10, <2>3
  <2>5. r.ecb[e] = [n.ecb[e] EXCEPT !.wait = bits]
    <3>1. PICK b : b = s.ecb[e]
      OBVIOUS
    <3>2. r.ecb[e] = [[[b EXCEPT !.wait = bits] EXCEPT !.OSEventCnt = prio] EXCEPT !.OSEventPtr = u]
      BY <2>2, <2>3, <2>4, <3>1
    <3>3. n.ecb[e] = [[b EXCEPT !.OSEventCnt = prio] EXCEPT !.OSEventPtr = u]
      BY <1>3, <3>1
    <3>4. DOMAIN b = {"OSEventType", "OSEventCnt", "OSEventPtr", "pcp", "wait"}
      BY <3>1, EcbFields
    <3>5. [[[b EXCEPT !.wait = bits] EXCEPT !.OSEventCnt = prio] EXCEPT !.OSEventPtr = u] =
             [[[b EXCEPT !.OSEventCnt = prio] EXCEPT !.OSEventPtr = u] EXCEPT !.wait = bits]
      BY <3>4
    <3> QED
      BY <3>2, <3>3, <3>5
  <2>6. \A x \in Event \ {e} : r.ecb[x] = n.ecb[x]
    BY <1>3, <1>6, <1>9, <1>10, <2>1
  <2>7. OffList(n, e, p) = [n.ecb EXCEPT ![e] = [@ EXCEPT !.wait = bits]]
    BY <1>3, <1>4, <2>1 DEF OffList
  <2>8. r.ecb = [x \in Event |-> r.ecb[x]]
    BY <1>9, <1>10, <2>4
  <2> QED
    BY <2>1, <2>5, <2>6, <2>7, <2>8
<1>12. HighestWaiting(n, e) = u /\ Waiting(n, e) /\ PrioOf(n, u) = p
  <2>1. n.OSTCBPrioTbl = s.OSTCBPrioTbl /\ n.ecb[e].wait = s.ecb[e].wait /\ n.tcb = s.tcb
    BY <1>3
  <2>2. HighestWaiting(n, e) = HighestWaiting(s, e) /\ (Waiting(n, e) <=> Waiting(s, e))
    BY <2>1 DEF HighestWaiting, Waiting
  <2>3. PrioOf(n, u) = p
    BY <1>4, <2>1 DEF PrioOf
  <2> QED
    BY <2>2, <2>3
<1>13. Woken(n, r, u, e, NULL, "OK")
  <2>1. ReadyAgain(n, u) = ReadyAgain(s, u)
    BY <1>3 DEF ReadyAgain, Stopped, PrioOf
  <2> QED
    BY <1>3, <1>6, <1>10, <1>11, <1>12, <2>1 DEF Woken, Changed, SameSched
<1>14. /\ ListsOK(r, f) /\ GrantedIn(r, f, e) = GrantedIn(n, f, e)
       /\ \A x \in Event \ {e} : GrantedIn(r, f, x) = GrantedIn(n, f, x)
  <2>1. NULL \in Message \cup {NULL} /\ "OK" \in {"OK", "ABORT"}
    OBVIOUS
  <2>2. ListsOK(n, f) /\ n.ecb[e].OSEventType = "MUTEX" /\ n.ecb[e].OSEventPtr = HighestWaiting(n, e)
    BY <1>3, <1>12
  <2>3. Waiting(n, e) /\ Woken(n, r, HighestWaiting(n, e), e, NULL, "OK")
    BY <1>12, <1>13
  <2> QED
    BY <2>1, <2>2, <2>3, WokenLists
<1>15. \A x \in Event : GrantedIn(r, f, x) = GrantedIn(s, f, x)
  BY <1>3, <1>14
<1>16. \A v \in Tcb : PrioOf(r, v) = PrioOf(s, v)
  <2>1. s.tcb[u] \in TcbType /\ u \in Tcb /\ DOMAIN s.tcb = Tcb
    BY <1>2, TcbFields DEF Tcb
  <2>2. Served(s.tcb[u], NULL, "OK").OSTCBPrio = s.tcb[u].OSTCBPrio
    BY <2>1, ServedIs
  <2> QED
    BY <1>6, <1>10, <2>1, <2>2 DEF PrioOf
<1>17. /\ \A x \in Event \ {e} : /\ r.ecb[x].OSEventType = s.ecb[x].OSEventType
                                 /\ r.ecb[x].OSEventCnt = s.ecb[x].OSEventCnt
                                 /\ r.ecb[x].OSEventPtr = s.ecb[x].OSEventPtr
       /\ r.ecb[e].OSEventType = "MUTEX"
  <2>1. ListsOK(n, f) /\ p \in Prio
    BY <1>2, <1>3, <1>4
  <2>2. \A x \in Event : /\ r.ecb[x].OSEventType = n.ecb[x].OSEventType
                         /\ r.ecb[x].OSEventCnt = n.ecb[x].OSEventCnt
                         /\ r.ecb[x].OSEventPtr = n.ecb[x].OSEventPtr
    BY <1>11, <2>1, OffListIs
  <2>3. \A x \in Event \ {e} : n.ecb[x] = s.ecb[x]
    BY <1>3
  <2>4. n.ecb[e].OSEventType = "MUTEX"
    BY <1>3
  <2> QED
    BY <2>2, <2>3, <2>4
<1> QED
  BY <1>10, <1>14, <1>15, <1>16, <1>17 DEF OwnerMoves

(* The owner posts: the mutex goes to its highest waiter, or to nobody.    *)
LEMMA MutexGivesBack ==
  ASSUME CreditOK(os, frame, credit), OwnersOK(os, held), NEW t, NEW c,
         Entered(os, frame, t, c), c.op = "MutexPost", os.ecb[c.e].OSEventPtr = t,
         NEW r, OwnerMoves(os, r.s, frame, c.e), r.err = NONE,
         r.then = "sched" \/ (r.then = "return" /\ r.s.OSRdy = os.OSRdy), Finish(t, c, r)
  PROVE  KernelStep
<1>1. c.e \in Event /\ ListsOK(os, frame) /\ t \in Task /\ c.op \in MutexOps
  BY MutexEntered DEF MutexOps
<1>2. PICK n : n = r.s
  OBVIOUS
<1>3. KeepsLists(os, frame, r) /\ Gives(os, frame, r, c) /\ QueuesMove(r.s, os)
  BY <1>1, <1>2, OwnerServes
<1>4. HeldAfter(t, c, r) = held \ {<<t, c.e>>}
  BY KernelAssumption DEF HeldAfter
<1>5. OwnersOK(n, held \ {<<t, c.e>>})
  BY <1>1, <1>2, OwnerGives
<1> QED
  BY <1>2, <1>3, <1>4, <1>5, CallStep

(* OSMutexPost gives the mutex back, if the task that calls it is the      *)
(* owner; without a ceiling it keeps its priority.                         *)
LEMMA MutexPostStep ==
  ASSUME CreditOK(os, frame, credit), OwnersOK(os, held), NEW t, NEW c,
         Entered(os, frame, t, c), c.op = "MutexPost",
         NEW r, r = OSMutexPost(os, c.e), Finish(t, c, r)
  PROVE  KernelStep
<1>1. PICK e, prio : e = c.e /\ prio = Highest(os.ecb[e].wait)
  OBVIOUS
<1>2. /\ e \in Event /\ os.ecb[e].OSEventType = "MUTEX" /\ os.ecb[e].pcp = NULL
      /\ ListsOK(os, frame) /\ t \in Task /\ os.OSTCBCur = t /\ ~Asleep(frame, t)
  BY <1>1, MutexEntered DEF MutexOps
<1>3. HandBack(os, e) = os
  BY <1>2 DEF HandBack
<1>4. CeilingError(os, e, prio) = NONE
  BY <1>2 DEF CeilingError
<1>5. \A u \in Task : os.ecb[e].OSEventPtr = t /\ os.ecb[e].OSEventPtr = u => ~Asleep(frame, u)
  BY <1>2
<1>6. CASE os.ecb[e].OSEventPtr # t
  <2>1. r = Return(os, "NOT_MUTEX_OWNER")
    BY <1>1, <1>2, <1>6 DEF OSMutexPost
  <2>2. r.s = os /\ r.then = "return" /\ r.err = "NOT_MUTEX_OWNER" /\ r.val = NULL
    BY <2>1 DEF Return
  <2>3. HeldAfter(t, c, r) = held
    BY <2>2 DEF HeldAfter
  <2> QED
    BY <2>2, <2>3, MutexFails, SMTT(30) DEF MutexOps
<1>7. CASE os.ecb[e].OSEventPtr = t /\ Waiting(os, e)
  <2>1. PICK u, n : /\ u = HighestWaiting(os, e)
                    /\ n = OwnBy(OS_EventTaskRdy(os, e, NULL, "MUTEX", "OK"), e, u, prio)
    OBVIOUS
  <2>2. u = os.OSTCBPrioTbl[prio]
    BY <1>1, <2>1, SMTT(30) DEF HighestWaiting
  <2>3. r = ThenSched(n, NONE)
    BY <1>1, <1>2, <1>3, <1>4, <1>7, <2>1, <2>2 DEF OSMutexPost
  <2>4. r.s = n /\ r.then = "sched" /\ r.err = NONE
    BY <2>3 DEF ThenSched
  <2>5. prio # NULL
    BY <1>1, <1>2, <1>7, HighestWaits, KernelAssumption
  <2>6. \A x \in Task : os.ecb[e].OSEventPtr = x => ~Asleep(frame, x)
    BY <1>5, <1>7
  <2>7. OwnerMoves(os, n, frame, e)
    BY <1>2, <1>7, <2>1, <2>5, <2>6, HandedLists
  <2>8. OwnerMoves(os, r.s, frame, c.e) /\ os.ecb[c.e].OSEventPtr = t
    BY <1>1, <1>7, <2>4, <2>7
  <2>9. r.then = "sched" \/ (r.then = "return" /\ r.s.OSRdy = os.OSRdy)
    BY <2>4
  <2>10. r.err = NONE
    BY <2>4
  <2> QED
    BY <2>8, <2>9, <2>10, MutexGivesBack
<1>8. CASE os.ecb[e].OSEventPtr = t /\ ~Waiting(os, e)
  <2>1. PICK n : n = OwnBy(os, e, NULL, NULL)
    OBVIOUS
  <2>2. r = Return(n, NONE)
    BY <1>1, <1>2, <1>3, <1>8, <2>1 DEF OSMutexPost, OwnBy
  <2>3. r.s = n /\ r.then = "return" /\ r.err = NONE
    BY <2>2 DEF Return
  <2>4. NULL \in Task \cup {NULL} /\ \A x \in Task : os.ecb[e].OSEventPtr = x => ~Asleep(frame, x)
    BY <1>5, <1>8
  <2>5. Owned(os, n, frame, e, NULL, NULL)
    BY <1>2, <2>1, <2>4, OwnedLists
  <2>6. OwnerMoves(os, n, frame, e) /\ n.OSRdy = os.OSRdy
    BY <1>2, <2>5 DEF Owned, OwnerMoves, PrioOf
  <2> QED
    BY <1>1, <1>8, <2>3, <2>6, MutexGivesBack
<1> QED
  BY <1>6, <1>7, <1>8

(* The services of mutexes keep the invariant. *)
LEMMA MutexStep ==
  ASSUME Signalling(scenario), scenario \in Scenarios, KernelInv, NEW t \in Task, MutexCall(t)
  PROVE  KernelStep
<1>1. CreditOK(os, frame, credit) /\ OwnersOK(os, held)
  BY DEF KernelInv
<1>2. ASSUME NEW op, NEW c \in Calls(t, op), Enters(t, c)
      PROVE  c.op = op /\ op \in PlainOps /\ Entered(os, frame, t, c)
  BY <1>2, EntersIs, PlainIs DEF Calls, Entered
<1>3. CASE MutexPend(t)
  <2>1. PICK c \in Calls(t, "MutexPend") : Service(t, c, OSMutexPend(os, c.e, c.timeout))
    BY <1>3 DEF MutexPend
  <2>2. PICK r : r = OSMutexPend(os, c.e, c.timeout)
    OBVIOUS
  <2>3. Enters(t, c) /\ Finish(t, c, r)
    BY <2>1, <2>2 DEF Service
  <2> QED
    BY <1>1, <1>2, <2>2, <2>3, MutexPendStep
<1>4. CASE MutexAccept(t)
  <2>1. PICK c \in Calls(t, "MutexAccept") : Service(t, c, OSMutexAccept(os, c.e))
    BY <1>4 DEF MutexAccept
  <2>2. PICK r : r = OSMutexAccept(os, c.e)
    OBVIOUS
  <2>3. Enters(t, c) /\ Finish(t, c, r)
    BY <2>1, <2>2 DEF Service
  <2> QED
    BY <1>1, <1>2, <2>2, <2>3, MutexAcceptStep
<1>5. CASE MutexPost(t)
  <2>1. PICK c \in Calls(t, "MutexPost") : Service(t, c, OSMutexPost(os, c.e))
    BY <1>5 DEF MutexPost
  <2>2. PICK r : r = OSMutexPost(os, c.e)
    OBVIOUS
  <2>3. Enters(t, c) /\ Finish(t, c, r)
    BY <2>1, <2>2 DEF Service
  <2> QED
    BY <1>1, <1>2, <2>2, <2>3, MutexPostStep
<1>6. ~MutexDel(t) /\ ~MutexCreate(t)
  <2>1. "MutexDel" \notin PlainOps /\ "MutexCreate" \notin PlainOps
    BY DEF PlainOps
  <2> QED
    BY <1>2, <2>1 DEF MutexDel, MutexCreate, Service
<1> QED
  BY <1>3, <1>4, <1>5, <1>6 DEF MutexCall

(* A task that has waited for a mutex goes on: if the mutex was handed to  *)
(* it, it is the owner since.                                              *)
LEMMA MutexReturnStep ==
  ASSUME KernelInv, NEW t \in Task, MutexPendReturn(t)
  PROVE  KernelStep
<1>1. PICK c, e, g, r, d : /\ c = frame[t].call /\ e = c.e /\ g = PutFrame(frame, t, App)
                           /\ d = PendReturn(os, e) /\ r = OSMutexPendReturn(os, e)
  OBVIOUS
<1>2. Resumes(t, "MutexPend", r)
  BY <1>1 DEF MutexPendReturn
<1>3. /\ ListsOK(os, frame) /\ SchedOK(os, frame) /\ CreditOK(os, frame, credit) /\ OwnersOK(os, held)
      /\ Running(os, t) /\ frame[t].at = "resume" /\ c.op = "MutexPend"
  BY <1>1, <1>2 DEF KernelInv, Resumes, Runs, Running
<1>4. /\ t \in Tcb /\ os.OSTCBCur = t /\ PrioOf(os, t) = os.OSPrioCur /\ os.OSRunning /\ ~os.msip
      /\ os.OSIntNesting = 0 /\ TaskOK(os, frame, t) /\ Asleep(frame, t)
  BY <1>3, RunningIs DEF Running, Asleep
<1>5. e \in Event /\ e # NULL /\ os.ecb[e].OSEventType = "MUTEX"
  <2>1. e \in Event /\ os.ecb[e].OSEventType = TypeFor(c.op)
    BY <1>1, <1>3, <1>4, WaiterIs
  <2>2. TypeFor(c.op) = "MUTEX"
    BY <1>3 DEF TypeFor, SemOps, MutexOps, MboxOps
  <2> QED
    BY <2>1, <2>2, KernelAssumption
<1>6. PICK n, stat : n = d.s /\ stat = os.tcb[t].OSTCBStatPend
  OBVIOUS
<1>7. /\ ListsOK(n, g) /\ SameSched(n, os) /\ n.OSRdy = os.OSRdy /\ SameContents(n, os)
      /\ PrioOf(n, t) = PrioOf(os, t) /\ os.OSLockNesting = 0
      /\ GivenUp(n, g, os, frame, t, e)
      /\ stat = "OK" => WaitsFor(os, t) = NULL
  <2>1. e = frame[t].call.e /\ n = PendReturn(os, e).s
    BY <1>1, <1>6
  <2> QED
    BY <1>1, <1>3, <1>6, <2>1, ReturnLists
<1>8. \A x \in Event : GrantedIn(n, g, x) = GrantedIn(os, frame, x)
  <2>1. \A x \in Event : t \notin GrantedIn(os, frame, x)
    BY <1>1, <1>3 DEF GrantedIn
  <2> QED
    BY <1>7, <2>1 DEF GivenUp
<1>9. CreditOK(n, g, credit)
  <2>1. \A x \in Event : Count(n, g, x) = Count(os, frame, x)
    BY <1>7, <1>8, ContentsSame DEF Count, SameContentsIs
  <2> QED
    BY <1>3, <2>1 DEF CreditOK
<1>10. g[t] = App
  BY <1>1, <1>3, <1>4 DEF ListsOK, FrameOK, PutFrame
<1>11. SchedOK(n, g)
  <2>1. os.OSPrioCur = Highest(os.OSRdy)
    BY <1>3, <1>7, CurReady
  <2> QED
    BY <1>4, <1>7, <1>10, <2>1 DEF SchedOK, SameSched, App
<1>12. EventsMove(n, os)
  BY <1>7, QueuesStay
<1>13. r.s = n /\ r.val = IF stat = "OK" THEN e ELSE NULL
  <2>1. stat \in {"OK", "ABORT", "TO"}
    BY <1>3, <1>4, <1>6, TcbFields DEF TcbType
  <2>2. d.err = NONE <=> stat = "OK"
    BY <1>1, <1>4, <1>6, <2>1, KernelAssumption DEF PendReturn
  <2>3. r = [d EXCEPT !.val = IF d.err = NONE THEN e ELSE NULL]
    BY <1>1 DEF OSMutexPendReturn
  <2>4. DOMAIN d = {"s", "err", "val", "then"}
    BY <1>1 DEF PendReturn
  <2> QED
    BY <1>6, <2>2, <2>3, <2>4
<1>14. OwnersOK(n, HeldAfter(t, c, r))
  <2>1. OwnersOK(n, held)
    BY <1>3, <1>12, OwnersKept
  <2>2. CASE stat = "OK"
    <3>1. HeldAfter(t, c, r) = held \cup {<<t, e>>}
      BY <1>1, <1>3, <1>5, <1>13, <2>2 DEF HeldAfter
    <3>2. os.ecb[e].OSEventPtr = t
      BY <1>1, <1>3, <1>4, <1>6, <1>7, <2>2 DEF TaskOK, Owns
    <3>3. n.ecb[e].OSEventType = "MUTEX" /\ n.ecb[e].OSEventPtr = t
      BY <1>5, <1>12, <3>2 DEF EventsMove, QueuesMove, OwnersStay
    <3>4. <<t, e>> \in Task \X Event
      BY <1>5
    <3> QED
      BY <2>1, <3>1, <3>3, <3>4 DEF OwnersOK
  <2>3. CASE stat # "OK"
    <3>1. HeldAfter(t, c, r) = held
      BY <1>3, <1>13, <2>3 DEF HeldAfter
    <3> QED
      BY <2>1, <3>1
  <2> QED
    BY <2>2, <2>3
<1>15. CreditAfter(os, c, r) = credit
  BY <1>3 DEF CreditAfter, Posts, Takes
<1>16. /\ os' = n /\ frame' = g /\ credit' = credit /\ held' = HeldAfter(t, c, r)
  BY <1>1, <1>2, <1>13, <1>15 DEF Resumes, PutFrame
<1> QED
  BY <1>7, <1>9, <1>11, <1>12, <1>14, <1>16 DEF KernelInv, KernelStep, EventsMove

(* Tasks of a signalling scenario make no calls for flags. *)
LEMMA NoFlagStep ==
  ASSUME Signalling(scenario), scenario \in Scenarios, KernelInv, NEW t \in Task
  PROVE  ~FlagCall(t)
<1>1. CreditOK(os, frame, credit)
  BY DEF KernelInv
<1>2. ASSUME NEW op, NEW c \in Calls(t, op), Enters(t, c)
      PROVE  /\ c.op = op /\ op \in PlainOps /\ c \in PlainCall
             /\ Entered(os, frame, t, c) /\ ListsOK(os, frame) /\ CallOK(os, c)
  BY <1>2, EntersIs, PlainIs DEF Calls, Entered
<1>3. ~FlagPend(t) /\ ~FlagAccept(t) /\ ~FlagPost(t) /\ ~FlagDel(t) /\ ~FlagCreate(t)
  <2>1. "FlagPend" \notin PlainOps /\ "FlagAccept" \notin PlainOps /\ "FlagPost" \notin PlainOps /\ "FlagDel" \notin PlainOps /\ "FlagCreate" \notin PlainOps
    BY DEF PlainOps
  <2> QED
    BY <1>2, <2>1 DEF FlagPend, FlagAccept, FlagPost, FlagDel, FlagCreate, Service
<1> QED
  BY <1>3 DEF FlagCall

-----------------------------------------------------------------------------
(* The scheduler. *)

(* Everything the kernel's own steps leave alone. *)
SameCounts(n, s, f) == \A x \in Event : Count(n, f, x) = Count(s, f, x)

(* What OS_Sched and the end of an interrupt find the highest task to be.  *)
LEMMA SwitchIs ==
  ASSUME NEW s, NEW f, ListsOK(s, f), NEW n, n = SwitchToHighest(s)
  PROVE  /\ SameLists(n, s) /\ SchedTypes(n)
         /\ n.OSRunning = s.OSRunning /\ n.OSIntNesting = s.OSIntNesting
         /\ n.OSLockNesting = s.OSLockNesting
         /\ n.OSPrioCur = s.OSPrioCur /\ n.OSTCBCur = s.OSTCBCur
         /\ n.OSPrioHighRdy = Highest(s.OSRdy)
         /\ n.OSTCBHighRdy = s.OSTCBPrioTbl[Highest(s.OSRdy)]
         /\ n.msip \in BOOLEAN /\ (n.msip <=> s.msip \/ Highest(s.OSRdy) # s.OSPrioCur)
<1>1. KernelType(s)
  BY DEF ListsOK
<1>2. PICK h, a : h = Highest(s.OSRdy) /\ a = [s EXCEPT !.OSPrioHighRdy = h]
  OBVIOUS
<1>3. h \in Prio /\ s.OSTCBPrioTbl[h] \in Tcb
  BY <1>2, HighestReady
<1>4. /\ DOMAIN a = DOMAIN s /\ a.OSRdy = s.OSRdy /\ a.OSTCBPrioTbl = s.OSTCBPrioTbl
      /\ a.tcb = s.tcb /\ a.ecb = s.ecb
      /\ a.OSRunning = s.OSRunning /\ a.OSIntNesting = s.OSIntNesting
      /\ a.OSLockNesting = s.OSLockNesting /\ a.msip = s.msip
      /\ a.OSPrioCur = s.OSPrioCur /\ a.OSTCBCur = s.OSTCBCur
      /\ a.OSPrioHighRdy = h /\ a.OSTCBHighRdy = s.OSTCBHighRdy
  BY <1>1, <1>2 DEF KernelType
<1>5. PICK b, m : /\ b = [a EXCEPT !.OSTCBHighRdy = s.OSTCBPrioTbl[h]]
                  /\ m = (s.msip \/ h # s.OSPrioCur)
  OBVIOUS
<1>6. m \in BOOLEAN /\ (m <=> s.msip \/ h # s.OSPrioCur)
  BY <1>5
<1>7. n = [a EXCEPT !.OSTCBHighRdy = s.OSTCBPrioTbl[h], !.msip = m]
  <2>1. n = [a EXCEPT !.OSTCBHighRdy = a.OSTCBPrioTbl[a.OSPrioHighRdy],
                      !.msip = @ \/ a.OSPrioHighRdy # a.OSPrioCur]
    BY <1>2 DEF SwitchToHighest, OS_SchedNew
  <2> QED
    BY <1>4, <1>5, <2>1
<1>8. /\ DOMAIN n = DOMAIN s /\ n.OSRdy = s.OSRdy /\ n.OSTCBPrioTbl = s.OSTCBPrioTbl
      /\ n.tcb = s.tcb /\ n.ecb = s.ecb
      /\ n.OSRunning = s.OSRunning /\ n.OSIntNesting = s.OSIntNesting
      /\ n.OSLockNesting = s.OSLockNesting /\ n.msip = m
      /\ n.OSPrioCur = s.OSPrioCur /\ n.OSTCBCur = s.OSTCBCur
      /\ n.OSPrioHighRdy = h /\ n.OSTCBHighRdy = s.OSTCBPrioTbl[h]
  BY <1>1, <1>4, <1>7 DEF KernelType
<1>9. SameLists(n, s)
  BY <1>8 DEF SameLists
<1>10. SchedTypes(n)
  BY <1>1, <1>3, <1>6, <1>8 DEF SchedTypes, KernelType
<1> QED
  BY <1>2, <1>6, <1>8, <1>9, <1>10

-----------------------------------------------------------------------------
(* A task that is due to call OS_Sched calls it. *)

(* A task that is due to call OS_Sched calls it, and the invariant stays   *)
(* true.                                                                   *)
LEMMA SchedStep ==
  ASSUME KernelInv, NEW t \in Task, Sched(t)
  PROVE  KernelStep
<1>1. /\ ListsOK(os, frame) /\ SchedOK(os, frame) /\ CreditOK(os, frame, credit)
      /\ Running(os, t) /\ frame[t].at \in {"sched", "block"}
  BY DEF KernelInv, Sched, Runs, Running
<1>2. /\ t \in Tcb /\ PrioOf(os, t) # NULL /\ PrioOf(os, t) = os.OSPrioCur
      /\ os.OSIntNesting = 0 /\ os.OSRunning /\ ~os.msip /\ os.OSTCBCur = t
  BY <1>1, RunningIs DEF Running
<1>3. KernelType(os) /\ FrameOK(os, frame) /\ DOMAIN frame = Tcb /\ os.OSLockNesting \in 0 .. 1
  BY <1>1 DEF ListsOK, FrameOK, KernelType
<1>4. PICK n : n = OS_Sched(os)
  OBVIOUS
<1>5. /\ ListsOK(n, frame) /\ SameCounts(n, os, frame) /\ n.ecb = os.ecb
      /\ n.OSRunning /\ n.OSIntNesting = 0 /\ n.OSLockNesting = os.OSLockNesting
      /\ n.OSPrioCur = os.OSPrioCur /\ n.OSTCBCur = t /\ PrioOf(n, t) = n.OSPrioCur
      /\ n.msip => n.OSLockNesting = 0 /\ n.OSPrioHighRdy = Highest(n.OSRdy)
                   /\ n.OSTCBHighRdy = n.OSTCBPrioTbl[n.OSPrioHighRdy]
      /\ ~n.msip /\ n.OSLockNesting = 0 => n.OSPrioCur = Highest(n.OSRdy)
  <2>1. CASE os.OSLockNesting = 0
    <3>1. n = SwitchToHighest(os)
      BY <1>2, <1>4, <2>1 DEF OS_Sched
    <3>2. /\ SameLists(n, os) /\ SchedTypes(n)
          /\ n.OSRunning = os.OSRunning /\ n.OSIntNesting = os.OSIntNesting
          /\ n.OSLockNesting = os.OSLockNesting
          /\ n.OSPrioCur = os.OSPrioCur /\ n.OSTCBCur = os.OSTCBCur
          /\ n.OSPrioHighRdy = Highest(os.OSRdy)
          /\ n.OSTCBHighRdy = os.OSTCBPrioTbl[Highest(os.OSRdy)]
          /\ n.msip \in BOOLEAN /\ (n.msip <=> os.msip \/ Highest(os.OSRdy) # os.OSPrioCur)
      BY <1>1, <3>1, SwitchIs
    <3>3. ListsOK(n, frame) /\ SameCounts(n, os, frame)
      BY <1>1, <3>2, SchedLists DEF SameCounts
    <3> QED
      BY <1>2, <2>1, <3>2, <3>3 DEF SameLists, PrioOf
  <2>2. CASE os.OSLockNesting # 0
    <3>1. n = os
      BY <1>4, <2>2 DEF OS_Sched
    <3> QED
      BY <1>1, <1>2, <2>2, <3>1 DEF SameCounts
  <2> QED
    BY <2>1, <2>2
<1>6. PICK at, g : /\ at = IF frame[t].at = "sched" THEN App ELSE [frame[t] EXCEPT !.at = "resume"]
                   /\ g = PutFrame(frame, t, at)
  OBVIOUS
<1>7. frame[t] \in [at : {"enter", "sched", "block", "resume"}, call : PlainCall] /\ CallOK(os, frame[t].call)
  BY <1>1, <1>2, <1>3 DEF FrameOK, App
<1>8. g[t] = at /\ DOMAIN g = Tcb /\ \A u \in Tcb \ {t} : g[u] = frame[u]
  BY <1>2, <1>3, <1>6 DEF PutFrame
<1>9. /\ FramesBut(t, g, frame) /\ (Asleep(g, t) <=> Asleep(frame, t))
      /\ Asleep(frame, t) => g[t].call = frame[t].call
      /\ g[t].at \notin {"sched", "block", "enter"}
      /\ Asleep(g, t) => frame[t].at = "block"
  <2>1. CASE frame[t].at = "sched"
    BY <1>6, <1>8, <2>1 DEF FramesBut, Asleep, App
  <2>2. CASE frame[t].at = "block"
    <3>1. at.at = "resume" /\ at.call = frame[t].call
      BY <1>6, <1>7, <2>2
    <3> QED
      BY <1>8, <2>2, <3>1 DEF FramesBut, Asleep
  <2> QED
    BY <1>1, <2>1, <2>2
<1>10. FrameAt(n, g, t)
  <2>1. CASE frame[t].at = "sched"
    BY <1>6, <1>8, <2>1 DEF FrameAt
  <2>2. CASE frame[t].at = "block"
    <3>1. at = [frame[t] EXCEPT !.at = "resume"]
      BY <1>6, <2>2
    <3>2. at \in [at : {"enter", "sched", "block", "resume"}, call : PlainCall] /\ at.call = frame[t].call
      BY <1>7, <3>1
    <3>3. frame[t].call.op \in PendOps
      BY <1>2, <1>3, <2>2 DEF FrameOK, Asleep
    <3>4. CallOK(n, frame[t].call)
      <4>1. FrameOK(n, frame) /\ frame[t] # App
        BY <1>5, <2>2 DEF ListsOK, App
      <4> QED
        BY <1>2, <4>1 DEF FrameOK
    <3> QED
      BY <1>8, <3>2, <3>3, <3>4 DEF FrameAt
  <2> QED
    BY <1>1, <2>1, <2>2
<1>11. ListsOK(n, g) /\ \A x \in Event : GrantedIn(n, g, x) = GrantedIn(n, frame, x)
  <2>1. PrioOf(n, t) # NULL
    BY <1>2, <1>5
  <2> QED
    BY <1>5, <1>9, <1>10, <2>1, FrameLists
<1>12. SchedOK(n, g)
  <2>1. n.OSLockNesting > 0 => ~Asleep(g, t)
    <3>1. os.OSLockNesting > 0 => ~Asleep(frame, t)
      BY <1>1, <1>2 DEF SchedOK
    <3> QED
      BY <1>5, <1>9, <3>1
  <2> QED
    BY <1>2, <1>5, <1>9, <2>1 DEF SchedOK
<1>13. CreditOK(n, g, credit)
  BY <1>1, <1>5, <1>11 DEF CreditOK, Count, SameCounts
<1>14. os' = n /\ frame' = g /\ credit' = credit /\ held' = held
  BY <1>4, <1>6 DEF Sched, PutFrame
<1>15. QueuesMove(n, os) /\ OwnersOK(n, held)
  BY <1>5, EventsSame DEF KernelInv
<1> QED
  BY <1>11, <1>12, <1>13, <1>14, <1>15 DEF KernelInv, KernelStep

-----------------------------------------------------------------------------
(* The checks of a service on their own. *)

(* The checks of a service, as a step of their own, keep the invariant. *)
LEMMA CheckStep ==
  ASSUME Signalling(scenario), scenario \in Scenarios, KernelInv, NEW t \in Task, Check(t)
  PROVE  KernelStep
<1>1. /\ ListsOK(os, frame) /\ SchedOK(os, frame) /\ CreditOK(os, frame, credit)
      /\ Running(os, t) /\ frame[t].at = "app"
  BY DEF KernelInv, Check, Runs, Running
<1>2. PICK c \in Setup[scenario].calls[t] :
          /\ Sensible(t, c) /\ Refused(os, c) = NONE
          /\ frame' = [frame EXCEPT ![t] = [at |-> "enter", call |-> c]]
  BY DEF Check
<1>3. c \in PlainCall
  BY DEF Signalling
<1>4. /\ t \in Tcb /\ PrioOf(os, t) # NULL /\ PrioOf(os, t) = os.OSPrioCur
      /\ os.OSIntNesting = 0 /\ os.OSRunning /\ ~os.msip /\ os.OSTCBCur = t
  BY <1>1, RunningIs DEF Running
<1>5. DOMAIN frame = Tcb /\ os.OSLockNesting \in 0 .. 1
  BY <1>1 DEF ListsOK, FrameOK, KernelType
<1>6. CallOK(os, c) /\ (c.op \in UnlockedOps => ~(os.OSLockNesting > 0))
  BY <1>2, <1>3, <1>5, RefusedNot DEF UnlockedOps, Sensible
<1>7. PICK g : g = PutFrame(frame, t, [at |-> "enter", call |-> c])
  OBVIOUS
<1>8. g[t] = [at |-> "enter", call |-> c] /\ DOMAIN g = Tcb /\ \A u \in Tcb \ {t} : g[u] = frame[u]
  BY <1>4, <1>5, <1>7 DEF PutFrame
<1>9. FramesBut(t, g, frame) /\ FrameAt(os, g, t) /\ ~Asleep(g, t) /\ ~Asleep(frame, t)
  BY <1>1, <1>3, <1>6, <1>8 DEF FramesBut, FrameAt, Asleep
<1>10. ListsOK(os, g) /\ \A x \in Event : GrantedIn(os, g, x) = GrantedIn(os, frame, x)
  BY <1>1, <1>4, <1>9, FrameLists
<1>11. SchedOK(os, g)
  BY <1>1, <1>4, <1>6, <1>8, <1>9 DEF SchedOK
<1>12. CreditOK(os, g, credit)
  BY <1>1, <1>10 DEF CreditOK, Count
<1>13. os' = os /\ frame' = g /\ credit' = credit /\ held' = held
  BY <1>2, <1>7 DEF Check, PutFrame
<1>14. QueuesMove(os, os) /\ OwnersOK(os, held)
  BY EventsSame DEF KernelInv
<1> QED
  BY <1>10, <1>11, <1>12, <1>13, <1>14 DEF KernelInv, KernelStep

(* The software interrupt makes the highest task the running one. *)
LEMMA SwitchStep ==
  ASSUME KernelInv, Switch
  PROVE  KernelStep
<1>1. /\ ListsOK(os, frame) /\ SchedOK(os, frame) /\ CreditOK(os, frame, credit) /\ os.msip
  BY DEF KernelInv, Switch
<1>2. KernelType(os)
  BY <1>1 DEF ListsOK
<1>3. PICK h, n : h = Highest(os.OSRdy) /\ n = ContextSwitch(os)
  OBVIOUS
<1>4. /\ os.OSRunning /\ os.OSLockNesting = 0 /\ os.OSIntNesting = 0
      /\ os.OSPrioHighRdy = h /\ os.OSTCBHighRdy = os.OSTCBPrioTbl[h]
  BY <1>1, <1>3 DEF SchedOK
<1>5. h \in Prio /\ os.OSTCBPrioTbl[h] \in Tcb /\ PrioOf(os, os.OSTCBPrioTbl[h]) = h
  BY <1>1, <1>3, HighestReady
<1>6. /\ DOMAIN n = DOMAIN os /\ n.OSRdy = os.OSRdy /\ n.OSTCBPrioTbl = os.OSTCBPrioTbl
      /\ n.tcb = os.tcb /\ n.ecb = os.ecb
      /\ n.OSRunning = os.OSRunning /\ n.OSIntNesting = os.OSIntNesting
      /\ n.OSLockNesting = os.OSLockNesting /\ n.msip = FALSE
      /\ n.OSPrioCur = os.OSPrioHighRdy /\ n.OSTCBCur = os.OSTCBHighRdy
      /\ n.OSPrioHighRdy = os.OSPrioHighRdy /\ n.OSTCBHighRdy = os.OSTCBHighRdy
  BY <1>2, <1>3 DEF KernelType, ContextSwitch
<1>7. SameLists(n, os) /\ SchedTypes(n)
  BY <1>2, <1>4, <1>5, <1>6 DEF SameLists, SchedTypes, KernelType
<1>8. ListsOK(n, frame) /\ \A x \in Event : Count(n, frame, x) = Count(os, frame, x)
  BY <1>1, <1>7, SchedLists
<1>9. SchedOK(n, frame)
  <2>1. PrioOf(n, n.OSTCBCur) = n.OSPrioCur
    BY <1>4, <1>5, <1>6 DEF PrioOf
  <2>2. n.OSPrioCur = Highest(n.OSRdy) /\ n.OSTCBCur \in Tcb
    BY <1>3, <1>4, <1>5, <1>6
  <2> QED
    BY <1>4, <1>6, <2>1, <2>2 DEF SchedOK
<1>10. CreditOK(n, frame, credit)
  BY <1>1, <1>8 DEF CreditOK
<1>11. os' = n /\ frame' = frame /\ credit' = credit /\ held' = held
  BY <1>3 DEF Switch
<1>12. QueuesMove(n, os) /\ OwnersOK(n, held)
  BY <1>6, EventsSame DEF KernelInv
<1> QED
  BY <1>8, <1>9, <1>10, <1>11, <1>12 DEF KernelInv, KernelStep

(* OSStart makes it the first one. *)
LEMMA StartStep ==
  ASSUME KernelInv, OS_Start
  PROVE  KernelStep
<1>1. /\ ListsOK(os, frame) /\ SchedOK(os, frame) /\ CreditOK(os, frame, credit) /\ ~os.OSRunning
  BY DEF KernelInv, OS_Start
<1>2. KernelType(os)
  BY <1>1 DEF ListsOK
<1>3. PICK h, a, n : h = Highest(os.OSRdy) /\ a = [os EXCEPT !.OSPrioHighRdy = h] /\ n = OSStart(os)
  OBVIOUS
<1>4. /\ os.OSLockNesting = 0 /\ os.OSIntNesting = 0 /\ ~os.msip /\ frame = [t \in Tcb |-> App]
  BY <1>1 DEF SchedOK
<1>5. h \in Prio /\ os.OSTCBPrioTbl[h] \in Tcb /\ PrioOf(os, os.OSTCBPrioTbl[h]) = h
  BY <1>1, <1>3, HighestReady
<1>6. a.OSPrioHighRdy = h /\ a.OSTCBPrioTbl = os.OSTCBPrioTbl
  BY <1>2, <1>3 DEF KernelType
<1>7. n = [a EXCEPT !.OSPrioCur = h, !.OSTCBHighRdy = os.OSTCBPrioTbl[h],
                    !.OSTCBCur = os.OSTCBPrioTbl[h], !.OSRunning = TRUE]
  <2>1. n = [a EXCEPT !.OSPrioCur = a.OSPrioHighRdy, !.OSTCBHighRdy = a.OSTCBPrioTbl[a.OSPrioHighRdy],
                      !.OSTCBCur = a.OSTCBPrioTbl[a.OSPrioHighRdy], !.OSRunning = TRUE]
    BY <1>3 DEF OSStart, OS_SchedNew
  <2> QED
    BY <1>6, <2>1
<1>8. /\ DOMAIN n = DOMAIN os /\ n.OSRdy = os.OSRdy /\ n.OSTCBPrioTbl = os.OSTCBPrioTbl
      /\ n.tcb = os.tcb /\ n.ecb = os.ecb
      /\ n.OSRunning = TRUE /\ n.OSIntNesting = os.OSIntNesting
      /\ n.OSLockNesting = os.OSLockNesting /\ n.msip = os.msip
      /\ n.OSPrioCur = h /\ n.OSTCBCur = os.OSTCBPrioTbl[h]
      /\ n.OSPrioHighRdy = h /\ n.OSTCBHighRdy = os.OSTCBPrioTbl[h]
  BY <1>2, <1>3, <1>7 DEF KernelType
<1>9. SameLists(n, os) /\ SchedTypes(n)
  BY <1>2, <1>5, <1>8 DEF SameLists, SchedTypes, KernelType
<1>10. ListsOK(n, frame) /\ \A x \in Event : Count(n, frame, x) = Count(os, frame, x)
  BY <1>1, <1>9, SchedLists
<1>11. SchedOK(n, frame)
  <2>1. PrioOf(n, n.OSTCBCur) = n.OSPrioCur /\ n.OSPrioCur = Highest(n.OSRdy) /\ n.OSTCBCur \in Tcb
    BY <1>3, <1>5, <1>8 DEF PrioOf
  <2> QED
    BY <1>4, <1>8, <2>1 DEF SchedOK
<1>12. CreditOK(n, frame, credit)
  BY <1>1, <1>10 DEF CreditOK
<1>13. os' = n /\ frame' = frame /\ credit' = credit /\ held' = held
  BY <1>3 DEF OS_Start
<1>14. QueuesMove(n, os) /\ OwnersOK(n, held)
  BY <1>8, EventsSame DEF KernelInv
<1> QED
  BY <1>10, <1>11, <1>12, <1>13, <1>14 DEF KernelInv, KernelStep

-----------------------------------------------------------------------------
(* An interrupt enters, and its handler runs.                              *)

(* An interrupt handler starts from lists that are right, one level up. *)
LEMMA EntersIsr ==
  ASSUME ListsOK(os, frame), SchedOK(os, frame), os.OSRunning, NEW s, s = OSIntEnter(os)
  PROVE  /\ ListsOK(s, frame) /\ SameCounts(s, os, frame)
         /\ s.ecb = os.ecb /\ s.OSRdy = os.OSRdy /\ s.tcb = os.tcb
         /\ s.OSRunning /\ s.OSIntNesting = 1 /\ s.OSLockNesting = os.OSLockNesting
         /\ s.OSPrioCur = os.OSPrioCur /\ s.OSTCBCur = os.OSTCBCur /\ s.msip = os.msip
<1>1. KernelType(os) /\ os.OSIntNesting = 0
  BY DEF ListsOK, SchedOK
<1>2. s = [os EXCEPT !.OSIntNesting = 1]
  BY <1>1 DEF OSIntEnter
<1>3. /\ DOMAIN s = DOMAIN os /\ s.OSRdy = os.OSRdy /\ s.OSTCBPrioTbl = os.OSTCBPrioTbl
      /\ s.tcb = os.tcb /\ s.ecb = os.ecb
      /\ s.OSRunning = os.OSRunning /\ s.OSIntNesting = 1
      /\ s.OSLockNesting = os.OSLockNesting /\ s.msip = os.msip
      /\ s.OSPrioCur = os.OSPrioCur /\ s.OSTCBCur = os.OSTCBCur
      /\ s.OSPrioHighRdy = os.OSPrioHighRdy /\ s.OSTCBHighRdy = os.OSTCBHighRdy
  BY <1>1, <1>2 DEF KernelType
<1>4. SameLists(s, os) /\ SchedTypes(s)
  BY <1>1, <1>3 DEF SameLists, SchedTypes, KernelType
<1> QED
  BY <1>3, <1>4, SchedLists DEF SameCounts

(* A handler that leaves the lists right leaves, by OSIntExit, the         *)
(* scheduler right.                                                        *)
LEMMA LeavesIsr ==
  ASSUME SchedOK(os, frame), os.OSRunning, ListsOK(os, frame),
         NEW m, ListsOK(m, frame), m.OSRunning, m.OSIntNesting = 1, m.OSLockNesting = os.OSLockNesting,
         m.OSPrioCur = os.OSPrioCur, m.OSTCBCur = os.OSTCBCur, m.msip = os.msip,
         \A u \in Tcb : PrioOf(m, u) = PrioOf(os, u),
         NEW x, x = OSIntExit(m)
  PROVE  ListsOK(x, frame) /\ SchedOK(x, frame) /\ SameCounts(x, m, frame) /\ x.ecb = m.ecb
<1>1. KernelType(m)
  BY DEF ListsOK
<1>2. PICK n : n = [m EXCEPT !.OSIntNesting = 0]
  OBVIOUS
<1>3. /\ DOMAIN n = DOMAIN m /\ n.OSRdy = m.OSRdy /\ n.OSTCBPrioTbl = m.OSTCBPrioTbl
      /\ n.tcb = m.tcb /\ n.ecb = m.ecb
      /\ n.OSRunning = m.OSRunning /\ n.OSIntNesting = 0
      /\ n.OSLockNesting = m.OSLockNesting /\ n.msip = m.msip
      /\ n.OSPrioCur = m.OSPrioCur /\ n.OSTCBCur = m.OSTCBCur
      /\ n.OSPrioHighRdy = m.OSPrioHighRdy /\ n.OSTCBHighRdy = m.OSTCBHighRdy
  BY <1>1, <1>2 DEF KernelType
<1>4. SameLists(n, m) /\ SchedTypes(n)
  BY <1>1, <1>3 DEF SameLists, SchedTypes, KernelType
<1>5. ListsOK(n, frame) /\ SameCounts(n, m, frame)
  BY <1>4, SchedLists DEF SameCounts
<1>6. x = IF n.OSLockNesting = 0 THEN SwitchToHighest(n) ELSE n
  BY <1>2, <1>3 DEF OSIntExit
<1>7. /\ os.OSTCBCur \in Tcb /\ PrioOf(os, os.OSTCBCur) = os.OSPrioCur /\ os.OSLockNesting \in 0 .. 1
      /\ os.msip => os.OSLockNesting = 0
  BY DEF SchedOK, ListsOK, KernelType
<1>8. CASE n.OSLockNesting = 0
  <2>1. x = SwitchToHighest(n)
    BY <1>6, <1>8
  <2>2. /\ SameLists(x, n) /\ SchedTypes(x)
        /\ x.OSRunning = n.OSRunning /\ x.OSIntNesting = n.OSIntNesting
        /\ x.OSLockNesting = n.OSLockNesting
        /\ x.OSPrioCur = n.OSPrioCur /\ x.OSTCBCur = n.OSTCBCur
        /\ x.OSPrioHighRdy = Highest(n.OSRdy)
        /\ x.OSTCBHighRdy = n.OSTCBPrioTbl[Highest(n.OSRdy)]
        /\ x.msip \in BOOLEAN /\ (x.msip <=> n.msip \/ Highest(n.OSRdy) # n.OSPrioCur)
    BY <1>5, <2>1, SwitchIs
  <2>3. ListsOK(x, frame) /\ SameCounts(x, n, frame)
    BY <1>5, <2>2, SchedLists DEF SameCounts
  <2>4. x.OSRunning /\ x.OSIntNesting = 0 /\ x.OSTCBCur \in Tcb /\ PrioOf(x, x.OSTCBCur) = x.OSPrioCur
    BY <1>3, <1>7, <2>2 DEF SameLists, PrioOf
  <2>5. SchedOK(x, frame)
    BY <1>8, <2>2, <2>4 DEF SchedOK, SameLists
  <2> QED
    BY <1>3, <1>5, <2>2, <2>3, <2>5 DEF SameCounts, SameLists
<1>9. CASE n.OSLockNesting # 0
  <2>1. x = n
    BY <1>6, <1>9
  <2>2. PrioOf(n, n.OSTCBCur) = n.OSPrioCur
    BY <1>3, <1>7 DEF PrioOf
  <2>3. ~n.msip /\ n.OSLockNesting = os.OSLockNesting /\ n.OSLockNesting > 0
    BY <1>3, <1>7, <1>9
  <2>4. SchedOK(n, frame)
    BY <1>3, <1>7, <1>9, <2>2, <2>3 DEF SchedOK
  <2> QED
    BY <1>3, <1>5, <2>1, <2>4
<1> QED
  BY <1>8, <1>9

(* The clock tick. *)
LEMMA TickStep ==
  ASSUME KernelInv, Tick
  PROVE  KernelStep
<1>1. /\ ListsOK(os, frame) /\ SchedOK(os, frame) /\ CreditOK(os, frame, credit) /\ os.OSRunning
  BY DEF KernelInv, Tick
<1>2. PICK s, m, x : s = OSIntEnter(os) /\ m = OSTimeTick(s) /\ x = OSIntExit(m)
  OBVIOUS
<1>3. /\ ListsOK(s, frame) /\ SameCounts(s, os, frame) /\ s.tcb = os.tcb /\ s.ecb = os.ecb
      /\ s.OSRunning /\ s.OSIntNesting = 1 /\ s.OSLockNesting = os.OSLockNesting
      /\ s.OSPrioCur = os.OSPrioCur /\ s.OSTCBCur = os.OSTCBCur /\ s.msip = os.msip
  BY <1>1, <1>2, EntersIsr
<1>4. /\ ListsOK(m, frame) /\ SameSched(m, s) /\ SameTables(m, s) /\ m.ecb = s.ecb
      /\ \A y \in Event : GrantedIn(m, frame, y) = GrantedIn(s, frame, y)
  BY <1>2, <1>3, TickLists
<1>5. \A u \in Tcb : PrioOf(m, u) = PrioOf(os, u)
  BY <1>3, <1>4 DEF SameTables, PrioOf
<1>6. /\ m.OSRunning /\ m.OSIntNesting = 1 /\ m.OSLockNesting = os.OSLockNesting
      /\ m.OSPrioCur = os.OSPrioCur /\ m.OSTCBCur = os.OSTCBCur /\ m.msip = os.msip
  BY <1>3, <1>4 DEF SameSched
<1>7. ListsOK(x, frame) /\ SchedOK(x, frame) /\ SameCounts(x, m, frame) /\ x.ecb = m.ecb
  BY <1>1, <1>2, <1>4, <1>5, <1>6, LeavesIsr
<1>8. CreditOK(x, frame, credit)
  BY <1>1, <1>3, <1>4, <1>7 DEF CreditOK, SameCounts, Count
<1>9. os' = x /\ frame' = frame /\ credit' = credit /\ held' = held
  BY <1>2 DEF Tick
<1>10. QueuesMove(x, os) /\ OwnersOK(x, held)
  BY <1>3, <1>4, <1>7, EventsSame DEF KernelInv
<1> QED
  BY <1>7, <1>8, <1>9, <1>10 DEF KernelInv, KernelStep

(* Another interrupt, whose handler posts. *)
LEMMA InterruptStep ==
  ASSUME Signalling(scenario), scenario \in Scenarios, KernelInv, Interrupt
  PROVE  KernelStep
<1>1. /\ ListsOK(os, frame) /\ SchedOK(os, frame) /\ CreditOK(os, frame, credit) /\ os.OSRunning
  BY DEF KernelInv, Interrupt
<1>2. PICK s : s = OSIntEnter(os)
  OBVIOUS
<1>3. PICK c \in Setup[scenario].isr :
          /\ Refused(s, c) = NONE
          /\ os' = OSIntExit(FromIsr(s, c).s)
          /\ credit' = CreditAfter(os, c, FromIsr(s, c))
  BY <1>2 DEF Interrupt
<1>4. c \in PlainCall /\ c.op \in {"SemPost", "MboxPost", "QPost"}
  BY DEF Signalling
<1>5. PICK r, x : r = FromIsr(s, c) /\ x = OSIntExit(r.s)
  OBVIOUS
<1>6. /\ ListsOK(s, frame) /\ SameCounts(s, os, frame) /\ s.tcb = os.tcb /\ s.ecb = os.ecb
      /\ s.OSRunning /\ s.OSIntNesting = 1 /\ s.OSLockNesting = os.OSLockNesting
      /\ s.OSPrioCur = os.OSPrioCur /\ s.OSTCBCur = os.OSTCBCur /\ s.msip = os.msip
  BY <1>1, <1>2, EntersIsr
<1>7. CallOK(s, c)
  BY <1>3, <1>4, RefusedNot
<1>8. CallOK(os, c)
  BY <1>6, <1>7 DEF CallOK
<1>9. Keeps(s, frame, r) /\ Gives(s, frame, r, c)
  <2>1. CASE c.op = "SemPost"
    <3>1. r = OSSemPost(s, c.e)
      BY <1>5, <2>1 DEF FromIsr
    <3> QED
      BY <1>6, <1>7, <2>1, <3>1, SemPostServes
  <2>2. CASE c.op = "MboxPost"
    <3>1. r = OSMboxPost(s, c.e, c.msg)
      BY <1>5, <2>2 DEF FromIsr
    <3> QED
      BY <1>6, <1>7, <2>2, <3>1, MboxPostServes
  <2>3. CASE c.op = "QPost"
    <3>1. r = IF c.op = "QPost" THEN OSQPost(s, c.e, c.msg) ELSE OSQPostFront(s, c.e, c.msg)
      BY <1>5, <2>3 DEF FromIsr
    <3>2. c.op \in {"QPost", "QPostFront"}
      BY <2>3
    <3> QED
      BY <1>6, <1>7, <3>1, <3>2, QPostServes
  <2> QED
    BY <1>4, <2>1, <2>2, <2>3
<1>10. Gives(os, frame, r, c)
  <2>1. Receivers(os, c) = Receivers(s, c)
    BY <1>6 DEF Receivers, Waiting
  <2>2. Delta(os, c, r) = Delta(s, c, r)
    BY <1>6, <2>1 DEF Delta
  <2>3. \A y \in Event : Count(s, frame, y) = Count(os, frame, y)
    BY <1>6 DEF SameCounts
  <2> QED
    BY <1>9, <2>2, <2>3 DEF Gives
<1>11. PICK m : m = r.s
  OBVIOUS
<1>12. ListsOK(m, frame) /\ SameSched(m, s) /\ SameNames(m, s) /\ EventsMove(m, s)
  BY <1>9, <1>11 DEF Keeps, KeepsLists
<1>13. /\ m.OSRunning /\ m.OSIntNesting = 1 /\ m.OSLockNesting = os.OSLockNesting
       /\ m.OSPrioCur = os.OSPrioCur /\ m.OSTCBCur = os.OSTCBCur /\ m.msip = os.msip
  BY <1>6, <1>12 DEF SameSched
<1>14. \A u \in Tcb : PrioOf(m, u) = PrioOf(os, u)
  BY <1>6, <1>12 DEF SameNames, PrioOf
<1>15. ListsOK(x, frame) /\ SchedOK(x, frame) /\ SameCounts(x, m, frame) /\ x.ecb = m.ecb
  BY <1>1, <1>5, <1>11, <1>12, <1>13, <1>14, LeavesIsr
<1>16. PICK k : k = CreditAfter(os, c, r)
  OBVIOUS
<1>17. \A y \in Event : k[y] = Count(m, frame, y)
  BY <1>1, <1>8, <1>10, <1>11, <1>12, <1>16, CreditIs
<1>18. k \in [Event -> Int]
  <2>1. c.op \notin Flushes
    BY <1>4 DEF Flushes
  <2>2. credit \in [Event -> Int] /\ Delta(os, c, r) \in Int
    BY <1>1, <1>10 DEF CreditOK, Gives
  <2> QED
    BY <1>8, <1>16, <2>1, <2>2, CreditTyped
<1>19. CreditOK(x, frame, k)
  BY <1>15, <1>17, <1>18 DEF CreditOK, SameCounts
<1>20. os' = x /\ frame' = frame /\ credit' = k /\ held' = held
  BY <1>3, <1>5, <1>16 DEF Interrupt
<1>21. QueuesMove(x, os) /\ OwnersOK(x, held)
  <2>1. EventsMove(x, os)
    BY <1>6, <1>12, <1>15 DEF EventsMove, QueuesMove, RingStays, OwnersStay
  <2> QED
    BY <2>1, OwnersKept DEF EventsMove, KernelInv
<1> QED
  BY <1>15, <1>19, <1>20, <1>21 DEF KernelInv, KernelStep

(* A task goes on with a service it is in the middle of. *)
LEMMA ContinueStep ==
  ASSUME KernelInv, NEW t \in Task, Continue(t)
  PROVE  KernelStep
<1>1. ListsOK(os, frame) /\ t \in Tcb
  BY DEF KernelInv, Tcb
<1>2. FrameOK(os, frame)
  BY <1>1 DEF ListsOK
<1>3. frame[t].at = "resume" => frame[t].call.op \in PendOps
  BY <1>1, <1>2 DEF FrameOK, Asleep
<1>4. frame[t].at \in {"app", "enter", "sched", "block", "resume"}
  BY <1>1, <1>2 DEF FrameOK, App
<1>5. ~PendMultiReturn(t) /\ ~FlagPendReturn(t)
  BY <1>3 DEF PendMultiReturn, FlagPendReturn, Resumes, PendOps
<1>6. ~TaskCreate_TCBInit(t) /\ ~TaskCreate_Ready(t) /\ ~TaskDel_Free(t)
  BY <1>4 DEF TaskCreate_TCBInit, TaskCreate_Ready, TaskDel_Free
<1>7. ASSUME NEW op, op # "MutexPend", Resumes(t, op, PendReturn(os, frame[t].call.e)) PROVE KernelStep
  <2>1. PICK r : r = PendReturn(os, frame[t].call.e)
    OBVIOUS
  <2>2. Resumes(t, op, r)
    BY <1>7, <2>1
  <2> QED
    BY <1>7, <2>1, <2>2, ReturnStep
<1>8. CASE SemPendReturn(t)
  BY <1>7, <1>8 DEF SemPendReturn, OSSemPendReturn
<1>9. CASE MboxPendReturn(t)
  BY <1>7, <1>9 DEF MboxPendReturn, OSMboxPendReturn
<1>10. CASE QPendReturn(t)
  BY <1>7, <1>10 DEF QPendReturn, OSQPendReturn
<1>11. CASE Sched(t)
  BY <1>11, SchedStep
<1>12. CASE MutexPendReturn(t)
  BY <1>12, MutexReturnStep
<1> QED
  BY <1>5, <1>6, <1>8, <1>9, <1>10, <1>11, <1>12 DEF Continue

(* Every step of a signalling scenario keeps the invariant, and moves one  *)
(* ring at most.                                                           *)
LEMMA KernelNext ==
  ASSUME Signalling(scenario), scenario \in Scenarios, KernelInv, Next
  PROVE  KernelStep
<1>1. ASSUME NEW t \in Task, Call(t) PROVE KernelStep
  BY <1>1, CheckStep, SemStep, MboxStep, QStep, TaskStep, MutexStep, NoFlagStep DEF Call
<1> QED
  BY <1>1, StartStep, SwitchStep, TickStep, InterruptStep, ContinueStep DEF Next

-----------------------------------------------------------------------------
(* main() builds the first state. *)
Apps == [t \in Tcb |-> App]
(* The tables as main leaves them. *)
Starts(s) == ListsOK(s, Apps) /\ SchedOK(s, Apps) /\ ~s.OSRunning

(* What the invariant says before the kernel runs. *)
LEMMA StartsIs ==
  ASSUME NEW s
  PROVE  Starts(s) <=>
            /\ KernelType(s) /\ TablesOK(s) /\ BitsTasks(s)
            /\ \A t \in Tcb : TaskOK(s, Apps, t)
            /\ s.tcb[Idle] = [FreeTcb EXCEPT !.OSTCBPrio = OS_TASK_IDLE_PRIO]
            /\ s.OSIntNesting = 0 /\ s.OSLockNesting = 0 /\ ~s.msip /\ s.OSTCBCur = NULL /\ ~s.OSRunning
<1>1. FrameOK(s, Apps)
  BY DEF FrameOK, Apps, Tcb, Asleep, App
<1> QED
  BY <1>1 DEF Starts, ListsOK, SchedOK, Apps

BlankTables == [OSInit EXCEPT !.flag = OS_FlagInit]

(* The tables OSInit leaves are right. *)
LEMMA BlankStarts ==
  Starts(BlankTables)
<1>1. PICK s, k : s = BlankTables /\ k = OS_TASK_IDLE_PRIO
  OBVIOUS
<1>2. /\ DOMAIN s = {"OSRunning", "OSIntNesting", "OSLockNesting", "OSPrioCur", "OSPrioHighRdy",
                     "OSTCBCur", "OSTCBHighRdy", "OSRdy", "OSTCBPrioTbl", "tcb", "ecb", "msip", "flag"}
      /\ s.OSRunning = FALSE /\ s.OSIntNesting = 0 /\ s.OSLockNesting = 0 /\ s.OSPrioCur = 0
      /\ s.OSPrioHighRdy = 0 /\ s.OSTCBCur = NULL /\ s.OSTCBHighRdy = NULL
      /\ s.OSRdy = SetBit(NoBits, k) /\ s.msip = FALSE
      /\ s.OSTCBPrioTbl = [p \in Prio |-> IF p = k THEN Idle ELSE NULL]
      /\ s.tcb = [t \in Tcb |-> IF t = Idle THEN [FreeTcb EXCEPT !.OSTCBPrio = k] ELSE FreeTcb]
      /\ s.ecb = [e \in Event |-> FreeEcb]
  BY <1>1 DEF BlankTables, OSInit
<1>3. k \in Prio /\ 0 \in Prio /\ k # NULL /\ Y(k) \in Nat /\ Idle \in Tcb /\ Idle # NULL /\ Idle \notin Task
  BY <1>1, DivMod, KernelAssumption DEF Prio, OS_TASK_IDLE_PRIO, Tcb
<1>4. Agrees(s.OSRdy) /\ s.OSRdy.tbl = {k}
  BY <1>2, <1>3 DEF Agrees, Bits, SetBit, NoBits
<1>5. PICK i : i = [FreeTcb EXCEPT !.OSTCBPrio = k]
  OBVIOUS
<1>6. /\ i \in TcbType /\ i.OSTCBPrio = k /\ i.OSTCBStat = {} /\ i.OSTCBStatPend = "OK"
      /\ i.OSTCBDly = 0 /\ i.OSTCBEventPtr = NULL
  BY <1>3, <1>5 DEF TcbType, FreeTcb
<1>7. /\ FreeTcb \in TcbType /\ FreeTcb.OSTCBPrio = NULL /\ FreeTcb.OSTCBStat = {}
      /\ FreeTcb.OSTCBStatPend = "OK" /\ FreeTcb.OSTCBDly = 0 /\ FreeTcb.OSTCBEventPtr = NULL
  BY DEF TcbType, FreeTcb
<1>8. EcbOK(FreeEcb) /\ FreeEcb.wait = NoBits
  BY DEF EcbOK, FreeEcb, NoBits, Agrees, Bits
<1>9. s.tcb[Idle] = i /\ \A t \in Task : t \in Tcb /\ s.tcb[t] = FreeTcb
  BY <1>2, <1>3, <1>5 DEF Tcb
<1>10. \A e \in Event : s.ecb[e] = FreeEcb
  BY <1>2
<1>11. KernelType(s)
  <2>1. s.tcb \in [Tcb -> TcbType]
    BY <1>2, <1>3, <1>6, <1>7, <1>9 DEF Tcb
  <2>2. s.OSTCBPrioTbl \in [Prio -> Tcb \cup {NULL}]
    BY <1>2, <1>3
  <2>3. s.OSRunning \in BOOLEAN /\ s.msip \in BOOLEAN
    <3>1. s.OSRunning = FALSE /\ s.msip = FALSE
      BY <1>2
    <3> QED
      BY <3>1, Zenon
  <2>5. s.OSIntNesting \in Nat /\ s.OSLockNesting \in 0 .. 1
    <3>1. s.OSIntNesting = 0 /\ s.OSLockNesting = 0
      BY <1>2
    <3> QED
      BY <3>1
  <2>6. s.OSPrioCur \in Prio /\ s.OSPrioHighRdy \in Prio
    <3>1. s.OSPrioCur = 0 /\ s.OSPrioHighRdy = 0
      BY <1>2
    <3> QED
      BY <1>3, <3>1
  <2>7. s.OSTCBCur \in Tcb \cup {NULL} /\ s.OSTCBHighRdy \in Tcb \cup {NULL}
    <3>1. s.OSTCBCur = NULL /\ s.OSTCBHighRdy = NULL
      BY <1>2
    <3> QED
      BY <3>1
  <2>4. DOMAIN s.ecb = Event /\ \A e \in Event : EcbOK(s.ecb[e])
    BY <1>2, <1>8, <1>10
  <2> QED
    BY <1>2, <1>4, <2>1, <2>2, <2>3, <2>4, <2>5, <2>6, <2>7 DEF KernelType
<1>12. TablesOK(s)
  BY <1>1, <1>2, <1>3, <1>6, <1>7, <1>9 DEF TablesOK, PrioOf, Tcb
<1>13. BitsTasks(s)
  BY <1>2, <1>3, <1>4, <1>8, <1>10 DEF BitsTasks, NoBits
<1>14. ASSUME NEW t \in Tcb PROVE TaskOK(s, Apps, t)
  <2>1. ~Asleep(Apps, t)
    BY DEF Asleep, Apps, App
  <2>2. \A e \in Event : e # NULL /\ s.ecb[e].wait.tbl = {}
    BY <1>8, <1>10, KernelAssumption DEF NoBits
  <2>3. CASE t = Idle
    <3>1. ~StillWaits(s, t) /\ ~Stopped(s, t)
      BY <1>6, <1>9, <2>3 DEF StillWaits, Stopped, WaitsFor
    <3> QED
      BY <1>3, <1>4, <1>6, <1>9, <2>1, <2>2, <2>3, <3>1 DEF TaskOK, Owns
  <2>4. CASE t # Idle
    <3>1. s.tcb[t] = FreeTcb
      BY <1>9, <2>4 DEF Tcb
    <3>2. ~StillWaits(s, t) /\ ~Stopped(s, t)
      BY <1>7, <3>1 DEF StillWaits, Stopped, WaitsFor
    <3> QED
      BY <1>7, <2>1, <2>2, <3>1, <3>2 DEF TaskOK, Owns
  <2> QED
    BY <2>3, <2>4
<1>15. s.tcb[Idle] = [FreeTcb EXCEPT !.OSTCBPrio = OS_TASK_IDLE_PRIO]
  BY <1>1, <1>5, <1>9
<1> QED
  BY <1>1, <1>2, <1>11, <1>12, <1>13, <1>14, <1>15, StartsIs

(* What main creates next is not there yet. *)
Fresh(s, c) ==
    IF c.op = "TaskCreate" THEN PrioOf(s, c.tcb) = NULL /\ s.OSTCBPrioTbl[c.prio] = NULL
    ELSE s.ecb[c.e].OSEventType = "UNUSED"
Apart(c, d) ==
    IF c.op = "TaskCreate" THEN d.op = "TaskCreate" => c.tcb # d.tcb /\ c.prio # d.prio
    ELSE d.op # "TaskCreate" => c.e # d.e

(* What main creates, by what it is created with. *)
LEMMA CreationIs ==
  ASSUME NEW c \in Creation
  PROVE  /\ c.op \in {"TaskCreate", "SemCreate", "MutexCreate", "MboxCreate", "QCreate"}
         /\ c.op = "TaskCreate" => c.tcb \in Task /\ c.prio \in Prio /\ c.prio # OS_TASK_IDLE_PRIO
         /\ c.op # "TaskCreate" => c.e \in Event
         /\ c.op = "SemCreate" => c.cnt \in Nat
         /\ c.op = "MutexCreate" => c.prio = NULL
         /\ c.op = "MboxCreate" => c.msg \in Message \cup {NULL}
BY DEF Creation

(* The queues hold no messages yet. *)
NoMessages(s) == \A e \in Event : s.ecb[e].OSEventType = "Q" => s.ecb[e].OSEventPtr.OSQEntries = 0

(* OSInit leaves no messages. *)
LEMMA BlankEmpty ==
  NoMessages(BlankTables)
<1>1. PICK s : s = BlankTables
  OBVIOUS
<1>2. s.ecb = [e \in Event |-> FreeEcb]
  BY <1>1 DEF BlankTables, OSInit
<1>3. FreeEcb.OSEventType = "UNUSED"
  BY DEF FreeEcb
<1> QED
  BY <1>1, <1>2, <1>3 DEF NoMessages

(* After OSInit there is room for whatever main creates. *)
LEMMA BlankFresh ==
  ASSUME NEW c \in Creation
  PROVE  Fresh(BlankTables, c)
<1>1. PICK s, k : s = BlankTables /\ k = OS_TASK_IDLE_PRIO
  OBVIOUS
<1>2. /\ s.OSTCBPrioTbl = [p \in Prio |-> IF p = k THEN Idle ELSE NULL]
      /\ s.tcb = [t \in Tcb |-> IF t = Idle THEN [FreeTcb EXCEPT !.OSTCBPrio = k] ELSE FreeTcb]
      /\ s.ecb = [e \in Event |-> FreeEcb]
  BY <1>1 DEF BlankTables, OSInit
<1>3. CASE c.op = "TaskCreate"
  <2>1. c.tcb \in Task /\ c.prio \in Prio /\ c.prio # k /\ c.tcb \in Tcb /\ c.tcb # Idle
    BY <1>1, <1>3, CreationIs, KernelAssumption DEF Tcb
  <2>2. s.tcb[c.tcb] = FreeTcb /\ s.OSTCBPrioTbl[c.prio] = NULL
    BY <1>2, <2>1
  <2> QED
    BY <1>1, <1>3, <2>2 DEF Fresh, PrioOf, FreeTcb
<1>4. CASE c.op # "TaskCreate"
  <2>1. s.ecb[c.e] = FreeEcb
    BY <1>2, <1>4, CreationIs
  <2> QED
    BY <1>1, <1>4, <2>1 DEF Fresh, FreeEcb
<1> QED
  BY <1>3, <1>4

(* An event leaves the free list. *)
LEMMA EventStarts ==
  ASSUME NEW s, Starts(s), NEW e \in Event, s.ecb[e].OSEventType = "UNUSED",
         NEW new, EcbOK(new), new.wait = NoBits, NEW n, n = NewEvent(s, e, new).s
  PROVE  /\ Starts(n) /\ n.tcb = s.tcb /\ n.OSTCBPrioTbl = s.OSTCBPrioTbl
         /\ n.ecb[e] = new /\ \A x \in Event \ {e} : n.ecb[x] = s.ecb[x]
<1>1. /\ KernelType(s) /\ TablesOK(s) /\ BitsTasks(s) /\ \A t \in Tcb : TaskOK(s, Apps, t)
      /\ s.tcb[Idle] = [FreeTcb EXCEPT !.OSTCBPrio = OS_TASK_IDLE_PRIO]
      /\ s.OSIntNesting = 0 /\ s.OSLockNesting = 0 /\ ~s.msip /\ s.OSTCBCur = NULL /\ ~s.OSRunning
  BY StartsIs
<1>2. n = [s EXCEPT !.ecb[e] = new]
  BY DEF NewEvent, Return
<1>3. /\ DOMAIN n = DOMAIN s
      /\ n.OSRunning = s.OSRunning /\ n.OSIntNesting = s.OSIntNesting /\ n.OSLockNesting = s.OSLockNesting
      /\ n.OSPrioCur = s.OSPrioCur /\ n.OSPrioHighRdy = s.OSPrioHighRdy /\ n.OSTCBCur = s.OSTCBCur
      /\ n.OSTCBHighRdy = s.OSTCBHighRdy /\ n.OSRdy = s.OSRdy /\ n.msip = s.msip
      /\ n.OSTCBPrioTbl = s.OSTCBPrioTbl /\ n.tcb = s.tcb /\ n.ecb = [s.ecb EXCEPT ![e] = new]
  BY <1>1, <1>2 DEF KernelType
<1>4. DOMAIN n.ecb = Event /\ n.ecb[e] = new /\ \A x \in Event \ {e} : n.ecb[x] = s.ecb[x]
  BY <1>1, <1>3 DEF KernelType
<1>5. s.ecb[e].wait = NoBits
  BY <1>1 DEF KernelType, EcbOK
<1>6. \A x \in Event : n.ecb[x].wait = s.ecb[x].wait /\ EcbOK(n.ecb[x])
  BY <1>1, <1>4, <1>5 DEF KernelType
<1>7. KernelType(n)
  BY <1>1, <1>3, <1>4, <1>6 DEF KernelType
<1>80. n.tcb = s.tcb /\ n.OSTCBPrioTbl = s.OSTCBPrioTbl /\ n.OSRdy = s.OSRdy /\ TablesOK(s) /\ BitsTasks(s)
  BY <1>1, <1>3
<1>81. TablesOK(n)
  BY <1>80 DEF TablesOK, PrioOf
<1>82. BitsTasks(n)
  BY <1>6, <1>80 DEF BitsTasks, PrioOf
<1>8. TablesOK(n) /\ BitsTasks(n)
  BY <1>81, <1>82
<1>9. ASSUME NEW t \in Tcb PROVE TaskOK(n, Apps, t)
  <2>1. TaskOK(s, Apps, t) /\ ~Asleep(Apps, t)
    BY <1>1 DEF Asleep, Apps, App
  <2>2. s.tcb[t].OSTCBEventPtr = NULL
    BY <2>1 DEF TaskOK
  <2>3. n.tcb[t] = s.tcb[t] /\ ~StillWaits(n, t) /\ ~StillWaits(s, t) /\ (Stopped(n, t) <=> Stopped(s, t))
    BY <1>3, <2>2 DEF StillWaits, WaitsFor, Stopped
  <2> QED
    BY <1>3, <1>6, <2>1, <2>2, <2>3 DEF TaskOK, Owns
<1> QED
  BY <1>1, <1>3, <1>4, <1>7, <1>8, <1>9, StartsIs

(* A task is created.                                                      *)
LEMMA TaskStarts ==
  ASSUME NEW s, Starts(s), NEW t \in Task, PrioOf(s, t) = NULL,
         NEW p \in Prio, p # OS_TASK_IDLE_PRIO, s.OSTCBPrioTbl[p] = NULL,
         NEW n, n = TaskCreateReady(TaskCreateTcb(OSTaskCreate(s, p).s, p, t).s, p).s
  PROVE  /\ Starts(n) /\ n.ecb = s.ecb
         /\ \A u \in Tcb \ {t} : n.tcb[u] = s.tcb[u]
         /\ \A q \in Prio \ {p} : n.OSTCBPrioTbl[q] = s.OSTCBPrioTbl[q]
<1>1. /\ KernelType(s) /\ TablesOK(s) /\ BitsTasks(s) /\ \A u \in Tcb : TaskOK(s, Apps, u)
      /\ s.tcb[Idle] = [FreeTcb EXCEPT !.OSTCBPrio = OS_TASK_IDLE_PRIO]
      /\ s.OSIntNesting = 0 /\ s.OSLockNesting = 0 /\ ~s.msip /\ s.OSTCBCur = NULL /\ ~s.OSRunning
  BY StartsIs
<1>2. t \in Tcb /\ t # NULL /\ t # Idle /\ p # NULL
  BY KernelAssumption DEF Tcb
<1>3. PICK a, b, w : /\ a = OSTaskCreate(s, p).s
                     /\ w = [FreeTcb EXCEPT !.OSTCBPrio = p]
                     /\ b = TaskCreateTcb(a, p, t).s
  OBVIOUS
<1>4. a = [s EXCEPT !.OSTCBPrioTbl[p] = RESERVED]
  BY <1>1, <1>3 DEF OSTaskCreate, Return
<1>5. /\ DOMAIN a = DOMAIN s
      /\ a.OSRunning = s.OSRunning /\ a.OSIntNesting = s.OSIntNesting /\ a.OSLockNesting = s.OSLockNesting
      /\ a.OSPrioCur = s.OSPrioCur /\ a.OSPrioHighRdy = s.OSPrioHighRdy /\ a.OSTCBCur = s.OSTCBCur
      /\ a.OSTCBHighRdy = s.OSTCBHighRdy /\ a.OSRdy = s.OSRdy /\ a.msip = s.msip /\ a.ecb = s.ecb
      /\ a.tcb = s.tcb /\ a.OSTCBPrioTbl = [s.OSTCBPrioTbl EXCEPT ![p] = RESERVED]
  BY <1>1, <1>4 DEF KernelType
<1>6. b = [a EXCEPT !.tcb[t] = w, !.OSTCBPrioTbl[p] = t]
  BY <1>2, <1>3 DEF TaskCreateTcb, Return
<1>7. /\ DOMAIN b = DOMAIN s
      /\ b.OSRunning = s.OSRunning /\ b.OSIntNesting = s.OSIntNesting /\ b.OSLockNesting = s.OSLockNesting
      /\ b.OSPrioCur = s.OSPrioCur /\ b.OSPrioHighRdy = s.OSPrioHighRdy /\ b.OSTCBCur = s.OSTCBCur
      /\ b.OSTCBHighRdy = s.OSTCBHighRdy /\ b.OSRdy = s.OSRdy /\ b.msip = s.msip /\ b.ecb = s.ecb
      /\ b.tcb = [s.tcb EXCEPT ![t] = w] /\ b.OSTCBPrioTbl = [a.OSTCBPrioTbl EXCEPT ![p] = t]
  BY <1>1, <1>5, <1>6 DEF KernelType
<1>8. PICK rdy : rdy = SetBit(s.OSRdy, p)
  OBVIOUS
<1>9. n = [b EXCEPT !.OSRdy = rdy]
  BY <1>1, <1>3, <1>7, <1>8 DEF TaskCreateReady, MaybeSched, Return
<1>10. /\ DOMAIN n = DOMAIN s
       /\ n.OSRunning = s.OSRunning /\ n.OSIntNesting = s.OSIntNesting /\ n.OSLockNesting = s.OSLockNesting
       /\ n.OSPrioCur = s.OSPrioCur /\ n.OSPrioHighRdy = s.OSPrioHighRdy /\ n.OSTCBCur = s.OSTCBCur
       /\ n.OSTCBHighRdy = s.OSTCBHighRdy /\ n.OSRdy = rdy /\ n.msip = s.msip /\ n.ecb = s.ecb
       /\ n.tcb = b.tcb /\ n.OSTCBPrioTbl = b.OSTCBPrioTbl
  BY <1>1, <1>7, <1>9 DEF KernelType
<1>11. /\ DOMAIN n.tcb = Tcb /\ n.tcb[t] = w /\ \A u \in Tcb \ {t} : n.tcb[u] = s.tcb[u]
       /\ DOMAIN n.OSTCBPrioTbl = Prio /\ n.OSTCBPrioTbl[p] = t
       /\ \A q \in Prio \ {p} : n.OSTCBPrioTbl[q] = s.OSTCBPrioTbl[q]
  BY <1>1, <1>2, <1>5, <1>7, <1>10 DEF KernelType
<1>12. /\ w \in TcbType /\ w.OSTCBPrio = p /\ w.OSTCBStat = {} /\ w.OSTCBStatPend = "OK"
       /\ w.OSTCBDly = 0 /\ w.OSTCBEventPtr = NULL
  BY <1>3 DEF TcbType, FreeTcb
<1>13. Agrees(rdy) /\ rdy.tbl = s.OSRdy.tbl \cup {p}
  BY <1>1, <1>8, SetBitIs DEF KernelType
<1>14. KernelType(n)
  <2>1. n.tcb \in [Tcb -> TcbType] /\ n.OSTCBPrioTbl \in [Prio -> Tcb \cup {NULL}]
    <3>1. \A u \in Tcb : n.tcb[u] \in TcbType
      BY <1>1, <1>11, <1>12 DEF KernelType
    <3>2. \A q \in Prio : n.OSTCBPrioTbl[q] \in Tcb \cup {NULL}
      BY <1>1, <1>2, <1>11 DEF KernelType
    <3>3. n.tcb = [u \in Tcb |-> n.tcb[u]] /\ n.OSTCBPrioTbl = [q \in Prio |-> n.OSTCBPrioTbl[q]]
      BY <1>1, <1>5, <1>7, <1>10 DEF KernelType
    <3> QED
      BY <3>1, <3>2, <3>3
  <2> QED
    BY <1>1, <1>10, <1>13, <2>1 DEF KernelType
<1>15. \A u \in Tcb \ {t} : PrioOf(n, u) = PrioOf(s, u) /\ PrioOf(s, u) # p
  <2>1. \A u \in Tcb : PrioOf(s, u) = p => s.OSTCBPrioTbl[p] = u
    BY <1>1, <1>2 DEF TablesOK
  <2>2. NULL \notin Tcb
    BY KernelAssumption
  <2> QED
    BY <1>11, <2>1, <2>2 DEF PrioOf
<1>16. PrioOf(n, t) = p
  BY <1>11, <1>12 DEF PrioOf
<1>17. TablesOK(n)
  <2>1. ASSUME NEW u \in Tcb, PrioOf(n, u) # NULL PROVE n.OSTCBPrioTbl[PrioOf(n, u)] = u
    <3>1. CASE u = t
      BY <1>11, <1>16, <3>1
    <3>2. CASE u # t
      <4>1. PrioOf(s, u) \in Prio \cup {NULL}
        BY <1>1 DEF KernelType, TcbType, PrioOf
      <4> QED
        BY <1>1, <1>11, <1>15, <2>1, <3>2, <4>1 DEF TablesOK
    <3> QED
      BY <3>1, <3>2
  <2>2. ASSUME NEW q \in Prio, n.OSTCBPrioTbl[q] # NULL PROVE PrioOf(n, n.OSTCBPrioTbl[q]) = q
    <3>1. CASE q = p
      BY <1>11, <1>16, <3>1
    <3>2. CASE q # p
      <4>1. s.OSTCBPrioTbl[q] = n.OSTCBPrioTbl[q] /\ s.OSTCBPrioTbl[q] \in Tcb
        BY <1>1, <1>11, <2>2, <3>2 DEF KernelType
      <4>2. PrioOf(s, s.OSTCBPrioTbl[q]) = q
        BY <1>1, <2>2, <4>1 DEF TablesOK
      <4>3. s.OSTCBPrioTbl[q] # t
        <5>1. q # NULL
          BY KernelAssumption
        <5> QED
          BY <4>2, <5>1
      <4> QED
        BY <1>15, <4>1, <4>2, <4>3
    <3> QED
      BY <3>1, <3>2
  <2>3. PrioOf(n, Idle) = OS_TASK_IDLE_PRIO
    <3>1. Idle \in Tcb
      BY DEF Tcb
    <3> QED
      BY <1>1, <1>2, <1>15, <3>1 DEF TablesOK
  <2> QED
    BY <2>1, <2>2, <2>3 DEF TablesOK
<1>18. BitsTasks(n)
  <2>1. \A q \in rdy.tbl : n.OSTCBPrioTbl[q] # NULL
    <3>1. s.OSRdy.tbl \subseteq Prio
      BY <1>1 DEF KernelType, Agrees, Bits
    <3> QED
      BY <1>1, <1>2, <1>11, <1>13, <3>1 DEF BitsTasks
  <2>2. ASSUME NEW e \in Event, NEW q \in n.ecb[e].wait.tbl PROVE n.OSTCBPrioTbl[q] \in Task
    <3>1. q \in Prio
      BY <1>1, <1>10 DEF KernelType, EcbOK, Agrees, Bits
    <3> QED
      BY <1>1, <1>10, <1>11, <3>1 DEF BitsTasks
  <2> QED
    BY <1>10, <2>1, <2>2 DEF BitsTasks
<1>19. \A e \in Event : p \notin s.ecb[e].wait.tbl
  <2>1. NULL \notin Task
    BY KernelAssumption DEF Tcb
  <2> QED
    BY <1>1, <2>1 DEF BitsTasks
<1>20. ASSUME NEW u \in Tcb PROVE TaskOK(n, Apps, u)
  <2>1. TaskOK(s, Apps, u) /\ ~Asleep(Apps, u)
    BY <1>1, SMTT(30) DEF Asleep, Apps, App
  <2>2. CASE u = t
    <3>1. ~StillWaits(n, u) /\ ~Stopped(n, u)
      BY <1>11, <1>12, <2>2 DEF StillWaits, WaitsFor, Stopped
    <3>2. \A e \in Event : e # NULL
      BY KernelAssumption, SMTT(30)
    <3> QED
      BY <1>2, <1>10, <1>11, <1>12, <1>13, <1>19, <2>1, <2>2, <3>1, <3>2 DEF TaskOK, Owns
  <2>3. CASE u # t
    <3>1. n.tcb[u] = s.tcb[u] /\ s.tcb[u].OSTCBPrio # p
      BY <1>11, <1>15, <2>3 DEF PrioOf
    <3>2. (StillWaits(n, u) <=> StillWaits(s, u)) /\ (Stopped(n, u) <=> Stopped(s, u))
      BY <3>1 DEF StillWaits, WaitsFor, Stopped
    <3> QED
      BY <1>10, <1>13, <2>1, <3>1, <3>2 DEF TaskOK, Owns
  <2> QED
    BY <2>2, <2>3
<1>21. n.tcb[Idle] = [FreeTcb EXCEPT !.OSTCBPrio = OS_TASK_IDLE_PRIO]
  BY <1>1, <1>2, <1>11 DEF Tcb
<1> QED
  BY <1>1, <1>10, <1>11, <1>14, <1>17, <1>18, <1>20, <1>21, StartsIs

(* A new ring is a ring with nothing in it. *)
LEMMA NewQIs ==
  Ring(NewQ)
<1>1. PICK q : q = NewQ
  OBVIOUS
<1>2. /\ DOMAIN q = {"OSQIn", "OSQOut", "OSQEntries", "ring"}
      /\ q.OSQIn = 0 /\ q.OSQOut = 0 /\ q.OSQEntries = 0 /\ q.ring = [i \in 0 .. QSIZE - 1 |-> NULL]
      /\ q = [OSQIn |-> q.OSQIn, OSQOut |-> q.OSQOut, OSQEntries |-> q.OSQEntries, ring |-> q.ring]
  BY <1>1 DEF NewQ
<1>3. QSIZE \in Nat \ {0} /\ 0 \in 0 .. QSIZE - 1 /\ 0 \in 0 .. QSIZE /\ 0 = (0 + 0) % QSIZE
  BY ApplicationAssumption
<1>4. q.ring \in [0 .. QSIZE - 1 -> Message \cup {NULL}]
  BY <1>2
<1>5. \A i \in 0 .. q.OSQEntries - 1 : FALSE
  BY <1>2
<1> QED
  BY <1>1, <1>2, <1>3, <1>4, <1>5 DEF Ring

(* What an event is made of when main creates it is right, and nobody      *)
(* waits for it.                                                           *)
LEMMA NewEcbs ==
  ASSUME NEW cnt \in Nat, NEW msg \in Message \cup {NULL},
         NEW a, a = [FreeEcb EXCEPT !.OSEventType = "SEM", !.OSEventCnt = cnt],
         NEW b, b = [FreeEcb EXCEPT !.OSEventType = "MBOX", !.OSEventPtr = msg],
         NEW c, c = [FreeEcb EXCEPT !.OSEventType = "Q", !.OSEventPtr = NewQ]
  PROVE  \A x \in {a, b, c} : EcbOK(x) /\ x.wait = NoBits /\ (x.OSEventType = "Q" => x.OSEventPtr.OSQEntries = 0)
<1>1. Agrees(NoBits)
  BY DEF Agrees, Bits, NoBits
<1>2. EcbOK(a) /\ a.wait = NoBits /\ a.OSEventType # "Q"
  BY <1>1 DEF EcbOK, FreeEcb
<1>3. EcbOK(b) /\ b.wait = NoBits /\ b.OSEventType # "Q"
  BY <1>1 DEF EcbOK, FreeEcb
<1>4. EcbOK(c) /\ c.wait = NoBits /\ c.OSEventPtr.OSQEntries = 0
  <2>1. PICK q : q = NewQ
    OBVIOUS
  <2>2. Ring(q) /\ q.OSQEntries = 0
    BY <2>1, NewQIs DEF NewQ
  <2>3. /\ DOMAIN c = {"OSEventType", "OSEventCnt", "OSEventPtr", "pcp", "wait"}
        /\ c.OSEventType = "Q" /\ c.OSEventPtr = q /\ c.wait = NoBits
    BY <2>1 DEF FreeEcb
  <2> QED
    BY <1>1, <2>2, <2>3 DEF EcbOK
<1> QED
  BY <1>2, <1>3, <1>4

(* So is a mutex without a ceiling, that nobody has. *)
LEMMA NewMutexIs ==
  ASSUME NEW m, m = [FreeEcb EXCEPT !.OSEventType = "MUTEX", !.OSEventCnt = NULL, !.pcp = NULL]
  PROVE  EcbOK(m) /\ m.wait = NoBits /\ m.OSEventType # "Q"
<1>1. Agrees(NoBits)
  BY DEF Agrees, Bits, NoBits
<1> QED
  BY <1>1 DEF EcbOK, FreeEcb

Kept(s, n, c) ==
    /\ \A d \in Creation : Apart(c, d) /\ Fresh(s, d) => Fresh(n, d)
    /\ NoMessages(s) => NoMessages(n)

(* Creating an object or a task keeps the tables right, and the room for   *)
(* what main creates next.                                                 *)
LEMMA CreateStarts ==
  ASSUME NEW s, Starts(s), NEW c \in Creation, Fresh(s, c), NEW n, n = Created(s, c)
  PROVE  Starts(n) /\ Kept(s, n, c)
<1>1. ASSUME c.op # "TaskCreate", NEW new, EcbOK(new), new.wait = NoBits,
             new.OSEventType = "Q" => new.OSEventPtr.OSQEntries = 0, n = NewEvent(s, c.e, new).s
      PROVE  Starts(n) /\ Kept(s, n, c)
  <2>1. c.e \in Event /\ s.ecb[c.e].OSEventType = "UNUSED"
    BY <1>1, CreationIs DEF Fresh
  <2>2. PICK e : e = c.e
    OBVIOUS
  <2>3. e \in Event /\ s.ecb[e].OSEventType = "UNUSED" /\ n = NewEvent(s, e, new).s
    BY <1>1, <2>1, <2>2
  <2>4. /\ Starts(n) /\ n.tcb = s.tcb /\ n.OSTCBPrioTbl = s.OSTCBPrioTbl
        /\ n.ecb[e] = new /\ \A x \in Event \ {e} : n.ecb[x] = s.ecb[x]
    BY <1>1, <2>3, EventStarts
  <2>5. ASSUME NEW d \in Creation, Apart(c, d), Fresh(s, d) PROVE Fresh(n, d)
    <3>1. CASE d.op = "TaskCreate"
      BY <2>4, <2>5, <3>1 DEF Fresh, PrioOf
    <3>2. CASE d.op # "TaskCreate"
      <4>1. d.e \in Event \ {e}
        BY <1>1, <2>2, <2>5, <3>2, CreationIs DEF Apart
      <4> QED
        BY <2>4, <2>5, <3>2, <4>1 DEF Fresh
    <3> QED
      BY <3>1, <3>2
  <2>6. NoMessages(s) => NoMessages(n)
    BY <1>1, <2>4 DEF NoMessages
  <2> QED
    BY <2>4, <2>5, <2>6 DEF Kept
<1>2. PICK cnt, msg, a, b, q :
         /\ cnt = IF c.op = "SemCreate" THEN c.cnt ELSE 0
         /\ msg = IF c.op = "MboxCreate" THEN c.msg ELSE NULL
         /\ a = [FreeEcb EXCEPT !.OSEventType = "SEM", !.OSEventCnt = cnt]
         /\ b = [FreeEcb EXCEPT !.OSEventType = "MBOX", !.OSEventPtr = msg]
         /\ q = [FreeEcb EXCEPT !.OSEventType = "Q", !.OSEventPtr = NewQ]
  OBVIOUS
<1>3. cnt \in Nat /\ msg \in Message \cup {NULL}
  BY <1>2, CreationIs
<1>4. a = [FreeEcb EXCEPT !.OSEventType = "SEM", !.OSEventCnt = cnt]
  BY <1>2
<1>5. b = [FreeEcb EXCEPT !.OSEventType = "MBOX", !.OSEventPtr = msg]
  BY <1>2
<1>6. q = [FreeEcb EXCEPT !.OSEventType = "Q", !.OSEventPtr = NewQ]
  BY <1>2
<1>7. \A x \in {a, b, q} : EcbOK(x) /\ x.wait = NoBits /\ (x.OSEventType = "Q" => x.OSEventPtr.OSQEntries = 0)
  BY <1>3, <1>4, <1>5, <1>6, NewEcbs
<1>8. CASE c.op = "SemCreate"
  <2>1. n = NewEvent(s, c.e, a).s
    BY <1>2, <1>8 DEF Created, OSSemCreate
  <2> QED
    BY <1>1, <1>7, <1>8, <2>1
<1>9. CASE c.op = "MboxCreate"
  <2>1. n = NewEvent(s, c.e, b).s
    BY <1>2, <1>9 DEF Created, OSMboxCreate
  <2> QED
    BY <1>1, <1>7, <1>9, <2>1
<1>10. CASE c.op = "QCreate"
  <2>1. n = OSQCreate(s, c.e).s
    BY <1>10 DEF Created
  <2>2. n = s \/ n = NewEvent(s, c.e, q).s
    BY <1>6, <2>1 DEF OSQCreate, Return
  <2>3. CASE n = s
    BY <2>3 DEF Kept
  <2>4. CASE n = NewEvent(s, c.e, q).s
    BY <1>1, <1>7, <1>10, <2>4
  <2> QED
    BY <2>2, <2>3, <2>4
<1>11. CASE c.op = "TaskCreate"
  <2>1. PICK t, p : t = c.tcb /\ p = c.prio
    OBVIOUS
  <2>2. t \in Task /\ p \in Prio /\ p # OS_TASK_IDLE_PRIO
    BY <1>11, <2>1, CreationIs
  <2>3. PrioOf(s, t) = NULL /\ s.OSTCBPrioTbl[p] = NULL
    BY <1>11, <2>1 DEF Fresh
  <2>4. n = TaskCreateReady(TaskCreateTcb(OSTaskCreate(s, p).s, p, t).s, p).s
    BY <1>11, <2>1 DEF Created
  <2>5. /\ Starts(n) /\ n.ecb = s.ecb
        /\ \A u \in Tcb \ {t} : n.tcb[u] = s.tcb[u]
        /\ \A q1 \in Prio \ {p} : n.OSTCBPrioTbl[q1] = s.OSTCBPrioTbl[q1]
    BY <2>2, <2>3, <2>4, TaskStarts
  <2>6. ASSUME NEW d \in Creation, Apart(c, d), Fresh(s, d) PROVE Fresh(n, d)
    <3>1. CASE d.op = "TaskCreate"
      <4>1. d.tcb \in Tcb \ {t} /\ d.prio \in Prio \ {p}
        BY <1>11, <2>1, <2>6, <3>1, CreationIs DEF Apart, Tcb
      <4> QED
        BY <2>5, <2>6, <3>1, <4>1 DEF Fresh, PrioOf
    <3>2. CASE d.op # "TaskCreate"
      BY <2>5, <2>6, <3>2 DEF Fresh
    <3> QED
      BY <3>1, <3>2
  <2> QED
    BY <2>5, <2>6 DEF Kept, NoMessages
<1>12. CASE c.op = "MutexCreate"
  <2>1. c.prio = NULL /\ n = OSMutexCreate(s, c.e, c.prio).s
    BY <1>12, CreationIs DEF Created
  <2>2. PICK m : m = [FreeEcb EXCEPT !.OSEventType = "MUTEX", !.OSEventCnt = NULL, !.pcp = NULL]
    OBVIOUS
  <2>3. EcbOK(m) /\ m.wait = NoBits /\ m.OSEventType # "Q"
    BY <2>2, NewMutexIs
  <2>4. n = NewEvent(s, c.e, m).s
    BY <2>1, <2>2 DEF OSMutexCreate
  <2> QED
    BY <1>1, <1>12, <2>3, <2>4
<1> QED
  BY <1>8, <1>9, <1>10, <1>11, <1>12, CreationIs

-----------------------------------------------------------------------------
(* The states after each of main's creations. *)
BootRuns(g, m, main) ==
    g = [n \in 0 .. m |-> IF n = 0 THEN BlankTables ELSE Created(g[n - 1], main[n])]

(* The creations of main have a run of every length. *)
LEMMA BootRunsExist ==
  ASSUME NEW main, NEW m \in Nat
  PROVE  \E g : BootRuns(g, m, main)
<1> DEFINE Bad == {n \in Nat : ~\E g : BootRuns(g, n, main)}
<1>1. ASSUME Bad # {} PROVE FALSE
  <2>1. PICK n \in Bad : \A k \in Bad : n <= k
    BY <1>1, Least
  <2>2. CASE n = 0
    <3>1. PICK g : g = [k \in 0 .. 0 |-> BlankTables]
      OBVIOUS
    <3>2. BootRuns(g, 0, main)
      BY <3>1 DEF BootRuns
    <3> QED
      BY <2>1, <2>2, <3>2
  <2>3. CASE n > 0
    <3>1. n \in Nat /\ n - 1 \in Nat /\ n - 1 \notin Bad
      BY <2>1, <2>3
    <3>2. PICK g : BootRuns(g, n - 1, main)
      BY <3>1
    <3>3. PICK h : h = [k \in 0 .. n |-> IF k = n THEN Created(g[n - 1], main[n]) ELSE g[k]]
      OBVIOUS
    <3>4. \A k \in 0 .. n - 1 : h[k] = g[k]
      BY <3>1, <3>3
    <3>5. \A k \in 0 .. n - 1 : g[k] = IF k = 0 THEN BlankTables ELSE Created(g[k - 1], main[k])
      BY <3>1, <3>2 DEF BootRuns
    <3>6. ASSUME NEW k \in 0 .. n
          PROVE  h[k] = IF k = 0 THEN BlankTables ELSE Created(h[k - 1], main[k])
      <4>1. CASE k = n
        <5>1. h[n - 1] = g[n - 1]
          BY <2>3, <3>1, <3>4
        <5> QED
          BY <2>3, <3>3, <4>1, <5>1
      <4>2. CASE k # n
        <5>1. k \in 0 .. n - 1 /\ (k # 0 => k - 1 \in 0 .. n - 1)
          BY <3>1, <4>2
        <5>2. h[k] = g[k] /\ (k # 0 => h[k - 1] = g[k - 1])
          BY <3>4, <5>1
        <5>3. g[k] = IF k = 0 THEN BlankTables ELSE Created(g[k - 1], main[k])
          BY <3>5, <5>1
        <5> QED
          BY <5>2, <5>3
      <4> QED
        BY <4>1, <4>2
    <3>7. BootRuns(h, n, main)
      BY <3>3, <3>6 DEF BootRuns
    <3> QED
      BY <2>1, <3>7
  <2> QED
    BY <2>1, <2>2, <2>3
<1> QED
  BY <1>1

(* The first state is the end of such a run. *)
LEMMA BootedIs ==
  ASSUME NEW sc, NEW main, main = Setup[sc].main, Len(main) \in Nat
  PROVE  \E g : BootRuns(g, Len(main), main) /\ Booted(sc) = g[Len(main)]
<1>1. PICK g : g = CHOOSE h : BootRuns(h, Len(main), main)
  OBVIOUS
<1>2. BootRuns(g, Len(main), main)
  BY <1>1, BootRunsExist
<1>3. Booted(sc) = g[Len(main)]
  BY <1>1 DEF Booted, BootRuns, BlankTables
<1> QED
  BY <1>2, <1>3

(* Whatever main creates, in whatever order, the tables are right and the  *)
(* queues empty when it calls OSStart.                                     *)
LEMMA BootStarts ==
  ASSUME NEW sc \in Scenarios, Signalling(sc)
  PROVE  Starts(Booted(sc)) /\ NoMessages(Booted(sc))
<1>1. PICK main : main = Setup[sc].main
  OBVIOUS
<1>2. PICK N : N = Len(main)
  OBVIOUS
<1>3. N \in Nat /\ \A i \in 1 .. N : main[i] \in Creation
  BY <1>1, <1>2 DEF Signalling
<1>4. PICK g : BootRuns(g, N, main) /\ Booted(sc) = g[N]
  BY <1>1, <1>2, <1>3, BootedIs
<1>5. \A i, j \in 1 .. N : i # j => Apart(main[i], main[j])
  BY <1>1, <1>2 DEF Signalling, CreatedApart, Apart
<1>6. g[0] = BlankTables /\ \A n \in 1 .. N : g[n] = Created(g[n - 1], main[n])
  <2>1. \A n \in 0 .. N : g[n] = IF n = 0 THEN BlankTables ELSE Created(g[n - 1], main[n])
    BY <1>3, <1>4 DEF BootRuns
  <2> QED
    BY <1>3, <2>1
<1> DEFINE Good(n) == Starts(g[n]) /\ NoMessages(g[n]) /\ \A j \in n + 1 .. N : Fresh(g[n], main[j])
           Bad == {n \in 0 .. N : ~Good(n)}
<1>7. Good(0)
  <2>1. PICK b : b = BlankTables
    OBVIOUS
  <2>2. Starts(b) /\ NoMessages(b) /\ \A c \in Creation : Fresh(b, c)
    BY <2>1, BlankStarts, BlankFresh, BlankEmpty
  <2> QED
    BY <1>3, <1>6, <2>1, <2>2
<1>8. ASSUME NEW n \in 1 .. N, Good(n - 1) PROVE Good(n)
  <2>1. PICK s, r, c : s = g[n - 1] /\ r = g[n] /\ c = main[n]
    OBVIOUS
  <2>2. Starts(s) /\ NoMessages(s) /\ c \in Creation /\ Fresh(s, c) /\ r = Created(s, c)
    <3>1. n \in (n - 1) + 1 .. N
      BY <1>3
    <3> QED
      BY <1>3, <1>6, <1>8, <2>1, <3>1
  <2>3. Starts(r) /\ Kept(s, r, c) /\ NoMessages(r)
    BY <2>2, CreateStarts DEF Kept
  <2>4. ASSUME NEW j \in n + 1 .. N PROVE Fresh(r, main[j])
    <3>1. j \in (n - 1) + 1 .. N /\ j \in 1 .. N /\ j # n
      BY <1>3
    <3>2. Fresh(s, main[j])
      BY <1>8, <2>1, <3>1
    <3>3. Apart(c, main[j]) /\ main[j] \in Creation
      BY <1>3, <1>5, <2>1, <3>1
    <3> QED
      BY <2>3, <3>2, <3>3 DEF Kept
  <2> QED
    BY <2>1, <2>3, <2>4
<1>9. ASSUME Bad # {} PROVE FALSE
  <2>1. PICK n \in Bad : \A k \in Bad : n <= k
    <3>1. Bad \subseteq Nat
      BY <1>3
    <3> QED
      BY <1>9, <3>1, Least
  <2>2. n \in 1 .. N /\ n - 1 \in 0 .. N /\ n - 1 \notin Bad
    BY <1>3, <1>7, <2>1
  <2>3. Good(n)
    BY <1>8, <2>2
  <2> QED
    BY <2>1, <2>3
<1>10. Good(N)
  BY <1>3, <1>9
<1> QED
  BY <1>4, <1>10

-----------------------------------------------------------------------------
(* The invariant and the properties. *)

(* The first state of a signalling scenario satisfies the invariant. *)
LEMMA KernelInit ==
  ASSUME Init, Signalling(scenario)
  PROVE  KernelInv
<1>1. Starts(os) /\ frame = Apps /\ credit = [e \in Event |-> Contents(os.ecb[e])]
  BY BootStarts DEF Init, Apps
<1>2. ListsOK(os, frame) /\ SchedOK(os, frame)
  BY <1>1 DEF Starts
<1>3. ASSUME NEW e \in Event PROVE Contents(os.ecb[e]) \in Nat /\ Contents(os.ecb[e]) = Count(os, frame, e)
  <2>1. GrantedIn(os, frame, e) = {}
    BY <1>1 DEF GrantedIn, Asleep, Apps, App, Tcb
  <2>2. GrantedTo(os, frame, e) = 0
    BY <2>1, FS_EmptySet DEF GrantedTo
  <2> QED
    BY <1>2, <2>2, CountIs
<1>4. CreditOK(os, frame, credit)
  BY <1>1, <1>3 DEF CreditOK
<1>5. OwnersOK(os, held)
  BY DEF Init, OwnersOK
<1> QED
  BY <1>2, <1>4, <1>5 DEF KernelInv

(* Under the invariant the fields of the kernel hold what their            *)
(* declarations say.                                                       *)
LEMMA ListsTyped ==
  ASSUME ListsOK(os, frame), SchedOK(os, frame)
  PROVE  TypeOK
<1>1. KernelType(os) /\ os.OSIntNesting = 0
  BY DEF ListsOK, SchedOK
<1>2. os.OSTCBCur \in Tcb \cup {NULL} /\ os.OSTCBHighRdy \in Tcb \cup {NULL}
  BY <1>1 DEF KernelType
<1>3. os.OSPrioCur \in Prio /\ os.OSPrioHighRdy \in Prio /\ os.OSLockNesting \in 0 .. 2
  BY <1>1 DEF KernelType
<1>4. os.OSRdy.tbl \subseteq Prio /\ \A e \in Event : os.ecb[e].wait.tbl \subseteq Prio
  BY <1>1 DEF KernelType, EcbOK, Agrees, Bits
<1>5. \A p \in Prio : os.OSTCBPrioTbl[p] \in Tcb \cup {NULL, RESERVED}
  BY <1>1 DEF KernelType
<1>6. ASSUME NEW t \in Tcb
      PROVE  /\ os.tcb[t].OSTCBDly \in Nat /\ os.tcb[t].OSTCBPrio \in Prio \cup {NULL}
             /\ os.tcb[t].OSTCBStat \subseteq OS_STAT_PEND_ANY \cup {"SUSPEND", "MULTI"}
  <2>1. os.tcb[t] \in TcbType
    BY <1>1 DEF KernelType
  <2> QED
    BY <2>1 DEF TcbType, OS_STAT_PEND_ANY
<1> QED
  BY <1>1, <1>2, <1>3, <1>4, <1>5, <1>6 DEF TypeOK

(* A TCB in use has a priority, the priority table finds it, and it is as  *)
(* it should be.                                                           *)
LEMMA LiveTaskIs ==
  ASSUME NEW s, NEW f, ListsOK(s, f), NEW t, t \in LiveTcbs(s)
  PROVE  /\ t \in Tcb /\ PrioOf(s, t) # NULL /\ PrioOf(s, t) \in Prio
         /\ s.OSTCBPrioTbl[PrioOf(s, t)] = t /\ TaskOK(s, f, t)
         /\ s.tcb[t] \in TcbType
<1>1. t \in Tcb /\ PrioOf(s, t) # NULL
  BY DEF LiveTcbs, PrioOf
<1>2. TaskOK(s, f, t) /\ s.tcb[t] \in TcbType /\ s.OSTCBPrioTbl[PrioOf(s, t)] = t
  BY <1>1 DEF ListsOK, TablesOK, KernelType
<1>3. PrioOf(s, t) \in Prio
  BY <1>1, <1>2 DEF TcbType, PrioOf
<1> QED
  BY <1>1, <1>2, <1>3

(* The invariant says that the lists agree. *)
LEMMA ListsKeep ==
  ASSUME KernelInv
  PROVE  ListsAgree
<1>1. ListsOK(os, frame) /\ SchedOK(os, frame) /\ KernelType(os) /\ TablesOK(os) /\ BitsTasks(os)
  BY DEF KernelInv, ListsOK
<1>2. TypeOK
  BY <1>1, ListsTyped
<1>3. \A list \in {os.OSRdy} \cup {os.ecb[e].wait : e \in Event} : list.grp = {Y(p) : p \in list.tbl}
  BY <1>1 DEF KernelType, EcbOK, Agrees
<1>4. ASSUME NEW p \in Prio, os.OSTCBPrioTbl[p] # NULL
      PROVE  os.OSTCBPrioTbl[p] \in LiveTcbs(os) /\ PrioOf(os, os.OSTCBPrioTbl[p]) = p
  <2>1. os.OSTCBPrioTbl[p] \in Tcb /\ PrioOf(os, os.OSTCBPrioTbl[p]) = p /\ p # NULL
    BY <1>1, <1>4, KernelAssumption DEF KernelType, TablesOK
  <2> QED
    BY <2>1 DEF LiveTcbs, PrioOf
<1>5. \A p \in os.OSRdy.tbl : \E t \in LiveTcbs(os) : PrioOf(os, t) = p
  BY <1>1, <1>2, <1>4 DEF TypeOK, BitsTasks
<1>6. \A t \in LiveTcbs(os) : os.OSTCBPrioTbl[PrioOf(os, t)] = t
  BY <1>1, LiveTaskIs
<1>7. ASSUME NEW e \in Event, NEW p \in os.ecb[e].wait.tbl
      PROVE  \E t \in LiveTcbs(os) :
                /\ PrioOf(os, t) = p
                /\ os.tcb[t].OSTCBEventPtr = e \/ e \in os.tcb[t].OSTCBEventMultiPtr
                /\ frame[t].at \in {"block", "resume"}
  <2>1. p \in Prio /\ p # NULL /\ os.OSTCBPrioTbl[p] # NULL /\ e # NULL
    BY <1>1, <1>2, KernelAssumption DEF TypeOK, BitsTasks, Tcb
  <2>2. PICK t : t = os.OSTCBPrioTbl[p]
    OBVIOUS
  <2>3. t \in LiveTcbs(os) /\ PrioOf(os, t) = p
    BY <1>4, <2>1, <2>2
  <2>4. TaskOK(os, frame, t) /\ os.tcb[t].OSTCBPrio = p
    BY <1>1, <2>3, LiveTaskIs DEF PrioOf
  <2>5. os.tcb[t].OSTCBEventPtr = e
    <3>1. \A x \in Event : os.tcb[t].OSTCBPrio # NULL =>
             (os.tcb[t].OSTCBPrio \in os.ecb[x].wait.tbl <=> os.tcb[t].OSTCBEventPtr = x)
      BY <2>4 DEF TaskOK
    <3> QED
      BY <1>7, <2>1, <2>4, <3>1
  <2>6. Asleep(frame, t)
    BY <2>1, <2>4, <2>5 DEF TaskOK
  <2> QED
    BY <2>3, <2>5, <2>6 DEF Asleep
<1> QED
  BY <1>2, <1>3, <1>5, <1>6, <1>7 DEF ListsAgree

(* The invariant says that the ready tasks are those nothing holds up. *)
LEMMA ReadyKeeps ==
  ASSUME KernelInv
  PROVE  ReadyIffRunnable
<1>1. ListsOK(os, frame)
  BY DEF KernelInv
<1>2. ASSUME NEW t \in LiveTcbs(os) PROVE PrioOf(os, t) \in os.OSRdy.tbl <=> Runnable(t)
  <2>1. TaskOK(os, frame, t) /\ PrioOf(os, t) # NULL /\ os.tcb[t] \in TcbType
    BY <1>1, LiveTaskIs
  <2>2. ~WaitsForFlags(t)
    BY <2>1 DEF WaitsForFlags, TcbType
  <2>3. WaitsFor(os, t) \in Event \cup {NULL} /\ \A e \in Event : e # NULL
    BY <2>1, KernelAssumption DEF WaitsFor, TcbType
  <2>4. WaitsForEvent(t) <=> WaitsFor(os, t) # NULL
    <3>1. \A e \in Event : OnList(t, e) <=> WaitsFor(os, t) = e
      BY <2>1 DEF TaskOK, OnList, PrioOf, WaitsFor
    <3> QED
      BY <2>3, <3>1 DEF WaitsForEvent
  <2>5. Runnable(t) <=> ~Stopped(os, t) /\ os.tcb[t].OSTCBDly = 0 /\ ~StillWaits(os, t)
    BY <2>2, <2>4 DEF Runnable, Stopped, StillWaits
  <2>6. PrioOf(os, t) \in os.OSRdy.tbl <=> (~Stopped(os, t) /\ os.tcb[t].OSTCBDly = 0 /\ ~StillWaits(os, t))
    BY <2>1 DEF TaskOK, PrioOf
  <2> QED
    BY <2>5, <2>6
<1> QED
  BY <1>2 DEF ReadyIffRunnable, Settled

(* The invariant says that no permit and no message is lost. *)
LEMMA CountKeeps ==
  ASSUME KernelInv
  PROVE  NothingLost
<1>1. ListsOK(os, frame) /\ CreditOK(os, frame, credit)
  BY DEF KernelInv
<1>2. ASSUME NEW e \in Event PROVE Granted(e) = GrantedIn(os, frame, e)
  <2>1. ASSUME NEW t \in Task, Asleep(frame, t)
        PROVE  frame[t].call.op \in PendOps /\ frame[t].call.op # "PendMulti"
    <3>1. t \in Tcb
      BY DEF Tcb
    <3> QED
      BY <1>1, <2>1, <3>1 DEF ListsOK, FrameOK, PendOps
  <2> QED
    BY <2>1 DEF Granted, GrantedIn, Asleep, WaitsFor, PendOps
<1> QED
  BY <1>1, <1>2 DEF NothingLost, CreditOK, Count

(* The invariant says that the highest ready task runs. *)
LEMMA HighestKeeps ==
  ASSUME KernelInv
  PROVE  HighestRuns
<1>1. ListsOK(os, frame) /\ SchedOK(os, frame)
  BY DEF KernelInv
<1>2. ASSUME NEW t \in Task, Runs(t), frame[t].at = "app", os.OSLockNesting = 0, NEW p \in os.OSRdy.tbl
      PROVE  PrioOf(os, t) <= p
  <2>1. Running(os, t)
    BY <1>2 DEF Runs, Running
  <2>2. os.OSPrioCur = Highest(os.OSRdy) /\ PrioOf(os, t) = os.OSPrioCur
    BY <1>1, <1>2, <2>1, CurReady, RunningIs
  <2>3. Highest(os.OSRdy) <= p
    BY <1>1, HighestReady
  <2> QED
    BY <2>2, <2>3
<1> QED
  BY <1>2 DEF HighestRuns

(* The invariant says that a mutex has one owner. *)
LEMMA MutexesKeep ==
  ASSUME KernelInv
  PROVE  MutualExclusion
<1>1. OwnersOK(os, held)
  BY DEF KernelInv
<1>2. ASSUME NEW h \in held, NEW k \in held, k[2] = h[2] PROVE k = h
  <2>1. h \in Task \X Event /\ k \in Task \X Event /\ h[1] = k[1]
    BY <1>1, <1>2 DEF OwnersOK
  <2> QED
    BY <1>2, <2>1
<1> QED
  BY <1>1, <1>2 DEF MutualExclusion, OwnersOK

(* The invariant stays true, and no ring moves, while nothing happens. *)
LEMMA KernelStutters ==
  ASSUME KernelInv, UNCHANGED vars
  PROVE  KernelStep
<1>1. os' = os /\ frame' = frame /\ credit' = credit /\ held' = held
  BY DEF vars
<1> QED
  BY <1>1, EventsSame DEF KernelInv, KernelStep

(* No step changes the scenario. *)
LEMMA ScenarioStays ==
  ASSUME [Next]_vars
  PROVE  scenario' = scenario
<1>1. CASE UNCHANGED vars
  BY <1>1 DEF vars
<1>2. CASE OS_Start \/ Switch \/ Tick \/ Interrupt
  BY <1>2 DEF OS_Start, Switch, Tick, Interrupt
<1>3. ASSUME NEW t \in Task, Call(t) PROVE scenario' = scenario
  <2>1. \A c, r : Service(t, c, r) => scenario' = scenario
    BY DEF Service, Finish
  <2>2. CASE Check(t) \/ TaskCreate(t) \/ TaskDel(t)
    BY <2>2 DEF Check, TaskCreate, TaskDel, Goto
  <2>3. CASE SemCall(t)
    BY <2>1, <2>3 DEF SemCall, SemPend, SemAccept, SemPost, SemSet, SemDel, SemPendAbort, SemCreate
  <2>4. CASE MutexCall(t)
    BY <2>1, <2>4 DEF MutexCall, MutexPend, MutexAccept, MutexPost, MutexDel, MutexCreate
  <2>5. CASE MboxCall(t)
    BY <2>1, <2>5 DEF MboxCall, MboxPend, MboxAccept, MboxPost, MboxPostOpt, MboxDel, MboxPendAbort,
       MboxCreate
  <2>6. CASE QCall(t)
    BY <2>1, <2>6 DEF QCall, QPend, QAccept, QPost, QPostFront, QPostOpt, QFlush, QDel, QPendAbort,
       QCreate, PendMulti
  <2>7. CASE FlagCall(t)
    BY <2>1, <2>7 DEF FlagCall, FlagPend, FlagAccept, FlagPost, FlagDel, FlagCreate
  <2>8. CASE TaskCall(t)
    BY <2>1, <2>2, <2>8 DEF TaskCall, TaskDelReq, TaskSuspend, TaskResume, TaskChangePrio, TimeDly,
       TimeDlyHMSM, TimeDlyResume, SchedLock, SchedUnlock
  <2> QED
    BY <1>3, <2>2, <2>3, <2>4, <2>5, <2>6, <2>7, <2>8 DEF Call
<1>4. ASSUME NEW t \in Task, Continue(t) PROVE scenario' = scenario
  <2>1. \A op, r : Resumes(t, op, r) => scenario' = scenario
    BY DEF Resumes
  <2>2. \A c, r : Finish(t, c, r) => scenario' = scenario
    BY DEF Finish
  <2> QED
    BY <1>4, <2>1, <2>2 DEF Continue, Sched, SemPendReturn, MutexPendReturn, MboxPendReturn, QPendReturn,
       PendMultiReturn, FlagPendReturn, TaskCreate_TCBInit, TaskCreate_Ready, TaskDel_Free, Goto
<1> QED
  BY <1>1, <1>2, <1>3, <1>4 DEF Next

-----------------------------------------------------------------------------
(* A signalling scenario keeps the invariant.                              *)
KernelSafe == scenario \in Scenarios /\ (Signalling(scenario) => KernelInv)

(* In a scenario whose tasks and interrupt handlers signal each other with *)
(* semaphores, mailboxes and queues, and whose tasks share mutexes without *)
(* a ceiling, whatever the number of tasks, events, priorities and         *)
(* messages, every reachable state satisfies the invariant.                *)
THEOREM KernelInvariant == Spec => []KernelSafe
<1>1. Init => KernelSafe
  BY KernelInit DEF Init, KernelSafe
<1>2. KernelSafe /\ [Next]_vars => KernelSafe'
  <2> SUFFICES ASSUME KernelSafe, [Next]_vars PROVE KernelSafe'
    OBVIOUS
  <2>1. scenario' = scenario
    BY ScenarioStays
  <2>2. ASSUME Signalling(scenario) PROVE KernelInv'
    BY <2>2, KernelNext, KernelStutters DEF KernelSafe, KernelStep
  <2> QED
    BY <2>1, <2>2 DEF KernelSafe
<1> QED
  BY <1>1, <1>2, PTL DEF Spec

(* The ready table, the wait lists, the priority table and the TCBs agree  *)
(* after every step of the services, the tick, the interrupts and the      *)
(* context switch: no wake-up, timeout or abort leaves a bit behind or a   *)
(* waiter off its list.                                                    *)
THEOREM SignallingKeepsLists == Spec => [](Signalling(scenario) => ListsAgree)
<1>1. KernelSafe => (Signalling(scenario) => ListsAgree)
  BY ListsKeep DEF KernelSafe
<1> QED
  BY <1>1, KernelInvariant, PTL

(* A task is in the ready table exactly when it is neither delayed nor     *)
(* suspended and waits for nothing: no interleaving of posts, timeouts,    *)
(* suspensions and aborts leaves a runnable task out or a waiting one in.  *)
THEOREM SignallingKeepsReady == Spec => [](Signalling(scenario) => ReadyIffRunnable)
<1>1. KernelSafe => (Signalling(scenario) => ReadyIffRunnable)
  BY ReadyKeeps DEF KernelSafe
<1> QED
  BY <1>1, KernelInvariant, PTL

(* Whatever was posted and not taken is in its event or on its way to a    *)
(* task, to which it was granted: timeouts, aborts and posts of interrupt  *)
(* handlers between the two halves of a pend lose nothing and double       *)
(* nothing.                                                                *)
THEOREM SignallingLosesNothing == Spec => [](Signalling(scenario) => NothingLost)
<1>1. KernelSafe => (Signalling(scenario) => NothingLost)
  BY CountKeeps DEF KernelSafe
<1> QED
  BY <1>1, KernelInvariant, PTL

(* Whenever a task runs its own code and the scheduler is not locked, no   *)
(* ready task has a higher priority: every service that may ready or stop  *)
(* a task ends with a look for the highest.                                *)
THEOREM SignallingRunsHighest == Spec => [](Signalling(scenario) => HighestRuns)
<1>1. KernelSafe => (Signalling(scenario) => HighestRuns)
  BY HighestKeeps DEF KernelSafe
<1> QED
  BY <1>1, KernelInvariant, PTL

(* No two tasks have the same mutex, and the one that has it is the owner  *)
(* in its event: the mutex handed to a waiter that has not run yet, whose  *)
(* wait ran out just before or just after, or that is suspended, and the   *)
(* post of a task that does not own it, leave one task with it at most.    *)
THEOREM SignallingKeepsMutexes == Spec => [](Signalling(scenario) => MutualExclusion)
<1>1. KernelSafe => (Signalling(scenario) => MutualExclusion)
  BY MutexesKeep DEF KernelSafe
<1> QED
  BY <1>1, KernelInvariant, PTL

-----------------------------------------------------------------------------
(* The order of the messages of a queue.                                   *)

(* The messages of a ring, first to last, and those of every event. *)
MsgsOf(q) == [i \in 1 .. q.OSQEntries |-> q.ring[(q.OSQOut + i - 1) % QSIZE]]
Queues(s) ==
    [e \in Event |-> IF s.ecb[e].OSEventType = "Q" THEN MsgsOf(s.ecb[e].OSEventPtr) ELSE <<>>]

(* The messages of a ring are a sequence, whose elements are in its slots. *)
LEMMA MsgsIs ==
  ASSUME NEW q, Ring(q)
  PROVE  /\ MsgsOf(q) \in Seq(Message) /\ Len(MsgsOf(q)) = q.OSQEntries
         /\ q.OSQEntries \in 0 .. QSIZE /\ QSIZE \in Nat \ {0}
         /\ \A i \in 1 .. q.OSQEntries : MsgsOf(q)[i] = q.ring[Slot(q.OSQOut, i - 1)]
<1>1. PICK out, len : out = q.OSQOut /\ len = q.OSQEntries
  OBVIOUS
<1>2. /\ QSIZE \in Nat \ {0} /\ out \in 0 .. QSIZE - 1 /\ len \in 0 .. QSIZE
      /\ \A i \in 0 .. len - 1 : q.ring[Slot(out, i)] \in Message
  BY <1>1, RingIs, ApplicationAssumption
<1>3. ASSUME NEW i \in 1 .. len
      PROVE  q.ring[(out + i - 1) % QSIZE] = q.ring[Slot(out, i - 1)] /\ i - 1 \in 0 .. len - 1
  <2>1. out + i - 1 = out + (i - 1) /\ i - 1 \in 0 .. len - 1
    BY <1>2
  <2> QED
    BY <2>1 DEF Slot
<1>4. \A i \in 1 .. len : MsgsOf(q)[i] = q.ring[Slot(out, i - 1)] /\ MsgsOf(q)[i] \in Message
  BY <1>1, <1>2, <1>3 DEF MsgsOf
<1>5. MsgsOf(q) = [i \in 1 .. len |-> MsgsOf(q)[i]]
  BY <1>1 DEF MsgsOf
<1>6. PICK m : m = MsgsOf(q)
  OBVIOUS
<1>7. m \in [1 .. len -> Message]
  BY <1>4, <1>5, <1>6
<1>8. len \in Nat
  BY <1>2
<1>9. m \in Seq(Message) /\ Len(m) = len
  BY <1>7, <1>8
<1> QED
  BY <1>1, <1>2, <1>4, <1>6, <1>9

(* Dropping the first message leaves the tail of the sequence. *)
LEMMA TailOf ==
  ASSUME NEW q, Ring(q), q.OSQEntries > 0
  PROVE  MsgsOf(q) # <<>> /\ MsgsOf(Dropping(q)) = Tail(MsgsOf(q))
<1>1. PICK n, a, b, t : n = Dropping(q) /\ a = MsgsOf(q) /\ b = MsgsOf(n) /\ t = Tail(a)
  OBVIOUS
<1>2. /\ Ring(n) /\ n.OSQEntries = q.OSQEntries - 1
      /\ \A i \in 0 .. n.OSQEntries - 1 : n.ring[Slot(n.OSQOut, i)] = q.ring[Slot(q.OSQOut, i + 1)]
  BY <1>1, Dropped
<1>3. /\ a \in Seq(Message) /\ Len(a) = q.OSQEntries /\ q.OSQEntries \in 1 .. QSIZE /\ QSIZE \in Nat
      /\ \A i \in 1 .. q.OSQEntries : a[i] = q.ring[Slot(q.OSQOut, i - 1)]
  BY <1>1, MsgsIs
<1>4. /\ b \in Seq(Message) /\ Len(b) = n.OSQEntries
      /\ \A i \in 1 .. n.OSQEntries : b[i] = n.ring[Slot(n.OSQOut, i - 1)]
  BY <1>1, <1>2, MsgsIs
<1>5. a # <<>>
  BY <1>3, EmptySeq
<1>6. t \in Seq(Message) /\ Len(t) = Len(a) - 1 /\ \A i \in 1 .. Len(t) : t[i] = a[i + 1]
  BY <1>1, <1>3, <1>5, HeadTailProperties
<1>7. ASSUME NEW i \in 1 .. Len(b) PROVE b[i] = t[i]
  <2>1. i \in 1 .. n.OSQEntries /\ i - 1 \in 0 .. n.OSQEntries - 1 /\ (i - 1) + 1 = i /\ (i + 1) - 1 = i
        /\ i + 1 \in 1 .. q.OSQEntries /\ i \in 1 .. Len(t)
    BY <1>2, <1>3, <1>4, <1>6
  <2>2. b[i] = q.ring[Slot(q.OSQOut, i)]
    BY <1>2, <1>4, <2>1
  <2>3. t[i] = q.ring[Slot(q.OSQOut, i)]
    BY <1>3, <1>6, <2>1
  <2> QED
    BY <2>2, <2>3
<1>8. b = t
  BY <1>2, <1>3, <1>4, <1>6, <1>7, SeqEqual
<1> QED
  BY <1>1, <1>5, <1>8

(* A message put at the ring's end is appended to the sequence. *)
LEMMA AppendOf ==
  ASSUME NEW q, Ring(q), q.OSQEntries < QSIZE, NEW msg \in Message
  PROVE  Len(MsgsOf(q)) < QSIZE /\ MsgsOf(Appending(q, msg)) = Append(MsgsOf(q), msg)
<1>1. PICK n, a, b, t : n = Appending(q, msg) /\ a = MsgsOf(q) /\ b = MsgsOf(n) /\ t = Append(a, msg)
  OBVIOUS
<1>2. /\ Ring(n) /\ n.OSQEntries = q.OSQEntries + 1
      /\ \A i \in 0 .. q.OSQEntries - 1 : n.ring[Slot(n.OSQOut, i)] = q.ring[Slot(q.OSQOut, i)]
      /\ n.ring[Slot(n.OSQOut, q.OSQEntries)] = msg
  BY <1>1, Appended
<1>3. /\ a \in Seq(Message) /\ Len(a) = q.OSQEntries /\ q.OSQEntries \in 0 .. QSIZE /\ QSIZE \in Nat
      /\ \A i \in 1 .. q.OSQEntries : a[i] = q.ring[Slot(q.OSQOut, i - 1)]
  BY <1>1, MsgsIs
<1>4. /\ b \in Seq(Message) /\ Len(b) = n.OSQEntries
      /\ \A i \in 1 .. n.OSQEntries : b[i] = n.ring[Slot(n.OSQOut, i - 1)]
  BY <1>1, <1>2, MsgsIs
<1>5. t \in Seq(Message) /\ Len(t) = Len(a) + 1 /\ (\A i \in 1 .. Len(a) : t[i] = a[i]) /\ t[Len(a) + 1] = msg
  BY <1>1, <1>3, AppendProperties
<1>6. ASSUME NEW i \in 1 .. Len(b) PROVE b[i] = t[i]
  <2>1. i \in 1 .. n.OSQEntries
    BY <1>4
  <2>2. CASE i = q.OSQEntries + 1
    <3>1. i - 1 = q.OSQEntries
      BY <1>3, <2>2
    <3> QED
      BY <1>2, <1>3, <1>4, <1>5, <2>1, <2>2, <3>1
  <2>3. CASE i # q.OSQEntries + 1
    <3>1. i \in 1 .. q.OSQEntries /\ i - 1 \in 0 .. q.OSQEntries - 1
      BY <1>2, <1>3, <2>1, <2>3
    <3> QED
      BY <1>2, <1>3, <1>4, <1>5, <2>1, <3>1
  <2> QED
    BY <2>2, <2>3
<1>7. b = t
  BY <1>2, <1>3, <1>4, <1>5, <1>6, SeqEqual
<1> QED
  BY <1>1, <1>3, <1>7

(* A message put before the ring's first comes first in the sequence. *)
LEMMA PrependOf ==
  ASSUME NEW q, Ring(q), q.OSQEntries < QSIZE, NEW msg \in Message
  PROVE  Len(MsgsOf(q)) < QSIZE /\ MsgsOf(Prepending(q, msg)) = <<msg>> \o MsgsOf(q)
<1>1. PICK n, a, b, o, t : n = Prepending(q, msg) /\ a = MsgsOf(q) /\ b = MsgsOf(n) /\ o = <<msg>> /\ t = o \o a
  OBVIOUS
<1>2. /\ Ring(n) /\ n.OSQEntries = q.OSQEntries + 1
      /\ \A i \in 0 .. q.OSQEntries - 1 : n.ring[Slot(n.OSQOut, i + 1)] = q.ring[Slot(q.OSQOut, i)]
      /\ n.ring[Slot(n.OSQOut, 0)] = msg
  BY <1>1, Prepended
<1>3. /\ a \in Seq(Message) /\ Len(a) = q.OSQEntries /\ q.OSQEntries \in 0 .. QSIZE /\ QSIZE \in Nat
      /\ \A i \in 1 .. q.OSQEntries : a[i] = q.ring[Slot(q.OSQOut, i - 1)]
  BY <1>1, MsgsIs
<1>4. /\ b \in Seq(Message) /\ Len(b) = n.OSQEntries
      /\ \A i \in 1 .. n.OSQEntries : b[i] = n.ring[Slot(n.OSQOut, i - 1)]
  BY <1>1, <1>2, MsgsIs
<1>50. o \in Seq(Message) /\ Len(o) = 1 /\ o[1] = msg
  BY <1>1
<1>5. /\ t \in Seq(Message) /\ Len(t) = Len(o) + Len(a)
      /\ \A i \in 1 .. Len(o) + Len(a) : t[i] = IF i <= Len(o) THEN o[i] ELSE a[i - Len(o)]
  BY <1>1, <1>3, <1>50, ConcatProperties
<1>6. ASSUME NEW i \in 1 .. Len(b) PROVE b[i] = t[i]
  <2>1. i \in 1 .. n.OSQEntries /\ i \in 1 .. 1 + Len(a)
    BY <1>2, <1>3, <1>4
  <2>2. CASE i = 1
    BY <1>2, <1>4, <1>5, <1>50, <2>1, <2>2
  <2>3. CASE i # 1
    <3>1. PICK j : j = i - 1
      OBVIOUS
    <3>2. j \in 1 .. q.OSQEntries /\ j - 1 \in 0 .. q.OSQEntries - 1 /\ (j - 1) + 1 = j /\ ~(i <= 1)
      BY <1>2, <1>3, <2>1, <2>3, <3>1
    <3>3. t[i] = a[j]
      BY <1>5, <1>50, <2>1, <3>1, <3>2
    <3>4. b[i] = n.ring[Slot(n.OSQOut, j)]
      BY <1>4, <2>1, <3>1
    <3>5. n.ring[Slot(n.OSQOut, j)] = q.ring[Slot(q.OSQOut, j - 1)]
      BY <1>2, <3>2
    <3>6. a[j] = q.ring[Slot(q.OSQOut, j - 1)]
      BY <1>3, <3>2
    <3> QED
      BY <3>3, <3>4, <3>5, <3>6
  <2> QED
    BY <2>2, <2>3
<1>7. b = t
  BY <1>2, <1>3, <1>4, <1>5, <1>50, <1>6, SeqEqual
<1> QED
  BY <1>1, <1>3, <1>7

(* A ring without entries is the empty sequence. *)
LEMMA NoMsgs ==
  ASSUME NEW q, q.OSQEntries = 0
  PROVE  MsgsOf(q) = <<>>
BY DEF MsgsOf

(* How the messages of one queue change. *)
MsgsMove(a, b) ==
    \/ a = b
    \/ b = <<>>
    \/ a # <<>> /\ b = Tail(a)
    \/ Len(a) < QSIZE /\ \E m \in Message : b = Append(a, m) \/ b = <<m>> \o a

(* What a service does to a ring is one step of a message queue. *)
LEMMA RingOrder ==
  ASSUME NEW q, Ring(q), NEW n, RingMoves(q, n)
  PROVE  MsgsMove(MsgsOf(q), MsgsOf(n))
<1>1. CASE n = q
  BY <1>1 DEF MsgsMove
<1>2. CASE n = Emptying(q)
  <2>1. n.OSQEntries = 0
    BY <1>2, RingIs DEF Emptying
  <2> QED
    BY <2>1, NoMsgs DEF MsgsMove
<1>3. CASE q.OSQEntries < QSIZE /\ \E m \in Message : n = Appending(q, m) \/ n = Prepending(q, m)
  <2>1. PICK m \in Message : n = Appending(q, m) \/ n = Prepending(q, m)
    BY <1>3
  <2>2. CASE n = Appending(q, m)
    BY <1>3, <2>2, AppendOf DEF MsgsMove
  <2>3. CASE n = Prepending(q, m)
    BY <1>3, <2>3, PrependOf DEF MsgsMove
  <2> QED
    BY <2>1, <2>2, <2>3
<1>4. CASE q.OSQEntries > 0 /\ n = Dropping(q)
  BY <1>4, TailOf DEF MsgsMove
<1> QED
  BY <1>1, <1>2, <1>3, <1>4 DEF RingMoves

(* A step that moves one ring at most is a step of one message queue, or   *)
(* of none.                                                                *)
LEMMA QueuesOrder ==
  ASSUME NEW s, NEW r, QueuesMove(r, s),
         \A e \in Event : s.ecb[e].OSEventType = "Q" => Ring(s.ecb[e].OSEventPtr)
  PROVE  \/ Queues(r) = Queues(s)
         \/ \E e \in Event : /\ MsgsMove(Queues(s)[e], Queues(r)[e])
                             /\ Queues(r) = [Queues(s) EXCEPT ![e] = Queues(r)[e]]
<1>1. \A x \in Event : r.ecb[x].OSEventType = s.ecb[x].OSEventType
  BY DEF QueuesMove
<1>2. ASSUME NEW x \in Event, RingStays(r, s, x) PROVE Queues(r)[x] = Queues(s)[x]
  BY <1>1, <1>2 DEF RingStays, Queues
<1>3. PICK a, b : a = Queues(s) /\ b = Queues(r)
  OBVIOUS
<1>4. a = [e \in Event |-> a[e]] /\ b = [e \in Event |-> b[e]]
  BY <1>3 DEF Queues
<1>5. CASE \A x \in Event : RingStays(r, s, x)
  BY <1>2, <1>3, <1>4, <1>5
<1>6. ASSUME NEW e \in Event, \A x \in Event \ {e} : RingStays(r, s, x),
             s.ecb[e].OSEventType = "Q" => RingMoves(s.ecb[e].OSEventPtr, r.ecb[e].OSEventPtr)
      PROVE  /\ MsgsMove(a[e], b[e])
             /\ b = [a EXCEPT ![e] = b[e]]
  <2>1. \A x \in Event \ {e} : b[x] = a[x]
    BY <1>2, <1>3, <1>6
  <2>2. b = [a EXCEPT ![e] = b[e]]
    BY <1>4, <2>1
  <2>3. CASE s.ecb[e].OSEventType = "Q"
    <3>1. a[e] = MsgsOf(s.ecb[e].OSEventPtr) /\ b[e] = MsgsOf(r.ecb[e].OSEventPtr)
      BY <1>1, <1>3, <2>3 DEF Queues
    <3> QED
      BY <1>6, <2>2, <2>3, <3>1, RingOrder
  <2>4. CASE s.ecb[e].OSEventType # "Q"
    <3>1. a[e] = <<>> /\ b[e] = <<>>
      BY <1>1, <1>3, <2>4 DEF Queues
    <3> QED
      BY <2>2, <3>1 DEF MsgsMove
  <2> QED
    BY <2>3, <2>4
<1> QED
  BY <1>3, <1>5, <1>6 DEF QueuesMove

(* A step of the kernel is a step of the message queues, or changes none   *)
(* of them.                                                                *)
LEMMA OrderStep ==
  ASSUME KernelInv, KernelStep
  PROVE  [Abstract!Next]_([e \in Event |-> QueueMsgs(e)])
<1>1. \A e \in Event : os.ecb[e].OSEventType = "Q" => Ring(os.ecb[e].OSEventPtr)
  BY EcbFields DEF KernelInv, EcbOK
<1>2. [e \in Event |-> QueueMsgs(e)] = Queues(os)
  BY DEF QueueMsgs, Queues, MsgsOf
<1>3. [e \in Event |-> QueueMsgs(e)]' = Queues(os')
  BY DEF QueueMsgs, Queues, MsgsOf
<1>4. CASE Queues(os') = Queues(os)
  BY <1>2, <1>3, <1>4
<1>5. ASSUME NEW e \in Event, MsgsMove(Queues(os)[e], Queues(os')[e]),
             Queues(os') = [Queues(os) EXCEPT ![e] = Queues(os')[e]]
      PROVE  [Abstract!Next]_([x \in Event |-> QueueMsgs(x)])
  <2>1. PICK a, b : a = Queues(os) /\ b = Queues(os')
    OBVIOUS
  <2>2. ASSUME NEW m, b[e] = m PROVE Abstract!Holds(e, m)
    BY <1>2, <1>3, <1>5, <2>1, <2>2 DEF Abstract!Holds
  <2>3. CASE a[e] = b[e]
    <3>1. b = a
      BY <1>5, <2>1, <2>3 DEF Queues
    <3> QED
      BY <1>2, <1>3, <2>1, <3>1
  <2>4. CASE b[e] = <<>>
    BY <2>2, <2>4 DEF Abstract!Next, Abstract!Clear
  <2>5. CASE a[e] # <<>> /\ b[e] = Tail(a[e])
    BY <1>2, <2>1, <2>2, <2>5 DEF Abstract!Next, Abstract!Take1
  <2>6. CASE Len(a[e]) < QSIZE /\ \E m \in Message : b[e] = Append(a[e], m) \/ b[e] = <<m>> \o a[e]
    BY <1>2, <2>1, <2>2, <2>6 DEF Abstract!Next, Abstract!Append1, Abstract!Prepend1
  <2> QED
    BY <1>5, <2>1, <2>3, <2>4, <2>5, <2>6 DEF MsgsMove
<1>6. \/ Queues(os') = Queues(os)
      \/ \E e \in Event : /\ MsgsMove(Queues(os)[e], Queues(os')[e])
                          /\ Queues(os') = [Queues(os) EXCEPT ![e] = Queues(os')[e]]
  BY <1>1, QueuesOrder DEF KernelStep
<1> QED
  BY <1>4, <1>5, <1>6

(* Queues start empty. *)
LEMMA OrderInit ==
  ASSUME Init, Signalling(scenario)
  PROVE  Abstract!Init
<1>1. NoMessages(os)
  BY BootStarts DEF Init
<1>2. ASSUME NEW e \in Event PROVE QueueMsgs(e) = <<>>
  BY <1>1 DEF QueueMsgs, NoMessages
<1> QED
  BY <1>2 DEF Abstract!Init

(* In a signalling scenario every queue is a sequence to which posts       *)
(* append, or prepend, one message while it is not full, from which its    *)
(* first message is taken, and which a flush empties: the ring with its    *)
(* two indices implements that, whoever posts and takes.                   *)
THEOREM SignallingKeepsOrder == Spec /\ Signalling(scenario) => ImplementsQueues
<1> DEFINE Safe == Signalling(scenario) /\ scenario \in Scenarios /\ KernelInv
<1>1. Init /\ Signalling(scenario) => Safe /\ Abstract!Init
  BY KernelInit, OrderInit DEF Init
<1>2. Safe /\ [Next]_vars => Safe' /\ [Abstract!Next]_([e \in Event |-> QueueMsgs(e)])
  <2> SUFFICES ASSUME Safe, [Next]_vars
               PROVE  Safe' /\ [Abstract!Next]_([e \in Event |-> QueueMsgs(e)])
    OBVIOUS
  <2>1. scenario' = scenario
    BY ScenarioStays
  <2>2. KernelStep
    BY KernelNext, KernelStutters
  <2>3. Signalling(scenario)'
    BY <2>1 DEF Signalling
  <2> QED
    BY <2>1, <2>2, <2>3, OrderStep DEF KernelStep
<1> HIDE DEF Safe
<1> QED
  BY <1>1, <1>2, PTL DEF Spec, ImplementsQueues, Abstract!Spec
=============================================================================
