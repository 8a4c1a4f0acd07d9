------------------------------- MODULE OsFlag -------------------------------
(***************************************************************************)
(* os_flag.c: event flag groups.  A waiting task's OS_FLAG_NODE is a local *)
(* variable of its OSFlagPend, linked into the group's list; OSFlagWaitList*)
(* links a group into the free list when it is not in use.  Flags are sets *)
(* of bits; a wait type says which way the bits must be and whether all.   *)
(***************************************************************************)
EXTENDS OsCore

CONSTANT FlagGrp

FreeGrp == [OSFlagType |-> "UNUSED", OSFlagWaitList |-> NULL, OSFlagFlags |-> {}]
NoNode  == [next |-> NULL, prev |-> NULL, grp |-> NULL, flags |-> {}, set |-> TRUE, all |-> TRUE]

(* OS_FlagInit, with the groups chained in some order. *)
OS_FlagInit ==
    LET order == CHOOSE o \in [1 .. Cardinality(FlagGrp) -> FlagGrp] :
                    \A i, j \in DOMAIN o : o[i] = o[j] => i = j
        Link(g) == LET i == CHOOSE j \in DOMAIN order : order[j] = g
                   IN  IF i + 1 \in DOMAIN order THEN order[i + 1] ELSE NULL
    IN  [grp  |-> [g \in FlagGrp |-> [FreeGrp EXCEPT !.OSFlagWaitList = Link(g)]],
         free |-> IF FlagGrp = {} THEN NULL ELSE order[1],
         node |-> [t \in Task |-> NoNode]]

(* The state of the flag groups is the field flag of the kernel. *)
Grp(s, g)  == s.flag.grp[g]
Node(s, t) == s.flag.node[t]

OSFlagCreate(s, flags) ==
    LET g == s.flag.free
    IN  IF g = NULL THEN Return(s, "FLAG_GRP_DEPLETED")
        ELSE [Return([s EXCEPT !.flag.free = Grp(s, g).OSFlagWaitList,
                               !.flag.grp[g] = [OSFlagType |-> "FLAG", OSFlagFlags |-> flags,
                                                OSFlagWaitList |-> NULL]], NONE)
                 EXCEPT !.val = g]

FlagsRdy(have, w) == IF w.set THEN w.flags \cap have ELSE w.flags \ have
Satisfied(have, w) == IF w.all THEN FlagsRdy(have, w) = w.flags ELSE FlagsRdy(have, w) # {}
Consumed(have, w, rdy) == IF ~w.consume THEN have ELSE IF w.set THEN have \ rdy ELSE have \cup rdy

FlagTypeRefused(s, g) == IF Grp(s, g).OSFlagType # "FLAG" THEN "EVENT_TYPE" ELSE NONE
FlagPendRefused(s, g) ==
    CASE s.OSIntNesting > 0  -> "PEND_ISR"
      [] s.OSLockNesting > 0 -> "PEND_LOCKED"
      [] OTHER -> FlagTypeRefused(s, g)
FlagDelRefused(s, g) == IF s.OSIntNesting > 0 THEN "DEL_ISR" ELSE FlagTypeRefused(s, g)

(* w = [flags, set, all, consume]: what is waited for. *)
FlagTake(s, g, w) ==
    LET have == Grp(s, g).OSFlagFlags
    IN  Deliver([s EXCEPT !.flag.grp[g].OSFlagFlags = Consumed(have, w, FlagsRdy(have, w))],
                FlagsRdy(have, w))

OSFlagAccept(s, g, w) ==
    IF Satisfied(Grp(s, g).OSFlagFlags, w) THEN FlagTake(s, g, w) ELSE Return(s, "FLAG_NOT_RDY")

OS_FlagBlock(s, g, w, timeout) ==
    LET t    == s.OSTCBCur
        next == Grp(s, g).OSFlagWaitList
        n    == [Unready(s, t) EXCEPT
                    !.tcb[t].OSTCBStat = @ \cup {"FLAG"},
                    !.tcb[t].OSTCBStatPend = "OK",
                    !.tcb[t].OSTCBDly = timeout,
                    !.tcb[t].OSTCBFlagNode = t,
                    !.flag.node[t] = [next |-> next, prev |-> NULL, grp |-> g,
                                      flags |-> w.flags, set |-> w.set, all |-> w.all],
                    !.flag.grp[g].OSFlagWaitList = t]
    IN  IF next = NULL THEN n ELSE [n EXCEPT !.flag.node[next].prev = t]

(* A task that need not wait keeps the flags in OSTCBFlagsRdy too. *)
OSFlagPend(s, g, w, timeout) ==
    IF Satisfied(Grp(s, g).OSFlagFlags, w)
    THEN LET r == FlagTake(s, g, w)
         IN  [r EXCEPT !.s.tcb[s.OSTCBCur].OSTCBFlagsRdy = r.val]
    ELSE Block(OS_FlagBlock(s, g, w, timeout))

OS_FlagUnlinkSingly(s, t) ==                                             \* mutant
    LET node == Node(s, t)
        n == IF node.prev = NULL
             THEN [s EXCEPT !.flag.grp[node.grp].OSFlagWaitList = node.next]
             ELSE [s EXCEPT !.flag.node[node.prev].next = node.next]
    IN  [n EXCEPT !.tcb[t].OSTCBFlagNode = NULL]

OS_FlagUnlink(s, t) ==
    LET node == Node(s, t)
        n == IF node.prev = NULL
             THEN [s EXCEPT !.flag.grp[node.grp].OSFlagWaitList = node.next]
             ELSE [s EXCEPT !.flag.node[node.prev].next = node.next]
        m == IF node.next \in Task THEN [n EXCEPT !.flag.node[node.next].prev = node.prev] ELSE n
    IN  [m EXCEPT !.tcb[t].OSTCBFlagNode = NULL]

OS_FlagTaskRdy(s, t, rdy, stat) ==
    LET n == [s EXCEPT !.tcb[t].OSTCBDly = 0, !.tcb[t].OSTCBFlagsRdy = rdy,
                       !.tcb[t].OSTCBStat = @ \ {"FLAG"}, !.tcb[t].OSTCBStatPend = stat]
    IN  OS_FlagUnlink(IF n.tcb[t].OSTCBStat = {} THEN Ready(n, t) ELSE n, t)

(* The second half of OSFlagPend.  A task that did not get its flags takes *)
(* its node off the list, whether or not it is still on it; one that did   *)
(* consumes them only now.                                                 *)
OSFlagPendReturn(s, g, w) ==
    LET t    == s.OSTCBCur
        tcb  == s.tcb[t]
        gone == [OS_FlagUnlink(s, t) EXCEPT !.tcb[t].OSTCBStatPend = "OK",
                                            !.tcb[t].OSTCBStat = {}]
        got  == [s EXCEPT !.flag.grp[g].OSFlagFlags = Consumed(@, w, tcb.OSTCBFlagsRdy)]
        r    == CASE tcb.OSTCBStatPend = "OK"    -> Deliver(got, tcb.OSTCBFlagsRdy)
                  [] tcb.OSTCBStatPend = "ABORT" -> Return(gone, "ABORT")
                  [] tcb.OSTCBStatPend = "TO"    -> Return(gone, "TIMEOUT")
    IN  [r EXCEPT !.s.flag.node[t] = NoNode]

(* The nodes of a list from node on, as the loops of OSFlagPost and        *)
(* OSFlagDel meet them: each reads OSFlagNodeNext after the node before it *)
(* has been served.                                                        *)
Walk(s, g, Serve(_, _)) ==
    LET after[i \in 0 .. Cardinality(Task)] ==
            IF i = 0 THEN [s |-> s, at |-> Grp(s, g).OSFlagWaitList]
            ELSE LET p == after[i - 1]
                     n == Serve(p.s, p.at)
                 IN  IF p.at \in Task THEN [s |-> n, at |-> Node(n, p.at).next] ELSE p
    IN  after[Cardinality(Task)].s

OSFlagPostHead(s, g, flags, set) ==                                      \* mutant
    LET n == [s EXCEPT !.flag.grp[g].OSFlagFlags = IF set THEN @ \cup flags ELSE @ \ flags]
        have == Grp(n, g).OSFlagFlags
        t == Grp(n, g).OSFlagWaitList
    IN  IF t # NULL /\ Satisfied(have, Node(n, t))
        THEN ThenSched(OS_FlagTaskRdy(n, t, FlagsRdy(have, Node(n, t)), "OK"), NONE)
        ELSE Return(n, NONE)

(* OS_Sched is called if a task that was served is not suspended, also     *)
(* when a tick had readied it before and the ready table stays as it was.  *)
OSFlagPost(s, g, flags, set) ==
    LET n == [s EXCEPT !.flag.grp[g].OSFlagFlags = IF set THEN @ \cup flags ELSE @ \ flags]
        have == Grp(n, g).OSFlagFlags
        Serve(p, t) == IF Satisfied(have, Node(p, t))
                       THEN OS_FlagTaskRdy(p, t, FlagsRdy(have, Node(p, t)), "OK") ELSE p
        r == Walk(n, g, Serve)
        served == {t \in Task : n.tcb[t].OSTCBFlagNode # NULL /\ r.tcb[t].OSTCBFlagNode = NULL}
    IN  IF \E t \in served : r.tcb[t].OSTCBStat = {} THEN ThenSched(r, NONE) ELSE Return(r, NONE)

OSFlagDel(s, g, always) ==
    LET Serve(p, t) == OS_FlagTaskRdy(p, t, {}, "ABORT")
        r == Walk(s, g, Serve)
        d == [r EXCEPT !.flag.grp[g] = [FreeGrp EXCEPT !.OSFlagWaitList = s.flag.free],
                       !.flag.free = g]
    IN  CASE Grp(s, g).OSFlagWaitList # NULL /\ ~always -> Return(s, "TASK_WAITING")
          [] Grp(s, g).OSFlagWaitList # NULL /\ always  -> ThenSched(d, NONE)
          [] OTHER -> Return(d, NONE)
=============================================================================
