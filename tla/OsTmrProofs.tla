---------------------------- MODULE OsTmrProofs ----------------------------
(***************************************************************************)
(* However many timers and spokes there are and however wide OSTmrTime is, *)
(* every timer expires at its tick and at no other.                        *)
(***************************************************************************)
EXTENDS OsTmr, Integers, Sequences, FiniteSetTheorems, TLAPS

First(q) == IF Len(q) = 0 THEN NULL ELSE q[1]

Tmr == [OSTmrState : {"UNUSED", "STOPPED", "RUNNING", "COMPLETED"},
        OSTmrNext : Timer \cup {NULL}, OSTmrPrev : Timer \cup {NULL},
        OSTmrMatch : 0 .. TIME - 1, OSTmrDly : 0 .. TIME - 1, OSTmrPeriod : 0 .. TIME - 1,
        OSTmrOpt : {"NONE", "ONE_SHOT", "PERIODIC"}]
Spokes == 0 .. WHEEL - 1
Wheels == [tmr : [Timer -> Tmr], first : [Spokes -> Timer \cup {NULL}]]
MaybeTimer == Timer \cup {NULL}

(* A timer that exists can be started; one that does not shows nothing. *)
Optioned(t) ==
  IF t.OSTmrState = "UNUSED"
  THEN t.OSTmrDly = 0 /\ t.OSTmrPeriod = 0 /\ t.OSTmrOpt = "NONE"
  ELSE IF t.OSTmrOpt = "PERIODIC" THEN t.OSTmrPeriod > 0 ELSE t.OSTmrDly > 0

Forth(w, q) ==
  \A i \in 1 .. Len(q) :
    w[q[i]].OSTmrNext = IF i + 1 \in 1 .. Len(q) THEN q[i + 1] ELSE NULL
Once(q) == \A i, j \in 1 .. Len(q) : q[i] = q[j] => i = j

(* The timers that do not exist are on the free list, once. *)
OnFreeList(w, h, q) ==
  /\ h = First(q) /\ Forth(w, q) /\ Once(q)
  /\ \A t \in Timer : w[t].OSTmrState = "UNUSED" <=> \E i \in 1 .. Len(q) : q[i] = t
FreeListed(w, h) == \E q \in Seq(Timer) : OnFreeList(w, h, q)

(* A spoke's list goes forth and back through the timers that run and are  *)
(* to expire at one of its times.                                          *)
Runs(w, s, t) == w.tmr[t].OSTmrState = "RUNNING" /\ w.tmr[t].OSTmrMatch % WHEEL = s
OnSpoke(w, s, q) ==
  /\ w.first[s] = First(q) /\ Forth(w.tmr, q) /\ Once(q)
  /\ \A i \in 1 .. Len(q) :
       w.tmr[q[i]].OSTmrPrev = IF i - 1 \in 1 .. Len(q) THEN q[i - 1] ELSE NULL
  /\ \A t \in Timer : Runs(w, s, t) <=> \E i \in 1 .. Len(q) : q[i] = t

(* Of the timers in the list, none but x that is due stands before p.      *)
Before(w, q, k, now, x) ==
  \A i \in 1 .. k : q[i] # x => w.tmr[q[i]].OSTmrMatch # now
Visited(w, q, now, p, x) ==
  IF p = NULL THEN Before(w, q, Len(q), now, x)
  ELSE \E k \in 1 .. Len(q) : q[k] = p /\ Before(w, q, k - 1, now, x)
SpokeOK(w, s, q, now, p, x) ==
  OnSpoke(w, s, q) /\ (s = now % WHEEL => Visited(w, q, now, p, x))
WheelOK(w, now, p, x) ==
  \A s \in Spokes : \E q \in Seq(Timer) : SpokeOK(w, s, q, now, p, x)

(* The timer that OSTmr_Task will look at next. *)
Cursor == CASE task.at = "pend" -> NULL
            [] task.at = "visit" -> task.ptmr
            [] task.at = "callback" -> task.next

TaskOK ==
  /\ task \in [at : {"pend", "visit", "callback"}, ptmr : MaybeTimer, next : MaybeTimer]
  /\ task.at = "callback" => task.ptmr \in Timer /\ task.next # task.ptmr

(* What every service keeps, besides the wheel. *)
Kept(w, h) ==
  /\ w \in Wheels /\ h \in MaybeTimer /\ FreeListed(w.tmr, h)
  /\ \A t \in Timer : Optioned(w.tmr[t])

TmrInv ==
  /\ OSTmrTime \in 0 .. TIME - 1 /\ TaskOK
  /\ Kept(Wheel, OSTmrFreeList) /\ WheelOK(Wheel, OSTmrTime, Cursor, NULL)

-----------------------------------------------------------------------------
(* The clock.                                                              *)

LEMMA Wraps ==
  ASSUME NEW n \in Nat \ {0}, NEW k \in 0 .. 2 * n - 1
  PROVE  k % n = (IF k < n THEN k ELSE k - n) /\ k % n \in 0 .. n - 1
<1>1. CASE k < n
  BY <1>1
<1>2. CASE k >= n
  <2>1. k - n \in 0 .. n - 1 /\ k = (k - n) + n
    BY <1>2
  <2> QED
    BY <2>1
<1> QED
  BY <1>1, <1>2

(* The ticks from a time to another. *)
Until(m, now) == (TIME + m - now) % TIME

LEMMA UntilIs ==
  ASSUME NEW now \in 0 .. TIME - 1, NEW m \in 0 .. TIME - 1
  PROVE  /\ Until(m, now) = (IF now <= m THEN m - now ELSE TIME + m - now)
         /\ Until(m, now) \in 0 .. TIME - 1
         /\ Until(m, now) = 0 <=> m = now
<1>1. TIME \in Nat \ {0} /\ TIME + m - now \in 0 .. 2 * TIME - 1
  BY TmrAssumption
<1>2. Until(m, now) = IF TIME + m - now < TIME THEN TIME + m - now
                 ELSE TIME + m - now - TIME
  <2>1. PICK k \in 0 .. 2 * TIME - 1 : k = TIME + m - now
    BY <1>1
  <2>2. k % TIME = IF k < TIME THEN k ELSE k - TIME
    BY <1>1, Wraps
  <2>3. Until(m, now) = k % TIME
    BY <2>1, Zenon DEF Until
  <2>4. Until(m, now) = IF k < TIME THEN k ELSE k - TIME
    BY <2>2, <2>3, Zenon
  <2> QED
    BY <1>1, <2>1, <2>4
<1> QED
  BY <1>1, <1>2

LEMMA MatchIs ==
  ASSUME NEW now \in 0 .. TIME - 1, NEW d \in 1 .. TIME - 1
  PROVE  /\ (now + d) % TIME \in 0 .. TIME - 1
         /\ (now + d) % TIME # now
         /\ Until((now + d) % TIME, now) = d
<1>1. TIME \in Nat \ {0} /\ now + d \in 0 .. 2 * TIME - 1
  BY TmrAssumption
<1>2. PICK m : m = (now + d) % TIME
  OBVIOUS
<1>3. m \in 0 .. TIME - 1 /\ m = IF now + d < TIME THEN now + d ELSE now + d - TIME
  <2>1. PICK k \in 0 .. 2 * TIME - 1 : k = now + d
    BY <1>1
  <2>2. k % TIME = (IF k < TIME THEN k ELSE k - TIME) /\ k % TIME \in 0 .. TIME - 1
    BY <1>1, Wraps
  <2> QED
    <3>1. m = k % TIME
      BY <1>2, <2>1, Zenon
    <3>2. m \in 0 .. TIME - 1 /\ m = IF k < TIME THEN k ELSE k - TIME
      BY <2>2, <3>1, Zenon
    <3> QED
      BY <1>1, <2>1, <3>2
<1>4. Until(m, now) = IF now <= m THEN m - now ELSE TIME + m - now
  BY <1>3, UntilIs
<1>5. m # now /\ Until(m, now) = d
  BY <1>1, <1>3, <1>4
<1> QED
  BY <1>2, <1>3, <1>5

LEMMA SpokeIs ==
  ASSUME NEW m \in Nat
  PROVE  m % WHEEL \in Spokes
BY TmrAssumption DEF Spokes

-----------------------------------------------------------------------------
(* Taking a timer off the wheel.                                           *)

(* Fields of a timer that no list uses. *)
SameSettings(r1, r2) ==
  /\ r1.OSTmrMatch = r2.OSTmrMatch /\ r1.OSTmrDly = r2.OSTmrDly
  /\ r1.OSTmrPeriod = r2.OSTmrPeriod /\ r1.OSTmrOpt = r2.OSTmrOpt

SetPrev(w, t, p) == [w EXCEPT !.tmr[t].OSTmrPrev = p]

LEMMA SetPrevIs ==
  ASSUME NEW w \in Wheels, NEW t \in Timer, NEW p \in MaybeTimer
  PROVE  /\ SetPrev(w, t, p) \in Wheels /\ SetPrev(w, t, p).first = w.first
         /\ \A x \in Timer :
              /\ SameSettings(SetPrev(w, t, p).tmr[x], w.tmr[x])
              /\ SetPrev(w, t, p).tmr[x].OSTmrState = w.tmr[x].OSTmrState
              /\ SetPrev(w, t, p).tmr[x].OSTmrNext = w.tmr[x].OSTmrNext
              /\ SetPrev(w, t, p).tmr[x].OSTmrPrev = IF x = t THEN p ELSE w.tmr[x].OSTmrPrev
<1>1. w.tmr \in [Timer -> Tmr] /\ w.tmr[t] \in Tmr
  BY DEF Wheels
<1>2. PICK r : r = [w.tmr[t] EXCEPT !.OSTmrPrev = p]
  OBVIOUS
<1>3. /\ r \in Tmr /\ SameSettings(r, w.tmr[t]) /\ r.OSTmrState = w.tmr[t].OSTmrState
      /\ r.OSTmrNext = w.tmr[t].OSTmrNext /\ r.OSTmrPrev = p
  BY <1>1, <1>2 DEF Tmr, SameSettings, MaybeTimer
<1>4. /\ SetPrev(w, t, p).tmr = [w.tmr EXCEPT ![t] = r] /\ SetPrev(w, t, p).first = w.first
      /\ SetPrev(w, t, p) \in Wheels
  BY <1>1, <1>2, <1>3 DEF SetPrev, Wheels
<1> QED
  BY <1>1, <1>3, <1>4 DEF SameSettings

SetNext(w, t, p) == [w EXCEPT !.tmr[t].OSTmrNext = p]

LEMMA SetNextIs ==
  ASSUME NEW w \in Wheels, NEW t \in Timer, NEW p \in MaybeTimer
  PROVE  /\ SetNext(w, t, p) \in Wheels /\ SetNext(w, t, p).first = w.first
         /\ \A x \in Timer :
              /\ SameSettings(SetNext(w, t, p).tmr[x], w.tmr[x])
              /\ SetNext(w, t, p).tmr[x].OSTmrState = w.tmr[x].OSTmrState
              /\ SetNext(w, t, p).tmr[x].OSTmrPrev = w.tmr[x].OSTmrPrev
              /\ SetNext(w, t, p).tmr[x].OSTmrNext = IF x = t THEN p ELSE w.tmr[x].OSTmrNext
<1>1. w.tmr \in [Timer -> Tmr] /\ w.tmr[t] \in Tmr
  BY DEF Wheels
<1>2. PICK r : r = [w.tmr[t] EXCEPT !.OSTmrNext = p]
  OBVIOUS
<1>3. /\ r \in Tmr /\ SameSettings(r, w.tmr[t]) /\ r.OSTmrState = w.tmr[t].OSTmrState
      /\ r.OSTmrPrev = w.tmr[t].OSTmrPrev /\ r.OSTmrNext = p
  BY <1>1, <1>2 DEF Tmr, SameSettings, MaybeTimer
<1>4. /\ SetNext(w, t, p).tmr = [w.tmr EXCEPT ![t] = r] /\ SetNext(w, t, p).first = w.first
      /\ SetNext(w, t, p) \in Wheels
  BY <1>1, <1>2, <1>3 DEF SetNext, Wheels
<1> QED
  BY <1>1, <1>3, <1>4 DEF SameSettings

SetStopped(w, t) ==
  [w EXCEPT !.tmr[t].OSTmrState = "STOPPED", !.tmr[t].OSTmrNext = NULL, !.tmr[t].OSTmrPrev = NULL]

LEMMA SetStoppedIs ==
  ASSUME NEW w \in Wheels, NEW t \in Timer
  PROVE  /\ SetStopped(w, t) \in Wheels /\ SetStopped(w, t).first = w.first
         /\ \A x \in Timer :
              /\ SameSettings(SetStopped(w, t).tmr[x], w.tmr[x])
              /\ SetStopped(w, t).tmr[x].OSTmrState = IF x = t THEN "STOPPED" ELSE w.tmr[x].OSTmrState
              /\ SetStopped(w, t).tmr[x].OSTmrNext = IF x = t THEN NULL ELSE w.tmr[x].OSTmrNext
              /\ SetStopped(w, t).tmr[x].OSTmrPrev = IF x = t THEN NULL ELSE w.tmr[x].OSTmrPrev
<1>1. w.tmr \in [Timer -> Tmr] /\ w.tmr[t] \in Tmr
  BY DEF Wheels
<1>2. PICK r : r = [w.tmr[t] EXCEPT !.OSTmrState = "STOPPED", !.OSTmrNext = NULL, !.OSTmrPrev = NULL]
  OBVIOUS
<1>3. /\ r \in Tmr /\ SameSettings(r, w.tmr[t]) /\ r.OSTmrState = "STOPPED"
      /\ r.OSTmrPrev = NULL /\ r.OSTmrNext = NULL
  BY <1>1, <1>2 DEF Tmr, SameSettings
<1>4. /\ SetStopped(w, t).tmr = [w.tmr EXCEPT ![t] = r] /\ SetStopped(w, t).first = w.first
      /\ SetStopped(w, t) \in Wheels
  BY <1>1, <1>2, <1>3 DEF SetStopped, Wheels
<1> QED
  BY <1>1, <1>3, <1>4 DEF SameSettings

Unlinked(w, t, v) ==
  LET next == w.tmr[t].OSTmrNext
      prev == w.tmr[t].OSTmrPrev
      head == w.first[Spoke(w, t)] = t
  IN  /\ \A x \in Timer :
           /\ SameSettings(v.tmr[x], w.tmr[x])
           /\ v.tmr[x].OSTmrState = IF x = t THEN "STOPPED" ELSE w.tmr[x].OSTmrState
           /\ v.tmr[x].OSTmrNext = IF x = t THEN NULL
                                   ELSE IF ~head /\ x = prev THEN next ELSE w.tmr[x].OSTmrNext
           /\ v.tmr[x].OSTmrPrev = IF x = t THEN NULL
                                   ELSE IF x = next THEN IF head THEN NULL ELSE prev
                                   ELSE w.tmr[x].OSTmrPrev
      /\ \A s \in Spokes : v.first[s] = IF head /\ s = Spoke(w, t) THEN next ELSE w.first[s]

LEMMA UnlinkIs ==
  ASSUME NEW w \in Wheels, NEW t \in Timer,
         w.first[Spoke(w, t)] = t \/ w.tmr[t].OSTmrPrev \in Timer
  PROVE  OSTmr_Unlink(w, t) \in Wheels /\ Unlinked(w, t, OSTmr_Unlink(w, t))
<1> DEFINE next == w.tmr[t].OSTmrNext
           prev == w.tmr[t].OSTmrPrev
           head == w.first[Spoke(w, t)] = t
           a == IF head THEN [w EXCEPT !.first[Spoke(w, t)] = next]
                        ELSE [w EXCEPT !.tmr[prev].OSTmrNext = next]
           b == IF next = NULL THEN a
                ELSE [a EXCEPT !.tmr[next].OSTmrPrev = IF head THEN NULL ELSE prev]
           v == [b EXCEPT !.tmr[t].OSTmrState = "STOPPED", !.tmr[t].OSTmrNext = NULL,
                          !.tmr[t].OSTmrPrev = NULL]
<1>1. OSTmr_Unlink(w, t) = v
  BY DEF OSTmr_Unlink
<1>2. /\ next \in Timer \cup {NULL} /\ prev \in Timer \cup {NULL} /\ Spoke(w, t) \in Spokes
      /\ head \/ prev \in Timer
  BY SpokeIs, TmrAssumption DEF Wheels, Tmr, Spoke
<1>3. /\ a \in Wheels
      /\ \A x \in Timer :
           /\ SameSettings(a.tmr[x], w.tmr[x])
           /\ a.tmr[x].OSTmrState = w.tmr[x].OSTmrState
           /\ a.tmr[x].OSTmrNext = IF ~head /\ x = prev THEN next ELSE w.tmr[x].OSTmrNext
           /\ a.tmr[x].OSTmrPrev = w.tmr[x].OSTmrPrev
      /\ \A s \in Spokes :
           a.first[s] = IF head /\ s = Spoke(w, t) THEN next ELSE w.first[s]
  <2>1. CASE head
    <3>1. a.tmr = w.tmr /\ a.first = [w.first EXCEPT ![Spoke(w, t)] = next]
      BY <2>1 DEF Wheels
    <3>2. a \in Wheels
      BY <1>2, <2>1 DEF Wheels
    <3> HIDE DEF a, next
    <3> QED
      BY <1>2, <2>1, <3>1, <3>2 DEF Wheels, SameSettings
  <2>2. CASE ~head
    <3>1. a = SetNext(w, prev, next) /\ prev \in Timer
      BY <1>2, <2>2 DEF SetNext
    <3> HIDE DEF a, next, prev, head
    <3>2. /\ a \in Wheels /\ a.first = w.first
          /\ \A x \in Timer :
               /\ SameSettings(a.tmr[x], w.tmr[x])
               /\ a.tmr[x].OSTmrState = w.tmr[x].OSTmrState
               /\ a.tmr[x].OSTmrPrev = w.tmr[x].OSTmrPrev
               /\ a.tmr[x].OSTmrNext = IF x = prev THEN next ELSE w.tmr[x].OSTmrNext
      <4>1. w \in Wheels /\ prev \in Timer /\ next \in MaybeTimer
        BY <1>2, <3>1 DEF MaybeTimer
      <4> QED
        BY <3>1, <4>1, SetNextIs, SMTT(30)
    <3> QED
      BY <2>2, <3>2
  <2> QED
    BY <2>1, <2>2
<1> HIDE DEF a
<1>4. /\ b \in Wheels
      /\ \A x \in Timer :
           /\ SameSettings(b.tmr[x], a.tmr[x])
           /\ b.tmr[x].OSTmrState = a.tmr[x].OSTmrState
           /\ b.tmr[x].OSTmrNext = a.tmr[x].OSTmrNext
           /\ b.tmr[x].OSTmrPrev = IF x = next THEN IF head THEN NULL ELSE prev
                                   ELSE a.tmr[x].OSTmrPrev
      /\ \A s \in Spokes : b.first[s] = a.first[s]
  <2>1. CASE next = NULL
    <3>1. b = a
      BY <2>1
    <3> HIDE DEF b
    <3> QED
      BY <1>3, <2>1, <3>1, TmrAssumption DEF SameSettings
  <2>2. CASE next # NULL
    <3>1. PICK p : p = IF head THEN NULL ELSE prev
      OBVIOUS
    <3>2. p \in Timer \cup {NULL} /\ next \in Timer
      BY <1>2, <2>2, <3>1
    <3>3. b = SetPrev(a, next, p)
      BY <2>2, <3>1 DEF SetPrev
    <3> HIDE DEF next, b, head, prev
    <3>4. /\ b \in Wheels /\ b.first = a.first
          /\ \A x \in Timer :
               /\ SameSettings(b.tmr[x], a.tmr[x])
               /\ b.tmr[x].OSTmrState = a.tmr[x].OSTmrState
               /\ b.tmr[x].OSTmrNext = a.tmr[x].OSTmrNext
               /\ b.tmr[x].OSTmrPrev = IF x = next THEN p ELSE a.tmr[x].OSTmrPrev
      <4>1. a \in Wheels /\ next \in Timer /\ p \in MaybeTimer
        BY <1>3, <3>2 DEF MaybeTimer
      <4> QED
        BY <3>3, <4>1, SetPrevIs
    <3> QED
      BY <3>1, <3>4
  <2> QED
    BY <2>1, <2>2
<1> HIDE DEF b
<1>5. v = SetStopped(b, t)
  BY DEF SetStopped
<1> HIDE DEF v
<1>6. /\ v \in Wheels
      /\ \A x \in Timer :
           /\ SameSettings(v.tmr[x], b.tmr[x])
           /\ v.tmr[x].OSTmrState = IF x = t THEN "STOPPED" ELSE b.tmr[x].OSTmrState
           /\ v.tmr[x].OSTmrNext = IF x = t THEN NULL ELSE b.tmr[x].OSTmrNext
           /\ v.tmr[x].OSTmrPrev = IF x = t THEN NULL ELSE b.tmr[x].OSTmrPrev
      /\ \A s \in Spokes : v.first[s] = b.first[s]
  BY <1>4, <1>5, SetStoppedIs
<1> HIDE DEF next, prev, head
<1>7. \A x \in Timer : SameSettings(v.tmr[x], w.tmr[x])
  BY <1>3, <1>4, <1>6 DEF SameSettings
<1>8. /\ \A x \in Timer :
           /\ v.tmr[x].OSTmrState = IF x = t THEN "STOPPED" ELSE w.tmr[x].OSTmrState
           /\ v.tmr[x].OSTmrNext = IF x = t THEN NULL
                                   ELSE IF ~head /\ x = prev THEN next ELSE w.tmr[x].OSTmrNext
           /\ v.tmr[x].OSTmrPrev = IF x = t THEN NULL
                                   ELSE IF x = next THEN IF head THEN NULL ELSE prev
                                   ELSE w.tmr[x].OSTmrPrev
      /\ \A s \in Spokes : v.first[s] = IF head /\ s = Spoke(w, t) THEN next ELSE w.first[s]
  BY <1>3, <1>4, <1>6
<1> QED
  BY <1>1, <1>6, <1>7, <1>8 DEF next, prev, head, Unlinked

-----------------------------------------------------------------------------
(* Putting a timer on the wheel.                                           *)

SetRunning(w, t, m, o) ==
  [w EXCEPT !.first[m % WHEEL] = t, !.tmr[t].OSTmrState = "RUNNING", !.tmr[t].OSTmrMatch = m,
            !.tmr[t].OSTmrNext = o, !.tmr[t].OSTmrPrev = NULL]

LEMMA SetRunningIs ==
  ASSUME NEW w \in Wheels, NEW t \in Timer, NEW m \in 0 .. TIME - 1, NEW o \in MaybeTimer
  PROVE  LET v == SetRunning(w, t, m, o)
         IN  /\ v \in Wheels
             /\ \A x \in Timer :
                  /\ x # t => SameSettings(v.tmr[x], w.tmr[x])
                  /\ v.tmr[x].OSTmrState = IF x = t THEN "RUNNING" ELSE w.tmr[x].OSTmrState
                  /\ v.tmr[x].OSTmrNext = IF x = t THEN o ELSE w.tmr[x].OSTmrNext
                  /\ v.tmr[x].OSTmrPrev = IF x = t THEN NULL ELSE w.tmr[x].OSTmrPrev
             /\ v.tmr[t].OSTmrMatch = m /\ v.tmr[t].OSTmrDly = w.tmr[t].OSTmrDly
             /\ v.tmr[t].OSTmrPeriod = w.tmr[t].OSTmrPeriod /\ v.tmr[t].OSTmrOpt = w.tmr[t].OSTmrOpt
             /\ \A s \in Spokes : v.first[s] = IF s = m % WHEEL THEN t ELSE w.first[s]
<1>1. w.tmr \in [Timer -> Tmr] /\ w.tmr[t] \in Tmr /\ w.first \in [Spokes -> MaybeTimer]
  BY DEF Wheels, MaybeTimer
<1>2. PICK r : r = [w.tmr[t] EXCEPT !.OSTmrState = "RUNNING", !.OSTmrMatch = m,
                                    !.OSTmrNext = o, !.OSTmrPrev = NULL]
  OBVIOUS
<1>3. /\ r \in Tmr /\ r.OSTmrState = "RUNNING" /\ r.OSTmrMatch = m
      /\ r.OSTmrPrev = NULL /\ r.OSTmrNext = o /\ r.OSTmrDly = w.tmr[t].OSTmrDly
      /\ r.OSTmrPeriod = w.tmr[t].OSTmrPeriod /\ r.OSTmrOpt = w.tmr[t].OSTmrOpt
  BY <1>1, <1>2 DEF Tmr, MaybeTimer
<1>4. PICK s : s = m % WHEEL
  OBVIOUS
<1>5. s \in Spokes
  BY <1>4, SpokeIs, TmrAssumption
<1>6. PICK f, g : f = [w.tmr EXCEPT ![t] = r] /\ g = [w.first EXCEPT ![s] = t]
  OBVIOUS
<1> f \in [Timer -> Tmr] /\ g \in [Spokes -> MaybeTimer]
  BY <1>1, <1>3, <1>5, <1>6 DEF MaybeTimer
<1> SetRunning(w, t, m, o) = [w EXCEPT !.tmr = f, !.first = g]
  BY <1>1, <1>2, <1>4, <1>6, ZenonT(30) DEF SetRunning, Wheels
<1>7. /\ SetRunning(w, t, m, o).tmr = [w.tmr EXCEPT ![t] = r]
      /\ SetRunning(w, t, m, o).first = [w.first EXCEPT ![s] = t]
      /\ SetRunning(w, t, m, o) \in Wheels
  BY <1>6 DEF Wheels, MaybeTimer
<1> QED
  BY <1>1, <1>3, <1>4, <1>5, <1>7 DEF SameSettings

LinkBefore(w, t, m, old) ==
  IF old = NULL THEN SetRunning(w, t, m, old) ELSE SetPrev(SetRunning(w, t, m, old), old, t)
LinkAt(w, t, m) == LinkBefore(w, t, m, w.first[m % WHEEL])

Linked(w, t, m, v) ==
  LET old == w.first[m % WHEEL]
  IN  /\ \A x \in Timer :
           /\ x # t => SameSettings(v.tmr[x], w.tmr[x])
           /\ v.tmr[x].OSTmrState = IF x = t THEN "RUNNING" ELSE w.tmr[x].OSTmrState
           /\ v.tmr[x].OSTmrNext = IF x = t THEN old ELSE w.tmr[x].OSTmrNext
           /\ v.tmr[x].OSTmrPrev = IF x = old THEN t
                                   ELSE IF x = t THEN NULL ELSE w.tmr[x].OSTmrPrev
      /\ v.tmr[t].OSTmrMatch = m /\ v.tmr[t].OSTmrDly = w.tmr[t].OSTmrDly
      /\ v.tmr[t].OSTmrPeriod = w.tmr[t].OSTmrPeriod /\ v.tmr[t].OSTmrOpt = w.tmr[t].OSTmrOpt
      /\ \A s \in Spokes : v.first[s] = IF s = m % WHEEL THEN t ELSE w.first[s]

LEMMA LinkIs ==
  ASSUME NEW w \in Wheels, NEW t \in Timer, NEW d, NEW m \in 0 .. TIME - 1,
         m = (OSTmrTime + d) % TIME
  PROVE  OSTmr_Link(w, t, d) \in Wheels /\ Linked(w, t, m, OSTmr_Link(w, t, d))
<1>1. m = (OSTmrTime + d) % TIME
  OBVIOUS
<1>2. m \in 0 .. TIME - 1
  OBVIOUS
<1>3. PICK old : old = w.first[m % WHEEL]
  OBVIOUS
<1>4. m % WHEEL \in Spokes /\ old \in MaybeTimer
  <2>1. m % WHEEL \in Spokes
    BY <1>2, SpokeIs, TmrAssumption
  <2> QED
    BY <1>3, <2>1 DEF Wheels, MaybeTimer
<1>5. PICK a : a = SetRunning(w, t, m, old)
  OBVIOUS
<1>6. OSTmr_Link(w, t, d) = IF old = NULL THEN a ELSE SetPrev(a, old, t)
  <2>1. OSTmr_Link(w, t, d) = LinkAt(w, t, (OSTmrTime + d) % TIME)
    BY DEF OSTmr_Link, LinkAt, LinkBefore, SetRunning, SetPrev
  <2>2. OSTmr_Link(w, t, d) = LinkAt(w, t, m)
    BY <1>1, <2>1, Zenon
  <2>3. LinkAt(w, t, m) = LinkBefore(w, t, m, w.first[m % WHEEL])
    BY Zenon DEF LinkAt
  <2>4. LinkAt(w, t, m) = LinkBefore(w, t, m, old)
    BY <1>3, <2>3, Zenon
  <2> QED
    BY <1>5, <2>2, <2>4, Zenon DEF LinkBefore
<1>7. /\ a \in Wheels
      /\ \A x \in Timer :
           /\ x # t => SameSettings(a.tmr[x], w.tmr[x])
           /\ a.tmr[x].OSTmrState = IF x = t THEN "RUNNING" ELSE w.tmr[x].OSTmrState
           /\ a.tmr[x].OSTmrNext = IF x = t THEN old ELSE w.tmr[x].OSTmrNext
           /\ a.tmr[x].OSTmrPrev = IF x = t THEN NULL ELSE w.tmr[x].OSTmrPrev
      /\ a.tmr[t].OSTmrMatch = m /\ a.tmr[t].OSTmrDly = w.tmr[t].OSTmrDly
      /\ a.tmr[t].OSTmrPeriod = w.tmr[t].OSTmrPeriod /\ a.tmr[t].OSTmrOpt = w.tmr[t].OSTmrOpt
      /\ \A s \in Spokes : a.first[s] = IF s = m % WHEEL THEN t ELSE w.first[s]
  BY <1>2, <1>4, <1>5, SetRunningIs
<1>8. PICK v : v = OSTmr_Link(w, t, d)
  OBVIOUS
<1>9. /\ v \in Wheels /\ v.first = a.first
      /\ \A x \in Timer :
           /\ SameSettings(v.tmr[x], a.tmr[x])
           /\ v.tmr[x].OSTmrState = a.tmr[x].OSTmrState
           /\ v.tmr[x].OSTmrNext = a.tmr[x].OSTmrNext
           /\ v.tmr[x].OSTmrPrev = IF x = old THEN t ELSE a.tmr[x].OSTmrPrev
  <2>1. CASE old = NULL
    <3>1. v = a
      BY <1>6, <1>8, <2>1
    <3> QED
      BY <1>7, <2>1, <3>1, TmrAssumption DEF SameSettings
  <2>2. CASE old # NULL
    <3>1. v = SetPrev(a, old, t) /\ old \in Timer /\ t \in MaybeTimer
      BY <1>4, <1>6, <1>8, <2>2 DEF MaybeTimer
    <3> QED
      BY <1>7, <3>1, SetPrevIs
  <2> QED
    BY <2>1, <2>2
<1>10. \A x \in Timer : x # t => SameSettings(v.tmr[x], w.tmr[x])
  BY <1>7, <1>9 DEF SameSettings
<1>11. /\ v.tmr[t].OSTmrMatch = m /\ v.tmr[t].OSTmrDly = w.tmr[t].OSTmrDly
       /\ v.tmr[t].OSTmrPeriod = w.tmr[t].OSTmrPeriod /\ v.tmr[t].OSTmrOpt = w.tmr[t].OSTmrOpt
  BY <1>7, <1>9 DEF SameSettings
<1>12. /\ \A x \in Timer :
            /\ v.tmr[x].OSTmrState = IF x = t THEN "RUNNING" ELSE w.tmr[x].OSTmrState
            /\ v.tmr[x].OSTmrNext = IF x = t THEN old ELSE w.tmr[x].OSTmrNext
            /\ v.tmr[x].OSTmrPrev = IF x = old THEN t
                                    ELSE IF x = t THEN NULL ELSE w.tmr[x].OSTmrPrev
       /\ \A s \in Spokes : v.first[s] = IF s = m % WHEEL THEN t ELSE w.first[s]
  BY <1>7, <1>9
<1> QED
  BY <1>3, <1>8, <1>9, <1>10, <1>11, <1>12 DEF Linked

-----------------------------------------------------------------------------
(* The lists while timers come off and on.                                 *)

Without(q, k, r) ==
  /\ Len(r) = Len(q) - 1
  /\ \A i \in 1 .. Len(q) - 1 : r[i] = IF i < k THEN q[i] ELSE q[i + 1]

LEMMA WithoutExists ==
  ASSUME NEW q \in Seq(Timer), NEW k \in 1 .. Len(q)
  PROVE  \E r \in Seq(Timer) : Without(q, k, r)
<1>1. PICK n \in Nat : n = Len(q)
  OBVIOUS
<1>2. n - 1 \in Nat /\ k \in 1 .. n
  BY <1>1
<1>3. PICK r : r = [i \in 1 .. n - 1 |-> IF i < k THEN q[i] ELSE q[i + 1]]
  OBVIOUS
<1>4. \A i \in 1 .. n - 1 : i \in 1 .. n /\ i + 1 \in 1 .. n
  BY <1>2
<1>5. r \in [1 .. n - 1 -> Timer]
  BY <1>1, <1>3, <1>4
<1>6. r \in Seq(Timer) /\ Len(r) = n - 1
  BY <1>2, <1>5, <1>3
<1> QED
  BY <1>1, <1>3, <1>6 DEF Without

(* A timer that runs stands in its spoke's list, at one place. *)
LEMMA UnlinkedSpoke ==
  ASSUME NEW w \in Wheels, NEW v \in Wheels, NEW t \in Timer, Unlinked(w, t, v),
         NEW s \in Spokes, s = Spoke(w, t), NEW q \in Seq(Timer), OnSpoke(w, s, q),
         NEW k \in 1 .. Len(q), q[k] = t, NEW r \in Seq(Timer), Without(q, k, r)
  PROVE  OnSpoke(v, s, r)
<1>1. PICK n \in Nat : n = Len(q)
  OBVIOUS
<1>2. /\ k \in 1 .. n /\ q[k] = t /\ Len(r) = n - 1 /\ \A i \in 1 .. n : q[i] \in Timer
      /\ \A i \in 1 .. n - 1 : r[i] = IF i < k THEN q[i] ELSE q[i + 1]
  BY <1>1 DEF Without
<1>3. \A i, j \in 1 .. n : q[i] = q[j] => i = j
  BY <1>1 DEF OnSpoke, Once
<1>4. PICK next, prev : next = w.tmr[t].OSTmrNext /\ prev = w.tmr[t].OSTmrPrev
  OBVIOUS
<1>5. /\ \A i \in 1 .. n : w.tmr[q[i]].OSTmrNext = IF i + 1 \in 1 .. n THEN q[i + 1] ELSE NULL
      /\ \A i \in 1 .. n : w.tmr[q[i]].OSTmrPrev = IF i - 1 \in 1 .. n THEN q[i - 1] ELSE NULL
  BY <1>1 DEF OnSpoke, Forth
<1>6. /\ next = IF k + 1 \in 1 .. n THEN q[k + 1] ELSE NULL
      /\ prev = IF k - 1 \in 1 .. n THEN q[k - 1] ELSE NULL
  <2>1. w.tmr[q[k]].OSTmrNext = IF k + 1 \in 1 .. n THEN q[k + 1] ELSE NULL
    BY <1>2, <1>5
  <2>2. w.tmr[q[k]].OSTmrPrev = IF k - 1 \in 1 .. n THEN q[k - 1] ELSE NULL
    BY <1>2, <1>5
  <2> QED
    BY <1>2, <1>4, <2>1, <2>2
<1>7. w.first[s] = q[1] /\ 1 \in 1 .. n
  BY <1>1, <1>2 DEF OnSpoke, First
<1>8. w.first[s] = t <=> k = 1
  BY <1>2, <1>3, <1>7
<1>9. /\ \A x \in Timer :
           /\ SameSettings(v.tmr[x], w.tmr[x])
           /\ v.tmr[x].OSTmrState = IF x = t THEN "STOPPED" ELSE w.tmr[x].OSTmrState
           /\ v.tmr[x].OSTmrNext = IF x = t THEN NULL
                                   ELSE IF k # 1 /\ x = prev THEN next ELSE w.tmr[x].OSTmrNext
           /\ v.tmr[x].OSTmrPrev = IF x = t THEN NULL
                                   ELSE IF x = next THEN IF k = 1 THEN NULL ELSE prev
                                   ELSE w.tmr[x].OSTmrPrev
      /\ v.first[s] = IF k = 1 THEN next ELSE w.first[s]
  BY <1>4, <1>8 DEF Unlinked
<1>10. NULL \notin Timer
  BY TmrAssumption
<1>11. v.first[s] = First(r)
  <2>1. CASE k = 1
    <3>1. v.first[s] = IF 2 \in 1 .. n THEN q[2] ELSE NULL
      BY <1>6, <1>9, <2>1
    <3> QED
      BY <1>2, <2>1, <3>1 DEF First
  <2>2. CASE k # 1
    <3>1. 1 \in 1 .. n - 1 /\ 1 < k
      BY <1>2, <2>2
    <3> QED
      BY <1>2, <1>7, <1>9, <2>2, <3>1 DEF First
  <2> QED
    BY <2>1, <2>2
<1>12. \A i \in 1 .. n - 1 : \E j \in 1 .. n :
         /\ j = (IF i < k THEN i ELSE i + 1) /\ j # k /\ r[i] = q[j] /\ q[j] # t /\ q[j] \in Timer
         /\ q[j] = prev <=> j + 1 = k
         /\ q[j] = next <=> j = k + 1
  <2> SUFFICES ASSUME NEW i \in 1 .. n - 1
               PROVE  LET j == IF i < k THEN i ELSE i + 1
                      IN  /\ j \in 1 .. n /\ j # k /\ r[i] = q[j] /\ q[j] # t /\ q[j] \in Timer
                          /\ q[j] = prev <=> j + 1 = k
                          /\ q[j] = next <=> j = k + 1
    OBVIOUS
  <2>1. PICK j : j = IF i < k THEN i ELSE i + 1
    OBVIOUS
  <2>2. j \in 1 .. n /\ j # k /\ r[i] = q[j]
    BY <1>2, <2>1
  <2>3. q[j] # t /\ q[j] \in Timer
    BY <1>2, <1>3, <2>2
  <2>4. q[j] = prev <=> j + 1 = k
    <3>1. CASE k - 1 \in 1 .. n
      BY <1>2, <1>3, <1>6, <2>2, <3>1
    <3>2. CASE k - 1 \notin 1 .. n
      BY <1>2, <1>6, <1>10, <2>2, <2>3, <3>2
    <3> QED
      BY <3>1, <3>2
  <2>5. q[j] = next <=> j = k + 1
    <3>1. CASE k + 1 \in 1 .. n
      BY <1>2, <1>3, <1>6, <2>2, <3>1
    <3>2. CASE k + 1 \notin 1 .. n
      BY <1>2, <1>6, <1>10, <2>2, <2>3, <3>2
    <3> QED
      BY <3>1, <3>2
  <2> QED
    BY <2>1, <2>2, <2>3, <2>4, <2>5
<1>13. Forth(v.tmr, r)
  <2> SUFFICES ASSUME NEW i \in 1 .. n - 1
               PROVE  v.tmr[r[i]].OSTmrNext = IF i + 1 \in 1 .. n - 1 THEN r[i + 1] ELSE NULL
    BY <1>2 DEF Forth
  <2>1. PICK j \in 1 .. n :
          /\ j = (IF i < k THEN i ELSE i + 1) /\ j # k /\ r[i] = q[j] /\ q[j] # t /\ q[j] \in Timer
          /\ q[j] = prev <=> j + 1 = k
    BY <1>12
  <2>2. CASE j + 1 = k
    <3>1. v.tmr[q[j]].OSTmrNext = next
      BY <1>2, <1>9, <2>1, <2>2
    <3> QED
      BY <1>2, <1>6, <2>1, <2>2, <3>1
  <2>3. CASE j + 1 # k
    <3>1. v.tmr[q[j]].OSTmrNext = IF j + 1 \in 1 .. n THEN q[j + 1] ELSE NULL
      BY <1>5, <1>9, <2>1, <2>3
    <3> QED
      BY <1>2, <2>1, <2>3, <3>1
  <2> QED
    BY <2>2, <2>3
<1>14. \A i \in 1 .. n - 1 :
         v.tmr[r[i]].OSTmrPrev = IF i - 1 \in 1 .. n - 1 THEN r[i - 1] ELSE NULL
  <2> SUFFICES ASSUME NEW i \in 1 .. n - 1
               PROVE  v.tmr[r[i]].OSTmrPrev = IF i - 1 \in 1 .. n - 1 THEN r[i - 1] ELSE NULL
    OBVIOUS
  <2>1. PICK j \in 1 .. n :
          /\ j = (IF i < k THEN i ELSE i + 1) /\ j # k /\ r[i] = q[j] /\ q[j] # t /\ q[j] \in Timer
          /\ q[j] = next <=> j = k + 1
    BY <1>12
  <2>2. CASE j = k + 1
    <3>1. v.tmr[q[j]].OSTmrPrev = IF k = 1 THEN NULL ELSE prev
      BY <1>2, <1>9, <2>1, <2>2
    <3> QED
      BY <1>2, <1>6, <2>1, <2>2, <3>1
  <2>3. CASE j # k + 1
    <3>1. v.tmr[q[j]].OSTmrPrev = IF j - 1 \in 1 .. n THEN q[j - 1] ELSE NULL
      BY <1>5, <1>9, <2>1, <2>3
    <3> QED
      BY <1>2, <2>1, <2>3, <3>1, SMTT(30)
  <2> QED
    BY <2>2, <2>3
<1>15. Once(r)
  <2> SUFFICES ASSUME NEW i \in 1 .. n - 1, NEW j \in 1 .. n - 1, r[i] = r[j]
               PROVE  i = j
    BY <1>2 DEF Once
  <2>1. PICK i2 \in 1 .. n : i2 = (IF i < k THEN i ELSE i + 1) /\ r[i] = q[i2]
    BY <1>12
  <2>2. PICK j2 \in 1 .. n : j2 = (IF j < k THEN j ELSE j + 1) /\ r[j] = q[j2]
    BY <1>12
  <2>3. i2 = j2
    BY <1>3, <2>1, <2>2
  <2> QED
    BY <1>2, <2>1, <2>2, <2>3
<1>16. \A x \in Timer : Runs(v, s, x) <=> \E i \in 1 .. n - 1 : r[i] = x
  <2> SUFFICES ASSUME NEW x \in Timer
               PROVE  Runs(v, s, x) <=> \E i \in 1 .. n - 1 : r[i] = x
    OBVIOUS
  <2>1. Runs(v, s, x) <=> Runs(w, s, x) /\ x # t
    BY <1>9 DEF Runs, SameSettings
  <2>2. Runs(w, s, x) <=> \E j \in 1 .. n : q[j] = x
    BY <1>1 DEF OnSpoke
  <2>3. ASSUME NEW j \in 1 .. n, q[j] = x, x # t
        PROVE  \E i \in 1 .. n - 1 : r[i] = x
    <3>1. j # k
      BY <1>2, <2>3
    <3>2. PICK i : i = IF j < k THEN j ELSE j - 1
      OBVIOUS
    <3>3. i \in 1 .. n - 1 /\ r[i] = q[j]
      BY <1>2, <3>1, <3>2
    <3> QED
      BY <2>3, <3>3
  <2>4. ASSUME NEW i \in 1 .. n - 1, r[i] = x
        PROVE  x # t /\ \E j \in 1 .. n : q[j] = x
    BY <1>12, <2>4
  <2> QED
    BY <2>1, <2>2, <2>3, <2>4
<1> QED
  BY <1>2, <1>11, <1>13, <1>14, <1>15, <1>16 DEF OnSpoke

(* The list of another spoke stays. *)
LEMMA UnlinkedOther ==
  ASSUME NEW w \in Wheels, NEW v \in Wheels, NEW t \in Timer, Unlinked(w, t, v),
         NEW s0 \in Spokes, s0 = Spoke(w, t), NEW q0 \in Seq(Timer), OnSpoke(w, s0, q0),
         NEW k0 \in 1 .. Len(q0), q0[k0] = t,
         NEW s \in Spokes, s # s0, NEW q \in Seq(Timer), OnSpoke(w, s, q)
  PROVE  OnSpoke(v, s, q)
<1>1. PICK n \in Nat : n = Len(q)
  OBVIOUS
<1>2. \A i \in 1 .. n : q[i] \in Timer
  BY <1>1
<1>3. PICK next, prev : next = w.tmr[t].OSTmrNext /\ prev = w.tmr[t].OSTmrPrev
  OBVIOUS
<1>4. \A x \in Timer : x \in {t, next, prev} => ~Runs(w, s, x)
  <2>1. PICK m \in Nat : m = Len(q0)
    OBVIOUS
  <2>2. \A i \in 1 .. m : q0[i] \in Timer /\ Runs(w, s0, q0[i])
    BY <2>1 DEF OnSpoke
  <2>3. /\ \A i \in 1 .. m : w.tmr[q0[i]].OSTmrNext = IF i + 1 \in 1 .. m THEN q0[i + 1] ELSE NULL
        /\ \A i \in 1 .. m : w.tmr[q0[i]].OSTmrPrev = IF i - 1 \in 1 .. m THEN q0[i - 1] ELSE NULL
    BY <2>1 DEF OnSpoke, Forth
  <2>4. next = IF k0 + 1 \in 1 .. m THEN q0[k0 + 1] ELSE NULL
    BY <1>3, <2>1, <2>3
  <2>5. prev = IF k0 - 1 \in 1 .. m THEN q0[k0 - 1] ELSE NULL
    BY <1>3, <2>1, <2>3
  <2>6. \A x \in Timer : x \in {t, next, prev} => Runs(w, s0, x)
    BY <2>1, <2>2, <2>4, <2>5, TmrAssumption
  <2> QED
    BY <2>6 DEF Runs
<1>5. \A i \in 1 .. n : Runs(w, s, q[i]) /\ q[i] \notin {t, next, prev}
  BY <1>1, <1>2, <1>4 DEF OnSpoke
<1>6. \A x \in Timer : x \notin {t, next, prev} =>
        /\ v.tmr[x].OSTmrNext = w.tmr[x].OSTmrNext /\ v.tmr[x].OSTmrPrev = w.tmr[x].OSTmrPrev
  BY <1>3 DEF Unlinked
<1>7. v.first[s] = w.first[s]
  BY DEF Unlinked
<1>8. Forth(v.tmr, q)
  BY <1>1, <1>2, <1>5, <1>6 DEF OnSpoke, Forth
<1>9. \A i \in 1 .. n : v.tmr[q[i]].OSTmrPrev = IF i - 1 \in 1 .. n THEN q[i - 1] ELSE NULL
  BY <1>1, <1>2, <1>5, <1>6 DEF OnSpoke
<1>10. \A x \in Timer : Runs(v, s, x) <=> Runs(w, s, x)
  <2> TAKE x \in Timer
  <2>1. CASE x = t
    BY <1>4, <2>1 DEF Unlinked, Runs
  <2>2. CASE x # t
    BY <2>2 DEF Unlinked, Runs, SameSettings
  <2> QED
    BY <2>1, <2>2
<1> QED
  BY <1>1, <1>7, <1>8, <1>9, <1>10 DEF OnSpoke

(* The one that may be due before the cursor is the one that comes off. *)
MayStand(x, t) == x \in {t, NULL}

(* What OSTmr_Task has still to visit of a spoke is not changed by the     *)
(* timers that come off before.                                            *)
LEMMA UnlinkedVisited ==
  ASSUME NEW w, NEW v, NEW t \in Timer, Unlinked(w, t, v), NEW now, NEW p \in MaybeTimer, p # t,
         NEW x, MayStand(x, t), NEW q \in Seq(Timer), Once(q), Visited(w, q, now, p, x),
         NEW k \in 1 .. Len(q), q[k] = t, NEW r \in Seq(Timer), Without(q, k, r)
  PROVE  Visited(v, r, now, p, NULL)
<1>1. PICK n \in Nat : n = Len(q)
  OBVIOUS
<1>2. /\ k \in 1 .. n /\ q[k] = t /\ Len(r) = n - 1 /\ \A i \in 1 .. n : q[i] \in Timer
      /\ \A i \in 1 .. n - 1 : r[i] = IF i < k THEN q[i] ELSE q[i + 1]
  BY <1>1 DEF Without
<1>3. \A y \in Timer : v.tmr[y].OSTmrMatch = w.tmr[y].OSTmrMatch
  BY DEF Unlinked, SameSettings
<1>4. NULL \notin Timer
  BY TmrAssumption
<1>5. \A i \in 1 .. n - 1 : \E j \in 1 .. n :
        /\ j # k /\ r[i] = q[j] /\ q[j] # x /\ q[j] \in Timer
        /\ j = IF i < k THEN i ELSE i + 1
  <2> TAKE i \in 1 .. n - 1
  <2>1. PICK j : j = IF i < k THEN i ELSE i + 1
    OBVIOUS
  <2>2. j \in 1 .. n /\ j # k /\ r[i] = q[j]
    BY <1>2, <2>1
  <2>3. q[j] # t /\ q[j] \in Timer
    BY <1>1, <1>2, <2>2 DEF Once
  <2> QED
    BY <1>4, <2>1, <2>2, <2>3 DEF MayStand
<1>6. CASE p = NULL
  <2>1. \A i \in 1 .. n : q[i] # x => w.tmr[q[i]].OSTmrMatch # now
    BY <1>1, <1>6 DEF Visited, Before
  <2>2. \A i \in 1 .. n - 1 : v.tmr[r[i]].OSTmrMatch # now
    BY <1>3, <1>5, <2>1
  <2> QED
    BY <1>2, <1>6, <2>2 DEF Visited, Before
<1>7. CASE p # NULL
  <2>1. PICK j \in 1 .. n : q[j] = p /\ Before(w, q, j - 1, now, x)
    BY <1>1, <1>7 DEF Visited
  <2>2. j # k
    BY <1>2, <2>1
  <2>3. PICK j2 \in 1 .. n - 1 : j2 = (IF j < k THEN j ELSE j - 1) /\ r[j2] = p
    BY <1>2, <2>1, <2>2
  <2>4. Before(v, r, j2 - 1, now, NULL)
    <3> SUFFICES ASSUME NEW i \in 1 .. j2 - 1
                 PROVE  v.tmr[r[i]].OSTmrMatch # now
      BY DEF Before
    <3>1. i \in 1 .. n - 1
      BY <2>3
    <3>2. PICK i2 \in 1 .. n : i2 # k /\ r[i] = q[i2] /\ q[i2] # x /\ q[i2] \in Timer
                               /\ i2 = IF i < k THEN i ELSE i + 1
      BY <1>5, <3>1
    <3>3. i2 \in 1 .. j - 1
      BY <2>2, <2>3, <3>2
    <3> QED
      BY <1>3, <2>1, <3>2, <3>3 DEF Before
  <2> QED
    BY <1>2, <1>7, <2>3, <2>4 DEF Visited
<1> QED
  BY <1>6, <1>7

LEMMA UnlinkKeeps ==
  ASSUME NEW w \in Wheels, NEW t \in Timer, w.tmr[t].OSTmrState = "RUNNING",
         NEW now, NEW p \in MaybeTimer, p # t, NEW x \in {t, NULL}, WheelOK(w, now, p, x)
  PROVE  LET v == OSTmr_Unlink(w, t)
         IN  /\ v \in Wheels /\ Unlinked(w, t, v) /\ WheelOK(v, now, p, NULL)
             /\ \A y \in Timer : y # t /\ w.tmr[y].OSTmrState # "RUNNING" =>
                  v.tmr[y].OSTmrNext = w.tmr[y].OSTmrNext
<1>1. PICK s0 : s0 = Spoke(w, t)
  OBVIOUS
<1>2. s0 \in Spokes /\ Runs(w, s0, t)
  <2>1. w.tmr[t].OSTmrMatch \in Nat
    BY TmrAssumption DEF Wheels, Tmr
  <2> QED
    BY <1>1, <2>1, SpokeIs DEF Runs, Spoke
<1>3. PICK q0 \in Seq(Timer) : SpokeOK(w, s0, q0, now, p, x)
  BY <1>2 DEF WheelOK
<1>4. OnSpoke(w, s0, q0)
  BY <1>3 DEF SpokeOK
<1>5. PICK k0 \in 1 .. Len(q0) : q0[k0] = t
  BY <1>2, <1>4 DEF OnSpoke
<1>6. PICK v : v = OSTmr_Unlink(w, t)
  OBVIOUS
<1>7. /\ w.first[s0] = t \/ w.tmr[t].OSTmrPrev \in Timer
      /\ w.first[s0] # t => Runs(w, s0, w.tmr[t].OSTmrPrev)
  <2>1. PICK m \in Nat : m = Len(q0)
    OBVIOUS
  <2>2. w.tmr[t].OSTmrPrev = IF k0 - 1 \in 1 .. m THEN q0[k0 - 1] ELSE NULL
    BY <1>4, <1>5, <2>1 DEF OnSpoke
  <2>3. \A i \in 1 .. m : q0[i] \in Timer /\ Runs(w, s0, q0[i])
    BY <1>4, <2>1 DEF OnSpoke
  <2>4. w.first[s0] = IF m = 0 THEN NULL ELSE q0[1]
    BY <1>4, <2>1 DEF OnSpoke, First
  <2>5. CASE k0 = 1
    BY <1>5, <2>1, <2>4, <2>5
  <2>6. CASE k0 # 1
    <3>1. k0 - 1 \in 1 .. m
      BY <1>5, <2>1, <2>6
    <3> QED
      BY <2>2, <2>3, <3>1
  <2> QED
    BY <2>5, <2>6
<1>8. v \in Wheels /\ Unlinked(w, t, v)
  BY <1>1, <1>6, <1>7, UnlinkIs
<1>9. \A y \in Timer : y # t /\ w.tmr[y].OSTmrState # "RUNNING" =>
        v.tmr[y].OSTmrNext = w.tmr[y].OSTmrNext
  BY <1>1, <1>7, <1>8 DEF Unlinked, Runs
<1>10. WheelOK(v, now, p, NULL)
  <2> SUFFICES ASSUME NEW s \in Spokes
               PROVE  \E r \in Seq(Timer) : SpokeOK(v, s, r, now, p, NULL)
    BY DEF WheelOK
  <2>1. CASE s = s0
    <3>1. PICK r \in Seq(Timer) : Without(q0, k0, r)
      BY WithoutExists
    <3>2. OnSpoke(v, s, r)
      BY <1>1, <1>2, <1>4, <1>5, <1>8, <2>1, <3>1, UnlinkedSpoke
    <3>3. Once(q0)
      BY <1>4 DEF OnSpoke
    <3>4. ASSUME s = now % WHEEL
          PROVE  Visited(v, r, now, p, NULL)
      <4>1. Visited(w, q0, now, p, x)
        BY <1>3, <2>1, <3>4 DEF SpokeOK
      <4> QED
        BY <1>5, <1>8, <3>1, <3>3, <4>1, UnlinkedVisited DEF MayStand
    <3> QED
      BY <3>2, <3>4 DEF SpokeOK
  <2>2. CASE s # s0
    <3>1. PICK q \in Seq(Timer) : SpokeOK(w, s, q, now, p, x)
      BY DEF WheelOK
    <3>2. OnSpoke(w, s, q)
      BY <3>1 DEF SpokeOK
    <3>3. OnSpoke(v, s, q)
      BY <1>1, <1>2, <1>4, <1>5, <1>8, <2>2, <3>2, UnlinkedOther
    <3>4. ASSUME s = now % WHEEL
          PROVE  Visited(v, q, now, p, NULL)
      <4>1. Visited(w, q, now, p, x)
        BY <3>1, <3>4 DEF SpokeOK
      <4>2. PICK n \in Nat : n = Len(q)
        OBVIOUS
      <4>3. \A i \in 1 .. n : q[i] \in Timer /\ Runs(w, s, q[i])
        BY <3>2, <4>2 DEF OnSpoke
      <4>4. \A i \in 1 .. n : q[i] # x /\ v.tmr[q[i]].OSTmrMatch = w.tmr[q[i]].OSTmrMatch
        BY <1>2, <1>8, <2>2, <4>3, TmrAssumption DEF Runs, Unlinked, SameSettings
      <4>5. CASE p = NULL
        BY <4>1, <4>2, <4>4, <4>5 DEF Visited, Before
      <4>6. CASE p # NULL
        <5>1. PICK k \in 1 .. n : q[k] = p /\ Before(w, q, k - 1, now, x)
          BY <4>1, <4>2, <4>6 DEF Visited
        <5>2. \A i \in 1 .. k - 1 : i \in 1 .. n
          BY <4>2, <5>1
        <5>3. Before(v, q, k - 1, now, NULL)
          BY <4>4, <5>1, <5>2 DEF Before
        <5> QED
          BY <4>2, <4>6, <5>1, <5>3 DEF Visited
      <4> QED
        BY <4>5, <4>6
    <3> QED
      BY <3>3, <3>4 DEF SpokeOK
  <2> QED
    BY <2>1, <2>2
<1> QED
  BY <1>6, <1>8, <1>9, <1>10

Headed(t, q, r) ==
  /\ Len(r) = Len(q) + 1 /\ r[1] = t
  /\ \A i \in 1 .. Len(q) : r[i + 1] = q[i]

LEMMA HeadedExists ==
  ASSUME NEW T, NEW q \in Seq(T), NEW t \in T
  PROVE  \E r \in Seq(T) : Headed(t, q, r)
<1>1. PICK n \in Nat : n = Len(q)
  OBVIOUS
<1>2. PICK r : r = [i \in 1 .. n + 1 |-> IF i = 1 THEN t ELSE q[i - 1]]
  OBVIOUS
<1>3. \A i \in 1 .. n + 1 : i # 1 => i - 1 \in 1 .. n
  OBVIOUS
<1>4. r \in [1 .. n + 1 -> T]
  BY <1>1, <1>2, <1>3
<1>5. r \in Seq(T) /\ Len(r) = n + 1
  BY <1>2, <1>4
<1>6. \A i \in 1 .. n : i + 1 \in 1 .. n + 1 /\ i + 1 # 1 /\ (i + 1) - 1 = i
  OBVIOUS
<1>7. r[1] = t /\ \A i \in 1 .. n : r[i + 1] = q[i]
  BY <1>2, <1>6
<1> QED
  BY <1>1, <1>5, <1>7 DEF Headed

LEMMA LinkedSpoke ==
  ASSUME NEW w \in Wheels, NEW v \in Wheels, NEW t \in Timer, NEW m, Linked(w, t, m, v),
         w.tmr[t].OSTmrState # "RUNNING",
         NEW s \in Spokes, s = m % WHEEL, NEW q \in Seq(Timer), OnSpoke(w, s, q),
         NEW r \in Seq(Timer), Headed(t, q, r)
  PROVE  OnSpoke(v, s, r)
<1>1. PICK n \in Nat : n = Len(q)
  OBVIOUS
<1>2. /\ Len(r) = n + 1 /\ r[1] = t /\ \A i \in 1 .. n : q[i] \in Timer
      /\ \A i \in 1 .. n : r[i + 1] = q[i]
  BY <1>1 DEF Headed
<1>3. \A i \in 2 .. n + 1 : i - 1 \in 1 .. n /\ r[i] = q[i - 1]
  BY <1>2
<1>4. PICK old : old = w.first[s]
  OBVIOUS
<1>5. old = IF n = 0 THEN NULL ELSE q[1]
  BY <1>1, <1>4 DEF OnSpoke, First
<1>6. \A i \in 1 .. n : q[i] # t /\ q[i] \in Timer
  BY <1>1, <1>2 DEF OnSpoke, Runs
<1>7. \A i, j \in 1 .. n : q[i] = q[j] => i = j
  BY <1>1 DEF OnSpoke, Once
<1>8. /\ \A i \in 1 .. n : w.tmr[q[i]].OSTmrNext = IF i + 1 \in 1 .. n THEN q[i + 1] ELSE NULL
      /\ \A i \in 1 .. n : w.tmr[q[i]].OSTmrPrev = IF i - 1 \in 1 .. n THEN q[i - 1] ELSE NULL
  BY <1>1 DEF OnSpoke, Forth
<1>9. /\ \A x \in Timer :
           /\ x # t => SameSettings(v.tmr[x], w.tmr[x])
           /\ v.tmr[x].OSTmrState = IF x = t THEN "RUNNING" ELSE w.tmr[x].OSTmrState
           /\ v.tmr[x].OSTmrNext = IF x = t THEN old ELSE w.tmr[x].OSTmrNext
           /\ v.tmr[x].OSTmrPrev = IF x = old THEN t
                                   ELSE IF x = t THEN NULL ELSE w.tmr[x].OSTmrPrev
      /\ v.tmr[t].OSTmrMatch = m /\ v.first[s] = t
  BY <1>4 DEF Linked
<1>10. v.first[s] = First(r)
  BY <1>2, <1>9 DEF First
<1>11. Forth(v.tmr, r)
  <2> SUFFICES ASSUME NEW i \in 1 .. n + 1
               PROVE  v.tmr[r[i]].OSTmrNext = IF i + 1 \in 1 .. n + 1 THEN r[i + 1] ELSE NULL
    BY <1>2 DEF Forth
  <2>1. CASE i = 1
    <3>1. v.tmr[r[i]].OSTmrNext = old
      BY <1>2, <1>9, <2>1
    <3>2. CASE n = 0
      BY <1>5, <2>1, <3>1, <3>2
    <3>3. CASE n # 0
      <4>1. 1 \in 1 .. n /\ i + 1 \in 1 .. n + 1 /\ r[1 + 1] = q[1]
        BY <1>2, <2>1, <3>3
      <4> QED
        BY <1>5, <2>1, <3>1, <3>3, <4>1
    <3> QED
      BY <3>2, <3>3
  <2>2. CASE i # 1
    <3>1. PICK j \in 1 .. n : i = j + 1 /\ r[i] = q[j]
      BY <1>3, <2>2
    <3>2. v.tmr[q[j]].OSTmrNext = IF j + 1 \in 1 .. n THEN q[j + 1] ELSE NULL
      BY <1>6, <1>8, <1>9
    <3>3. CASE j + 1 \in 1 .. n
      BY <1>2, <3>1, <3>2, <3>3
    <3>4. CASE j + 1 \notin 1 .. n
      BY <3>1, <3>2, <3>4
    <3> QED
      BY <3>3, <3>4
  <2> QED
    BY <2>1, <2>2
<1>12. \A i \in 1 .. n + 1 :
         v.tmr[r[i]].OSTmrPrev = IF i - 1 \in 1 .. n + 1 THEN r[i - 1] ELSE NULL
  <2> SUFFICES ASSUME NEW i \in 1 .. n + 1
               PROVE  v.tmr[r[i]].OSTmrPrev = IF i - 1 \in 1 .. n + 1 THEN r[i - 1] ELSE NULL
    OBVIOUS
  <2>1. CASE i = 1
    <3>1. t # old
      BY <1>5, <1>6, TmrAssumption
    <3> QED
      BY <1>2, <1>9, <2>1, <3>1
  <2>2. CASE i # 1
    <3>1. PICK j \in 1 .. n : i = j + 1 /\ r[i] = q[j]
      BY <1>3, <2>2
    <3>2. q[j] = old <=> j = 1
      BY <1>5, <1>7
    <3>3. v.tmr[q[j]].OSTmrPrev = IF j = 1 THEN t ELSE IF j - 1 \in 1 .. n THEN q[j - 1] ELSE NULL
      BY <1>6, <1>8, <1>9, <3>2
    <3>4. CASE j = 1
      BY <1>2, <3>1, <3>3, <3>4
    <3>5. CASE j # 1
      <4>1. j - 1 \in 1 .. n /\ (j - 1) + 1 = i - 1 /\ i - 1 \in 1 .. n + 1
        BY <3>1, <3>5
      <4>2. r[i - 1] = q[j - 1]
        BY <1>2, <4>1
      <4> QED
        BY <3>1, <3>3, <3>5, <4>1, <4>2
    <3> QED
      BY <3>4, <3>5
  <2> QED
    BY <2>1, <2>2
<1>13. Once(r)
  <2> SUFFICES ASSUME NEW i \in 1 .. n + 1, NEW j \in 1 .. n + 1, r[i] = r[j]
               PROVE  i = j
    BY <1>2 DEF Once
  <2>1. CASE i = 1 \/ j = 1
    <3>1. \A k \in 1 .. n + 1 : k # 1 => r[k] # r[1]
      <4> TAKE k \in 1 .. n + 1
      <4> HAVE k # 1
      <4>1. k \in 2 .. n + 1
        OBVIOUS
      <4>2. r[k] = q[k - 1] /\ k - 1 \in 1 .. n
        BY <1>3, <4>1
      <4> QED
        BY <1>2, <1>6, <4>2
    <3> QED
      BY <2>1, <3>1
  <2>2. CASE i # 1 /\ j # 1
    BY <1>3, <1>7, <2>2
  <2> QED
    BY <2>1, <2>2
<1>14. \A x \in Timer : Runs(v, s, x) <=> \E i \in 1 .. n + 1 : r[i] = x
  <2> SUFFICES ASSUME NEW x \in Timer
               PROVE  Runs(v, s, x) <=> \E i \in 1 .. n + 1 : r[i] = x
    OBVIOUS
  <2>1. CASE x = t
    <3>1. Runs(v, s, x)
      BY <1>9, <2>1 DEF Runs
    <3> QED
      BY <1>2, <2>1, <3>1
  <2>2. CASE x # t
    <3>1. Runs(v, s, x) <=> Runs(w, s, x)
      BY <1>9, <2>2 DEF Runs, SameSettings
    <3>2. Runs(w, s, x) <=> \E j \in 1 .. n : q[j] = x
      BY <1>1 DEF OnSpoke
    <3>3. ASSUME NEW j \in 1 .. n, q[j] = x
          PROVE  \E i \in 1 .. n + 1 : r[i] = x
      <4>1. j + 1 \in 1 .. n + 1 /\ r[j + 1] = x
        BY <1>2, <3>3
      <4> QED
        BY <4>1
    <3>4. ASSUME NEW i \in 1 .. n + 1, r[i] = x
          PROVE  \E j \in 1 .. n : q[j] = x
      BY <1>2, <1>3, <2>2, <3>4
    <3> QED
      BY <3>1, <3>2, <3>3, <3>4
  <2> QED
    BY <2>1, <2>2
<1> QED
  BY <1>2, <1>10, <1>11, <1>12, <1>13, <1>14 DEF OnSpoke

LEMMA LinkKeeps ==
  ASSUME NEW w \in Wheels, NEW v \in Wheels, NEW t \in Timer, w.tmr[t].OSTmrState # "RUNNING",
         NEW m \in 0 .. TIME - 1, Linked(w, t, m, v),
         NEW now, m # now, NEW p \in MaybeTimer, p # t, WheelOK(w, now, p, NULL)
  PROVE  WheelOK(v, now, p, NULL)
<1> SUFFICES ASSUME NEW s \in Spokes
             PROVE  \E r \in Seq(Timer) : SpokeOK(v, s, r, now, p, NULL)
  BY DEF WheelOK
<1>1. PICK q \in Seq(Timer) : SpokeOK(w, s, q, now, p, NULL)
  BY DEF WheelOK
<1>2. PICK n \in Nat : n = Len(q)
  OBVIOUS
<1>3. OnSpoke(w, s, q) /\ \A i \in 1 .. n : q[i] \in Timer /\ Runs(w, s, q[i]) /\ q[i] # t
  BY <1>1, <1>2 DEF SpokeOK, OnSpoke, Runs
<1>4. \A i \in 1 .. n : v.tmr[q[i]].OSTmrMatch = w.tmr[q[i]].OSTmrMatch
  BY <1>3 DEF Linked, SameSettings
<1>5. CASE s = m % WHEEL
  <2>1. PICK r \in Seq(Timer) : Headed(t, q, r)
    BY HeadedExists
  <2>2. OnSpoke(v, s, r)
    BY <1>3, <1>5, <2>1, LinkedSpoke
  <2>3. ASSUME s = now % WHEEL
        PROVE  Visited(v, r, now, p, NULL)
    <3>1. Visited(w, q, now, p, NULL)
      BY <1>1, <2>3 DEF SpokeOK
    <3>2. /\ Len(r) = n + 1 /\ r[1] = t
          /\ \A i \in 1 .. n : r[i + 1] = q[i]
      BY <1>2, <2>1 DEF Headed
    <3>3. \A i \in 1 .. n + 1 : i # 1 => i - 1 \in 1 .. n /\ r[i] = q[i - 1]
      <4> TAKE i \in 1 .. n + 1
      <4> HAVE i # 1
      <4>1. i - 1 \in 1 .. n /\ (i - 1) + 1 = i
        OBVIOUS
      <4> QED
        BY <3>2, <4>1
    <3>4. v.tmr[r[1]].OSTmrMatch # now
      BY <3>2 DEF Linked
    <3>5. CASE p = NULL
      <4>1. \A i \in 1 .. n : q[i] # NULL => w.tmr[q[i]].OSTmrMatch # now
        BY <1>2, <3>1, <3>5 DEF Visited, Before
      <4>2. \A i \in 1 .. n : w.tmr[q[i]].OSTmrMatch # now
        BY <1>3, <4>1, TmrAssumption
      <4>3. \A i \in 1 .. n + 1 : v.tmr[r[i]].OSTmrMatch # now
        <5> TAKE i \in 1 .. n + 1
        <5>1. CASE i = 1
          BY <3>4, <5>1
        <5>2. CASE i # 1
          <6>1. i - 1 \in 1 .. n /\ r[i] = q[i - 1]
            BY <3>3, <5>2
          <6> QED
            BY <1>4, <4>2, <6>1
        <5> QED
          BY <5>1, <5>2
      <4> QED
        BY <3>2, <3>5, <4>3 DEF Visited, Before
    <3>6. CASE p # NULL
      <4>1. PICK k \in 1 .. n : q[k] = p /\ Before(w, q, k - 1, now, NULL)
        BY <1>2, <3>1, <3>6 DEF Visited
      <4>2. \A i \in 1 .. k - 1 : w.tmr[q[i]].OSTmrMatch # now
        <5> TAKE i \in 1 .. k - 1
        <5>1. i \in 1 .. n
          BY <4>1
        <5>2. q[i] # NULL
          BY <1>3, <5>1, TmrAssumption
        <5> QED
          BY <4>1, <5>2 DEF Before
      <4>3. \A i \in 1 .. k : v.tmr[r[i]].OSTmrMatch # now
        <5> TAKE i \in 1 .. k
        <5>1. CASE i = 1
          BY <3>4, <5>1
        <5>2. CASE i # 1
          <6>1. i - 1 \in 1 .. k - 1 /\ i - 1 \in 1 .. n /\ i \in 1 .. n + 1
            BY <4>1, <5>2
          <6> QED
            BY <1>4, <3>3, <4>2, <5>2, <6>1
        <5> QED
          BY <5>1, <5>2
      <4>4. k + 1 \in 1 .. n + 1 /\ r[k + 1] = p /\ (k + 1) - 1 = k
        BY <3>2, <4>1
      <4>5. Before(v, r, (k + 1) - 1, now, NULL)
        BY <4>3, <4>4 DEF Before
      <4> QED
        BY <3>2, <3>6, <4>4, <4>5 DEF Visited
    <3> QED
      BY <3>5, <3>6
  <2> QED
    BY <2>2, <2>3 DEF SpokeOK
<1>6. CASE s # m % WHEEL
  <2>1. PICK old : old = w.first[m % WHEEL]
    OBVIOUS
  <2>2. \A i \in 1 .. n : q[i] # old
    <3>1. PICK s0 : s0 = m % WHEEL
      OBVIOUS
    <3>2. s0 \in Spokes
      BY <3>1, SpokeIs, TmrAssumption
    <3>3. PICK q0 \in Seq(Timer) : SpokeOK(w, s0, q0, now, p, NULL)
      BY <3>2 DEF WheelOK
    <3>4. OnSpoke(w, s0, q0)
      BY <3>3 DEF SpokeOK
    <3>5. old = NULL \/ Runs(w, s0, old)
      <4>1. PICK n0 \in Nat : n0 = Len(q0)
        OBVIOUS
      <4>2. old = IF n0 = 0 THEN NULL ELSE q0[1]
        BY <2>1, <3>1, <3>4, <4>1 DEF OnSpoke, First
      <4>3. \A i \in 1 .. n0 : Runs(w, s0, q0[i])
        BY <3>4, <4>1 DEF OnSpoke
      <4> QED
        BY <4>2, <4>3
    <3> QED
      BY <1>3, <1>6, <3>1, <3>5, TmrAssumption DEF Runs
  <2>3. \A x \in Timer : x # t /\ x # old =>
          /\ v.tmr[x].OSTmrNext = w.tmr[x].OSTmrNext /\ v.tmr[x].OSTmrPrev = w.tmr[x].OSTmrPrev
    BY <2>1 DEF Linked
  <2>4. v.first[s] = w.first[s]
    BY <1>6 DEF Linked
  <2>5. \A i \in 1 .. n : v.tmr[q[i]].OSTmrNext = w.tmr[q[i]].OSTmrNext
                       /\ v.tmr[q[i]].OSTmrPrev = w.tmr[q[i]].OSTmrPrev
    BY <1>3, <2>2, <2>3
  <2>6. \A x \in Timer : Runs(v, s, x) <=> Runs(w, s, x)
    <3> TAKE x \in Timer
    <3>1. CASE x = t
      BY <1>6, <3>1 DEF Linked, Runs
    <3>2. CASE x # t
      BY <3>2 DEF Linked, Runs, SameSettings
    <3> QED
      BY <3>1, <3>2
  <2>7. OnSpoke(v, s, q)
    BY <1>2, <1>3, <2>4, <2>5, <2>6 DEF OnSpoke, Forth
  <2>8. ASSUME s = now % WHEEL
        PROVE  Visited(v, q, now, p, NULL)
    <3>1. Visited(w, q, now, p, NULL)
      BY <1>1, <2>8 DEF SpokeOK
    <3>2. CASE p = NULL
      BY <1>2, <1>4, <3>1, <3>2 DEF Visited, Before
    <3>3. CASE p # NULL
      <4>1. PICK k \in 1 .. n : q[k] = p /\ Before(w, q, k - 1, now, NULL)
        BY <1>2, <3>1, <3>3 DEF Visited
      <4>2. \A i \in 1 .. k - 1 : i \in 1 .. n
        BY <4>1
      <4>3. Before(v, q, k - 1, now, NULL)
        BY <1>4, <4>1, <4>2 DEF Before
      <4> QED
        BY <1>2, <3>3, <4>1, <4>3 DEF Visited
    <3> QED
      BY <3>2, <3>3
  <2> QED
    BY <2>7, <2>8 DEF SpokeOK
<1> QED
  BY <1>5, <1>6

(* A timer that does not run is none of the wheel's business. *)
RunningSame(w, v) ==
  \A y \in Timer : /\ w.tmr[y].OSTmrState = "RUNNING" => v.tmr[y] = w.tmr[y]
                   /\ v.tmr[y].OSTmrState = "RUNNING" => v.tmr[y] = w.tmr[y]

LEMMA WheelFrame ==
  ASSUME NEW w, NEW v, v.first = w.first, NEW now, NEW p, NEW x, WheelOK(w, now, p, x),
         RunningSame(w, v)
  PROVE  WheelOK(v, now, p, x)
<1> SUFFICES ASSUME NEW s \in Spokes
             PROVE  \E r \in Seq(Timer) : SpokeOK(v, s, r, now, p, x)
  BY DEF WheelOK
<1>1. PICK q \in Seq(Timer) : SpokeOK(w, s, q, now, p, x)
  BY DEF WheelOK
<1>2. PICK n \in Nat : n = Len(q)
  OBVIOUS
<1>3. OnSpoke(w, s, q) /\ \A i \in 1 .. n : q[i] \in Timer /\ v.tmr[q[i]] = w.tmr[q[i]]
  BY <1>1, <1>2 DEF SpokeOK, OnSpoke, Runs, RunningSame
<1>4. \A y \in Timer : Runs(v, s, y) <=> Runs(w, s, y)
  BY DEF Runs, RunningSame
<1>5. OnSpoke(v, s, q)
  <2>1. v.first[s] = First(q) /\ Once(q)
    BY <1>3 DEF OnSpoke
  <2>2. \A i \in 1 .. Len(q) : v.tmr[q[i]] = w.tmr[q[i]]
    BY <1>2, <1>3
  <2>3. Forth(v.tmr, q)
    BY <1>3, <2>2, SMTT(30) DEF OnSpoke, Forth
  <2>4. \A i \in 1 .. Len(q) :
           v.tmr[q[i]].OSTmrPrev = IF i - 1 \in 1 .. Len(q) THEN q[i - 1] ELSE NULL
    BY <1>3, <2>2 DEF OnSpoke
  <2>5. \A y \in Timer : Runs(v, s, y) <=> \E i \in 1 .. Len(q) : q[i] = y
    BY <1>3, <1>4 DEF OnSpoke
  <2> QED
    BY <2>1, <2>3, <2>4, <2>5 DEF OnSpoke
<1>6. Visited(w, q, now, p, x) => Visited(v, q, now, p, x)
  <2> HAVE Visited(w, q, now, p, x)
  <2>1. CASE p = NULL
    BY <1>2, <1>3, <2>1 DEF Visited, Before
  <2>2. CASE p # NULL
    <3>1. PICK k \in 1 .. n : q[k] = p /\ Before(w, q, k - 1, now, x)
      BY <1>2, <2>2 DEF Visited
    <3>2. \A i \in 1 .. k - 1 : i \in 1 .. n
      BY <3>1
    <3>3. Before(v, q, k - 1, now, x)
      BY <1>3, <3>1, <3>2 DEF Before
    <3> QED
      BY <1>2, <2>2, <3>1, <3>3 DEF Visited
  <2> QED
    BY <2>1, <2>2
<1> QED
  BY <1>1, <1>5, <1>6 DEF SpokeOK

(* A turn of OSTmr_Task begins before all the timers of the time's spoke,  *)
LEMMA CursorStarts ==
  ASSUME NEW w \in Wheels, NEW now, NEW now2, now2 % WHEEL \in Spokes, WheelOK(w, now, NULL, NULL)
  PROVE  WheelOK(w, now2, w.first[now2 % WHEEL], NULL)
<1> SUFFICES ASSUME NEW s \in Spokes
             PROVE  \E q \in Seq(Timer) :
                      SpokeOK(w, s, q, now2, w.first[now2 % WHEEL], NULL)
  BY DEF WheelOK
<1>1. PICK q \in Seq(Timer) : SpokeOK(w, s, q, now, NULL, NULL)
  BY DEF WheelOK
<1>2. PICK n \in Nat : n = Len(q)
  OBVIOUS
<1>3. OnSpoke(w, s, q) /\ w.first[s] = IF n = 0 THEN NULL ELSE q[1]
  BY <1>1, <1>2 DEF SpokeOK, OnSpoke, First
<1>4. \A i \in 1 .. n : q[i] \in Timer
  BY <1>2
<1>5. Visited(w, q, now2, w.first[s], NULL)
  <2>1. CASE n = 0
    BY <1>2, <1>3, <2>1 DEF Visited, Before
  <2>2. CASE n # 0
    <3>1. 1 \in 1 .. n /\ q[1] # NULL
      BY <1>4, <2>2, TmrAssumption
    <3>2. Before(w, q, 1 - 1, now2, NULL)
      BY DEF Before
    <3> QED
      BY <1>2, <1>3, <2>2, <3>1, <3>2 DEF Visited
  <2> QED
    BY <2>1, <2>2
<1> QED
  BY <1>3, <1>5 DEF SpokeOK

(* and passes over one that is not due, or that is about to come off.      *)
Passable(w, t, now, x) == x = t \/ (x = NULL /\ w.tmr[t].OSTmrMatch # now)

LEMMA CursorPasses ==
  ASSUME NEW w \in Wheels, NEW now, now % WHEEL \in Spokes, NEW t \in Timer, WheelOK(w, now, t, NULL),
         NEW x, Passable(w, t, now, x)
  PROVE  /\ WheelOK(w, now, w.tmr[t].OSTmrNext, x)
         /\ w.tmr[t].OSTmrNext # t /\ w.tmr[t].OSTmrState = "RUNNING"
<1>1. ASSUME NEW s \in Spokes, NEW q \in Seq(Timer), SpokeOK(w, s, q, now, t, NULL), s = now % WHEEL
      PROVE  /\ Visited(w, q, now, w.tmr[t].OSTmrNext, x)
             /\ w.tmr[t].OSTmrNext # t /\ w.tmr[t].OSTmrState = "RUNNING"
  <2>1. PICK n \in Nat : n = Len(q)
    OBVIOUS
  <2>2. OnSpoke(w, s, q) /\ Visited(w, q, now, t, NULL)
    BY <1>1 DEF SpokeOK
  <2>3. PICK k \in 1 .. n : q[k] = t /\ Before(w, q, k - 1, now, NULL)
    BY <2>1, <2>2, TmrAssumption DEF Visited
  <2>4. \A i \in 1 .. n : q[i] \in Timer /\ q[i] # NULL
    BY <2>1, TmrAssumption
  <2>5. \A i, j \in 1 .. n : q[i] = q[j] => i = j
    BY <2>1, <2>2 DEF OnSpoke, Once
  <2>6. PICK next : next = w.tmr[t].OSTmrNext
    OBVIOUS
  <2>7. next = IF k + 1 \in 1 .. n THEN q[k + 1] ELSE NULL
    BY <2>1, <2>2, <2>3, <2>6 DEF OnSpoke, Forth
  <2>8. next # t
    <3>1. CASE k + 1 \in 1 .. n
      BY <2>3, <2>5, <2>7, <3>1
    <3>2. CASE k + 1 \notin 1 .. n
      BY <2>7, <3>2, TmrAssumption
    <3> QED
      BY <3>1, <3>2
  <2>9. w.tmr[t].OSTmrState = "RUNNING"
    BY <2>1, <2>2, <2>3 DEF OnSpoke, Runs
  <2>10. \A i \in 1 .. k : q[i] # x => w.tmr[q[i]].OSTmrMatch # now
    <3> TAKE i \in 1 .. k
    <3>1. CASE i = k
      BY <2>3, <3>1 DEF Passable
    <3>2. CASE i # k
      <4>1. i \in 1 .. k - 1 /\ i \in 1 .. n
        BY <3>2
      <4> QED
        BY <2>3, <2>4, <4>1 DEF Before
    <3> QED
      BY <3>1, <3>2
  <2>11. Visited(w, q, now, next, x)
    <3>1. CASE k + 1 \in 1 .. n
      <4>1. next # NULL /\ q[k + 1] = next /\ (k + 1) - 1 = k
        BY <2>4, <2>7, <3>1
      <4>2. Before(w, q, (k + 1) - 1, now, x)
        BY <2>10, <4>1 DEF Before
      <4> QED
        BY <2>1, <3>1, <4>1, <4>2 DEF Visited
    <3>2. CASE k + 1 \notin 1 .. n
      <4>1. next = NULL /\ k = n
        BY <2>7, <3>2
      <4> QED
        BY <2>1, <2>10, <4>1 DEF Visited, Before
    <3> QED
      BY <3>1, <3>2
  <2> QED
    BY <2>6, <2>8, <2>9, <2>11
<1>2. WheelOK(w, now, w.tmr[t].OSTmrNext, x)
  <2> SUFFICES ASSUME NEW s \in Spokes
               PROVE  \E q \in Seq(Timer) : SpokeOK(w, s, q, now, w.tmr[t].OSTmrNext, x)
    BY DEF WheelOK
  <2>1. PICK q \in Seq(Timer) : SpokeOK(w, s, q, now, t, NULL)
    BY DEF WheelOK
  <2> QED
    BY <1>1, <2>1 DEF SpokeOK
<1>3. PICK s : s = now % WHEEL
  OBVIOUS
<1>4. PICK q \in Seq(Timer) : SpokeOK(w, s, q, now, t, NULL)
  BY <1>3 DEF WheelOK
<1> QED
  BY <1>1, <1>2, <1>3, <1>4

(* No timer is due when OSTmr_Task has finished its turn.                  *)
LEMMA NoneDue ==
  ASSUME NEW w \in Wheels, NEW now, WheelOK(w, now, NULL, NULL),
         NEW t \in Timer, w.tmr[t].OSTmrState = "RUNNING"
  PROVE  w.tmr[t].OSTmrMatch # now
<1> SUFFICES ASSUME w.tmr[t].OSTmrMatch = now PROVE FALSE
  OBVIOUS
<1>1. now % WHEEL \in Spokes
  <2>1. w.tmr[t].OSTmrMatch \in Nat
    BY TmrAssumption DEF Wheels, Tmr
  <2> QED
    BY <2>1, SpokeIs
<1>2. PICK s : s = now % WHEEL
  OBVIOUS
<1>3. PICK q \in Seq(Timer) : SpokeOK(w, s, q, now, NULL, NULL)
  BY <1>1, <1>2 DEF WheelOK
<1>4. PICK i \in 1 .. Len(q) : q[i] = t
  BY <1>2, <1>3 DEF SpokeOK, OnSpoke, Runs
<1> QED
  BY <1>2, <1>3, <1>4, TmrAssumption DEF SpokeOK, Visited, Before

-----------------------------------------------------------------------------
(* The free list.                                                          *)

LEMMA FreeFrame ==
  ASSUME NEW f, NEW g, NEW h, FreeListed(f, h),
         \A y \in Timer : /\ g[y].OSTmrState = "UNUSED" <=> f[y].OSTmrState = "UNUSED"
                          /\ f[y].OSTmrState = "UNUSED" => g[y].OSTmrNext = f[y].OSTmrNext
  PROVE  FreeListed(g, h)
<1>1. PICK q \in Seq(Timer) : OnFreeList(f, h, q)
  BY DEF FreeListed
<1>2. PICK n \in Nat : n = Len(q)
  OBVIOUS
<1>3. \A i \in 1 .. n : q[i] \in Timer /\ f[q[i]].OSTmrState = "UNUSED"
  BY <1>1, <1>2 DEF OnFreeList
<1>4. Forth(g, q)
  BY <1>1, <1>2, <1>3 DEF OnFreeList, Forth
<1>5. OnFreeList(g, h, q)
  BY <1>1, <1>4 DEF OnFreeList
<1> QED
  BY <1>5 DEF FreeListed

LEMMA FreePop ==
  ASSUME NEW f, NEW g, NEW h, FreeListed(f, h), h # NULL,
         \A y \in Timer : y # h => g[y] = f[y], g[h].OSTmrState # "UNUSED"
  PROVE  h \in Timer /\ f[h].OSTmrState = "UNUSED" /\ FreeListed(g, f[h].OSTmrNext)
<1>1. PICK q \in Seq(Timer) : OnFreeList(f, h, q)
  BY DEF FreeListed
<1>2. PICK n \in Nat : n = Len(q)
  OBVIOUS
<1>3. 1 \in 1 .. n /\ h = q[1]
  BY <1>1, <1>2 DEF OnFreeList, First
<1>4. h \in Timer /\ f[h].OSTmrState = "UNUSED"
  BY <1>1, <1>2, <1>3 DEF OnFreeList
<1>5. PICK r \in Seq(Timer) : Without(q, 1, r)
  BY <1>2, <1>3, WithoutExists
<1>6. Len(r) = n - 1 /\ \A i \in 1 .. n - 1 : i + 1 \in 1 .. n /\ r[i] = q[i + 1]
  BY <1>2, <1>5 DEF Without
<1>7. \A i, j \in 1 .. n : q[i] = q[j] => i = j
  BY <1>1, <1>2 DEF OnFreeList, Once
<1>8. \A i \in 1 .. n : f[q[i]].OSTmrNext = IF i + 1 \in 1 .. n THEN q[i + 1] ELSE NULL
  BY <1>1, <1>2 DEF OnFreeList, Forth
<1>9. \A i \in 1 .. n - 1 : r[i] \in Timer /\ r[i] # h
  BY <1>2, <1>3, <1>6, <1>7
<1>10. f[h].OSTmrNext = First(r)
  <2>1. f[h].OSTmrNext = IF 2 \in 1 .. n THEN q[2] ELSE NULL
    BY <1>3, <1>8
  <2> QED
    BY <1>6, <2>1 DEF First
<1>11. Forth(g, r)
  <2> SUFFICES ASSUME NEW i \in 1 .. n - 1
               PROVE  g[r[i]].OSTmrNext = IF i + 1 \in 1 .. n - 1 THEN r[i + 1] ELSE NULL
    BY <1>6 DEF Forth
  <2>1. g[r[i]] = f[q[i + 1]] /\ i + 1 \in 1 .. n
    BY <1>6, <1>9
  <2>2. f[q[i + 1]].OSTmrNext = IF (i + 1) + 1 \in 1 .. n THEN q[(i + 1) + 1] ELSE NULL
    BY <1>8, <2>1
  <2>3. (i + 1) + 1 \in 1 .. n <=> i + 1 \in 1 .. n - 1
    OBVIOUS
  <2> QED
    BY <1>6, <2>1, <2>2, <2>3
<1>12. Once(r)
  BY <1>6, <1>7 DEF Once
<1>13. \A y \in Timer : g[y].OSTmrState = "UNUSED" <=> \E i \in 1 .. n - 1 : r[i] = y
  <2> TAKE y \in Timer
  <2>1. f[y].OSTmrState = "UNUSED" <=> \E i \in 1 .. n : q[i] = y
    BY <1>1, <1>2 DEF OnFreeList
  <2>2. g[y].OSTmrState = "UNUSED" <=> f[y].OSTmrState = "UNUSED" /\ y # h
    OBVIOUS
  <2>3. ASSUME NEW j \in 1 .. n, q[j] = y, y # h
        PROVE  \E i \in 1 .. n - 1 : r[i] = y
    <3>1. j - 1 \in 1 .. n - 1 /\ (j - 1) + 1 = j
      BY <1>3, <2>3
    <3> QED
      BY <1>6, <2>3, <3>1
  <2>4. ASSUME NEW i \in 1 .. n - 1, r[i] = y
        PROVE  y # h /\ \E j \in 1 .. n : q[j] = y
    BY <1>6, <1>9, <2>4
  <2> QED
    BY <2>1, <2>2, <2>3, <2>4
<1>14. OnFreeList(g, f[h].OSTmrNext, r)
  BY <1>6, <1>10, <1>11, <1>12, <1>13 DEF OnFreeList
<1> QED
  BY <1>4, <1>14 DEF FreeListed

LEMMA FreePush ==
  ASSUME NEW f, NEW g, NEW h, FreeListed(f, h), NEW t \in Timer, f[t].OSTmrState # "UNUSED",
         \A y \in Timer : y # t =>
           /\ g[y].OSTmrState = "UNUSED" <=> f[y].OSTmrState = "UNUSED"
           /\ f[y].OSTmrState = "UNUSED" => g[y].OSTmrNext = f[y].OSTmrNext,
         g[t].OSTmrState = "UNUSED", g[t].OSTmrNext = h
  PROVE  FreeListed(g, t)
<1>1. PICK q \in Seq(Timer) : OnFreeList(f, h, q)
  BY DEF FreeListed
<1>2. PICK n \in Nat : n = Len(q)
  OBVIOUS
<1>3. PICK r \in Seq(Timer) : Headed(t, q, r)
  BY HeadedExists
<1>4. Len(r) = n + 1 /\ r[1] = t /\ \A i \in 1 .. n : r[i + 1] = q[i]
  BY <1>2, <1>3 DEF Headed
<1>5. \A i \in 1 .. n + 1 : i # 1 => i - 1 \in 1 .. n /\ r[i] = q[i - 1]
  <2> TAKE i \in 1 .. n + 1
  <2> HAVE i # 1
  <2>1. i - 1 \in 1 .. n /\ (i - 1) + 1 = i
    OBVIOUS
  <2> QED
    BY <1>4, <2>1
<1>6. \A i \in 1 .. n : q[i] \in Timer /\ f[q[i]].OSTmrState = "UNUSED" /\ q[i] # t
  BY <1>1, <1>2 DEF OnFreeList
<1>7. \A i, j \in 1 .. n : q[i] = q[j] => i = j
  BY <1>1, <1>2 DEF OnFreeList, Once
<1>8. \A i \in 1 .. n : f[q[i]].OSTmrNext = IF i + 1 \in 1 .. n THEN q[i + 1] ELSE NULL
  BY <1>1, <1>2 DEF OnFreeList, Forth
<1>9. h = IF n = 0 THEN NULL ELSE q[1]
  BY <1>1, <1>2 DEF OnFreeList, First
<1>10. Forth(g, r)
  <2> SUFFICES ASSUME NEW i \in 1 .. n + 1
               PROVE  g[r[i]].OSTmrNext = IF i + 1 \in 1 .. n + 1 THEN r[i + 1] ELSE NULL
    BY <1>4 DEF Forth
  <2>1. CASE i = 1
    <3>1. CASE n = 0
      BY <1>4, <1>9, <2>1, <3>1
    <3>2. CASE n # 0
      <4>1. 1 \in 1 .. n /\ i + 1 \in 1 .. n + 1 /\ r[1 + 1] = q[1]
        BY <1>4, <2>1, <3>2
      <4> QED
        BY <1>4, <1>9, <2>1, <3>2, <4>1
    <3> QED
      BY <3>1, <3>2
  <2>2. CASE i # 1
    <3>1. PICK j \in 1 .. n : i = j + 1 /\ r[i] = q[j]
      BY <1>5, <2>2
    <3>2. g[q[j]].OSTmrNext = IF j + 1 \in 1 .. n THEN q[j + 1] ELSE NULL
      BY <1>6, <1>8
    <3>3. CASE j + 1 \in 1 .. n
      BY <1>4, <3>1, <3>2, <3>3
    <3>4. CASE j + 1 \notin 1 .. n
      BY <3>1, <3>2, <3>4
    <3> QED
      BY <3>3, <3>4
  <2> QED
    BY <2>1, <2>2
<1>11. Once(r)
  <2> SUFFICES ASSUME NEW i \in 1 .. n + 1, NEW j \in 1 .. n + 1, r[i] = r[j]
               PROVE  i = j
    BY <1>4 DEF Once
  <2>1. \A k \in 1 .. n + 1 : k # 1 => r[k] # t
    BY <1>5, <1>6
  <2>2. CASE i = 1 \/ j = 1
    BY <1>4, <2>1, <2>2
  <2>3. CASE i # 1 /\ j # 1
    BY <1>5, <1>7, <2>3
  <2> QED
    BY <2>2, <2>3
<1>12. \A y \in Timer : g[y].OSTmrState = "UNUSED" <=> \E i \in 1 .. n + 1 : r[i] = y
  <2> TAKE y \in Timer
  <2>1. CASE y = t
    BY <1>4, <2>1
  <2>2. CASE y # t
    <3>1. g[y].OSTmrState = "UNUSED" <=> \E i \in 1 .. n : q[i] = y
      BY <1>1, <1>2, <2>2 DEF OnFreeList
    <3>2. ASSUME NEW j \in 1 .. n, q[j] = y
          PROVE  \E i \in 1 .. n + 1 : r[i] = y
      <4>1. j + 1 \in 1 .. n + 1 /\ r[j + 1] = y
        BY <1>4, <3>2
      <4> QED
        BY <4>1
    <3>3. ASSUME NEW i \in 1 .. n + 1, r[i] = y
          PROVE  \E j \in 1 .. n : q[j] = y
      BY <1>4, <1>5, <2>2, <3>3
    <3> QED
      BY <3>1, <3>2, <3>3
  <2> QED
    BY <2>1, <2>2
<1>13. OnFreeList(g, t, r)
  BY <1>4, <1>10, <1>11, <1>12 DEF OnFreeList, First
<1> QED
  BY <1>13 DEF FreeListed

-----------------------------------------------------------------------------
(* What a client sees.                                                     *)

FirstOf(r) == IF r.OSTmrDly = 0 THEN r.OSTmrPeriod ELSE r.OSTmrDly
Remain(r, now) ==
  CASE r.OSTmrState = "RUNNING" -> Until(r.OSTmrMatch, now)
    [] r.OSTmrState = "STOPPED" -> IF r.OSTmrOpt = "PERIODIC" /\ r.OSTmrDly = 0 THEN r.OSTmrPeriod
                                                                               ELSE r.OSTmrDly
    [] OTHER -> 0
Shows(r, now) == [state |-> r.OSTmrState, dly |-> r.OSTmrDly, period |-> r.OSTmrPeriod,
                  opt |-> r.OSTmrOpt, remain |-> Remain(r, now)]
View(w, now) == [t \in Timer |-> Shows(w.tmr[t], now)]

LEMMA RemainIs ==
  ASSUME NEW r, NEW now
  PROVE  /\ r.OSTmrState = "RUNNING" => Remain(r, now) = Until(r.OSTmrMatch, now)
         /\ r.OSTmrState = "STOPPED" /\ Optioned(r) => Remain(r, now) = FirstOf(r)
         /\ r.OSTmrState \in {"COMPLETED", "UNUSED"} => Remain(r, now) = 0
<1>1. r.OSTmrState = "STOPPED" => Remain(r, now) =
        IF r.OSTmrOpt = "PERIODIC" /\ r.OSTmrDly = 0 THEN r.OSTmrPeriod ELSE r.OSTmrDly
  BY DEF Remain
<1>2. r.OSTmrState = "STOPPED" /\ Optioned(r) => Remain(r, now) = FirstOf(r)
  BY <1>1 DEF Optioned, FirstOf
<1> QED
  BY <1>2 DEF Remain

SameOptions(r1, r2) ==
  r1.OSTmrDly = r2.OSTmrDly /\ r1.OSTmrPeriod = r2.OSTmrPeriod /\ r1.OSTmrOpt = r2.OSTmrOpt

LEMMA SameShows ==
  ASSUME NEW r1, NEW r2, NEW now, SameSettings(r1, r2), r1.OSTmrState = r2.OSTmrState
  PROVE  Shows(r1, now) = Shows(r2, now)
<1>1. /\ r1.OSTmrMatch = r2.OSTmrMatch /\ r1.OSTmrDly = r2.OSTmrDly
      /\ r1.OSTmrPeriod = r2.OSTmrPeriod /\ r1.OSTmrOpt = r2.OSTmrOpt
  BY DEF SameSettings
<1>2. Remain(r1, now) = Remain(r2, now)
  BY <1>1, Zenon DEF Remain
<1> QED
  BY <1>1, <1>2, Zenon DEF Shows

(* Nothing shows of the other timers, and nothing is set anew of this one. *)
Touches(w, v, t, now) ==
  /\ \A y \in Timer : y # t => Shows(v.tmr[y], now) = Shows(w.tmr[y], now)
  /\ SameOptions(v.tmr[t], w.tmr[t])

LEMMA ViewChanges ==
  ASSUME NEW w, NEW v, NEW now, NEW t \in Timer,
         \A y \in Timer : y # t => Shows(v.tmr[y], now) = Shows(w.tmr[y], now)
  PROVE  View(v, now) = [View(w, now) EXCEPT ![t] = Shows(v.tmr[t], now)]
BY DEF View

Restate(f, s, n) == [f EXCEPT !.state = s, !.remain = n]

Reads(f, s, a, b, c, n) ==
  f = [state |-> s, dly |-> a, period |-> b, opt |-> c, remain |-> n]

LEMMA Restated ==
  ASSUME NEW s, NEW a, NEW b, NEW c, NEW n, NEW s2, NEW n2,
         NEW f, Reads(f, s, a, b, c, n)
  PROVE  Restate(f, s2, n2) = [state |-> s2, dly |-> a, period |-> b, opt |-> c, remain |-> n2]
<1>1. f \in [state : {s, s2}, dly : {a}, period : {b}, opt : {c}, remain : {n, n2}]
  BY DEF Reads
<1>2. PICK g : g = Restate(f, s2, n2)
  OBVIOUS
<1>3. g \in [state : {s, s2}, dly : {a}, period : {b}, opt : {c}, remain : {n, n2}]
  BY <1>1, <1>2 DEF Restate
<1>4. g.state = s2 /\ g.remain = n2
  BY <1>1, <1>2 DEF Restate
<1>5. g.dly = a /\ g.period = b /\ g.opt = c
  BY <1>3
<1>6. g = [state |-> g.state, dly |-> g.dly, period |-> g.period, opt |-> g.opt, remain |-> g.remain]
  BY <1>3
<1> QED
  BY <1>2, <1>4, <1>5, <1>6

LEMMA ViewTouched ==
  ASSUME NEW w, NEW v, NEW now, NEW t \in Timer, Touches(w, v, t, now)
  PROVE  View(v, now) = [View(w, now) EXCEPT
           ![t] = Restate(View(w, now)[t], v.tmr[t].OSTmrState, Remain(v.tmr[t], now))]
<1>1. View(w, now)[t] = Shows(w.tmr[t], now)
  BY DEF View
<1>2. Shows(v.tmr[t], now) =
        Restate(Shows(w.tmr[t], now), v.tmr[t].OSTmrState, Remain(v.tmr[t], now))
  <2>1. SameOptions(v.tmr[t], w.tmr[t])
    BY DEF Touches
  <2>2. PICK r1, r2, m : r1 = v.tmr[t] /\ r2 = w.tmr[t] /\ m = Remain(v.tmr[t], now)
    OBVIOUS
  <2>3. r1.OSTmrDly = r2.OSTmrDly /\ r1.OSTmrPeriod = r2.OSTmrPeriod /\ r1.OSTmrOpt = r2.OSTmrOpt
    BY <2>1, <2>2 DEF SameOptions
  <2>4. Shows(r1, now) = Restate(Shows(r2, now), r1.OSTmrState, m)
    <3>1. m = Remain(r1, now)
      BY <2>2, Zenon
    <3>2. PICK a, b, c, n : a = r2.OSTmrDly /\ b = r2.OSTmrPeriod /\ c = r2.OSTmrOpt /\ n = Remain(r2, now)
      OBVIOUS
    <3>3. Shows(r1, now) = [state |-> r1.OSTmrState, dly |-> a, period |-> b, opt |-> c, remain |-> m]
      BY <2>3, <3>1, <3>2, Zenon DEF Shows
    <3>4. Shows(r2, now) = [state |-> r2.OSTmrState, dly |-> a, period |-> b, opt |-> c, remain |-> n]
      BY <3>2, Zenon DEF Shows
    <3> QED
      BY <3>3, <3>4, Restated DEF Reads
  <2> QED
    BY <2>2, <2>4, Zenon
<1>3. View(v, now) = [View(w, now) EXCEPT ![t] = Shows(v.tmr[t], now)]
  BY DEF Touches, View
<1> QED
  BY <1>1, <1>2, <1>3

-----------------------------------------------------------------------------
(* The services.                                                           *)

LEMMA UnlinkServes ==
  ASSUME NEW w, NEW h, Kept(w, h), NEW t \in Timer, w.tmr[t].OSTmrState = "RUNNING",
         NEW now, NEW p \in MaybeTimer, p # t, NEW x, MayStand(x, t), WheelOK(w, now, p, x)
  PROVE  LET v == OSTmr_Unlink(w, t)
         IN  /\ Kept(v, h) /\ WheelOK(v, now, p, NULL) /\ Touches(w, v, t, now)
             /\ v.tmr[t].OSTmrState = "STOPPED"
<1>1. PICK v : v = OSTmr_Unlink(w, t)
  OBVIOUS
<1>2. /\ v \in Wheels /\ Unlinked(w, t, v) /\ WheelOK(v, now, p, NULL)
      /\ \A y \in Timer : y # t /\ w.tmr[y].OSTmrState # "RUNNING" =>
           v.tmr[y].OSTmrNext = w.tmr[y].OSTmrNext
  BY <1>1, UnlinkKeeps DEF Kept, MayStand
<1>3. \A y \in Timer : SameSettings(v.tmr[y], w.tmr[y])
                    /\ v.tmr[y].OSTmrState = IF y = t THEN "STOPPED" ELSE w.tmr[y].OSTmrState
  BY <1>2 DEF Unlinked
<1>4. Touches(w, v, t, now)
  <2>1. \A y \in Timer : y # t => Shows(v.tmr[y], now) = Shows(w.tmr[y], now)
    BY <1>3, SameShows
  <2>2. SameOptions(v.tmr[t], w.tmr[t])
    BY <1>3 DEF SameSettings, SameOptions
  <2> QED
    BY <2>1, <2>2 DEF Touches
<1>5. FreeListed(v.tmr, h)
  BY <1>2, <1>3, FreeFrame DEF Kept
<1>6. \A y \in Timer : Optioned(v.tmr[y])
  BY <1>3 DEF Kept, Optioned, SameSettings
<1> QED
  BY <1>1, <1>2, <1>3, <1>4, <1>5, <1>6 DEF Kept

LEMMA LinkServes ==
  ASSUME NEW w, NEW h, Kept(w, h), NEW t \in Timer,
         w.tmr[t].OSTmrState \notin {"RUNNING", "UNUSED"},
         OSTmrTime \in 0 .. TIME - 1, NEW d \in 1 .. TIME - 1,
         NEW p \in MaybeTimer, p # t, WheelOK(w, OSTmrTime, p, NULL)
  PROVE  LET v == OSTmr_Link(w, t, d)
         IN  /\ Kept(v, h) /\ WheelOK(v, OSTmrTime, p, NULL) /\ Touches(w, v, t, OSTmrTime)
             /\ v.tmr[t].OSTmrState = "RUNNING" /\ Remain(v.tmr[t], OSTmrTime) = d
<1>1. PICK v : v = OSTmr_Link(w, t, d)
  OBVIOUS
<1>2. PICK m : m = (OSTmrTime + d) % TIME
  OBVIOUS
<1>3. m \in 0 .. TIME - 1 /\ m # OSTmrTime /\ Until(m, OSTmrTime) = d
  BY <1>2, MatchIs
<1>4. v \in Wheels /\ Linked(w, t, m, v)
  BY <1>1, <1>2, <1>3, LinkIs DEF Kept
<1>5. WheelOK(v, OSTmrTime, p, NULL)
  BY <1>3, <1>4, LinkKeeps DEF Kept
<1>6. \A y \in Timer : /\ y # t => SameSettings(v.tmr[y], w.tmr[y])
                       /\ v.tmr[y].OSTmrState = IF y = t THEN "RUNNING" ELSE w.tmr[y].OSTmrState
                       /\ y # t => v.tmr[y].OSTmrNext = w.tmr[y].OSTmrNext
  BY <1>4 DEF Linked
<1>7. /\ v.tmr[t].OSTmrMatch = m /\ SameOptions(v.tmr[t], w.tmr[t])
  BY <1>4 DEF Linked, SameOptions
<1>8. Touches(w, v, t, OSTmrTime)
  <2>1. \A y \in Timer : y # t => Shows(v.tmr[y], OSTmrTime) = Shows(w.tmr[y], OSTmrTime)
    BY <1>6, SameShows
  <2> QED
    BY <1>7, <2>1 DEF Touches
<1>9. FreeListed(v.tmr, h)
  BY <1>6, FreeFrame DEF Kept
<1>10. \A y \in Timer : Optioned(v.tmr[y])
  <2> TAKE y \in Timer
  <2>1. CASE y = t
    BY <1>6, <1>7, <2>1 DEF Kept, Optioned, SameOptions
  <2>2. CASE y # t
    BY <1>6, <2>2 DEF Kept, Optioned, SameSettings
  <2> QED
    BY <2>1, <2>2
<1>11. v.tmr[t].OSTmrState = "RUNNING" /\ Remain(v.tmr[t], OSTmrTime) = d
  BY <1>3, <1>6, <1>7, RemainIs
<1> QED
  BY <1>1, <1>4, <1>5, <1>8, <1>9, <1>10, <1>11 DEF Kept

LEMMA StartServes ==
  ASSUME NEW w, NEW h, Kept(w, h), NEW t \in Timer, w.tmr[t].OSTmrState # "UNUSED",
         OSTmrTime \in 0 .. TIME - 1,
         NEW p \in MaybeTimer, p # t, WheelOK(w, OSTmrTime, p, NULL)
  PROVE  LET a == IF w.tmr[t].OSTmrState = "RUNNING" THEN OSTmr_Unlink(w, t) ELSE w
             v == OSTmr_Link(a, t, FirstOf(w.tmr[t]))
         IN  /\ Kept(v, h) /\ WheelOK(v, OSTmrTime, p, NULL) /\ Touches(w, v, t, OSTmrTime)
             /\ v.tmr[t].OSTmrState = "RUNNING"
             /\ Remain(v.tmr[t], OSTmrTime) = FirstOf(w.tmr[t])
<1>1. PICK d : d = FirstOf(w.tmr[t])
  OBVIOUS
<1>2. d \in 1 .. TIME - 1
  <2>1. w.tmr[t] \in Tmr /\ Optioned(w.tmr[t])
    BY DEF Kept, Wheels
  <2> QED
    BY <1>1, <2>1, TmrAssumption DEF Tmr, Optioned, FirstOf
<1>3. PICK a : a = IF w.tmr[t].OSTmrState = "RUNNING" THEN OSTmr_Unlink(w, t) ELSE w
  OBVIOUS
<1>4. /\ Kept(a, h) /\ WheelOK(a, OSTmrTime, p, NULL) /\ Touches(w, a, t, OSTmrTime)
      /\ a.tmr[t].OSTmrState \notin {"RUNNING", "UNUSED"}
  <2>1. CASE w.tmr[t].OSTmrState = "RUNNING"
    <3>1. MayStand(NULL, t)
      BY DEF MayStand
    <3> QED
      BY <1>3, <2>1, <3>1, UnlinkServes
  <2>2. CASE w.tmr[t].OSTmrState # "RUNNING"
    BY <1>3, <2>2 DEF Touches, SameOptions
  <2> QED
    BY <2>1, <2>2
<1>5. PICK v : v = OSTmr_Link(a, t, d)
  OBVIOUS
<1>6. /\ Kept(v, h) /\ WheelOK(v, OSTmrTime, p, NULL) /\ Touches(a, v, t, OSTmrTime)
      /\ v.tmr[t].OSTmrState = "RUNNING" /\ Remain(v.tmr[t], OSTmrTime) = d
  BY <1>2, <1>4, <1>5, LinkServes
<1>7. Touches(w, v, t, OSTmrTime)
  BY <1>4, <1>6 DEF Touches, SameOptions
<1> QED
  BY <1>1, <1>3, <1>5, <1>6, <1>7

LEMMA FreeServes ==
  ASSUME NEW w, Kept(w, OSTmrFreeList), NEW t \in Timer,
         w.tmr[t].OSTmrState \notin {"RUNNING", "UNUSED"},
         NEW now, NEW p, WheelOK(w, now, p, NULL)
  PROVE  LET v == OSTmr_Free(w, t)
         IN  /\ Kept(v, t) /\ WheelOK(v, now, p, NULL)
             /\ \A y \in Timer : y # t => Shows(v.tmr[y], now) = Shows(w.tmr[y], now)
             /\ Shows(v.tmr[t], now) = [state |-> "UNUSED", dly |-> 0, period |-> 0, opt |-> "NONE",
                                        remain |-> 0]
<1>1. PICK r : r = [FreeTmr EXCEPT !.OSTmrNext = OSTmrFreeList]
  OBVIOUS
<1>2. r = [OSTmrState |-> "UNUSED", OSTmrNext |-> OSTmrFreeList, OSTmrPrev |-> NULL,
           OSTmrMatch |-> 0, OSTmrDly |-> 0, OSTmrPeriod |-> 0, OSTmrOpt |-> "NONE"]
  BY <1>1 DEF FreeTmr
<1>3. r \in Tmr /\ Optioned(r) /\ r.OSTmrState = "UNUSED" /\ r.OSTmrNext = OSTmrFreeList
  BY <1>2, TmrAssumption DEF Tmr, Optioned, Kept, MaybeTimer
<1>4. Shows(r, now) = [state |-> "UNUSED", dly |-> 0, period |-> 0, opt |-> "NONE", remain |-> 0]
  BY <1>2 DEF Shows, Remain
<1>5. PICK v : v = OSTmr_Free(w, t)
  OBVIOUS
<1>6. v \in Wheels /\ v.first = w.first /\ v.tmr = [w.tmr EXCEPT ![t] = r]
  BY <1>1, <1>3, <1>5 DEF OSTmr_Free, Kept, Wheels
<1>7. v.tmr[t] = r /\ \A y \in Timer : y # t => v.tmr[y] = w.tmr[y]
  BY <1>6 DEF Kept, Wheels
<1>8. FreeListed(v.tmr, t)
  BY <1>3, <1>7, FreePush DEF Kept
<1>9. WheelOK(v, now, p, NULL)
  <2>1. RunningSame(w, v)
    BY <1>3, <1>7 DEF RunningSame
  <2> QED
    BY <1>6, <2>1, WheelFrame
<1>10. Kept(v, t)
  BY <1>3, <1>6, <1>7, <1>8 DEF Kept, MaybeTimer
<1> QED
  BY <1>4, <1>5, <1>7, <1>9, <1>10

-----------------------------------------------------------------------------
(* The steps.                                                              *)

LEMMA BecomesIs ==
  ASSUME NEW v \in Wheels, Becomes(v)
  PROVE  Wheel' = v
<1>1. v = [tmr |-> v.tmr, first |-> v.first]
  BY DEF Wheels
<1> QED
  BY <1>1 DEF Becomes, Wheel

LEMMA ShownIs == Shown = View(Wheel, OSTmrTime)
<1>1. Wheel.tmr = tmr
  BY DEF Wheel
<1>2. \A t \in Timer : OSTmrRemainGet(t) = Remain(tmr[t], OSTmrTime)
  BY Zenon DEF OSTmrRemainGet, Remain, Until
<1> QED
  BY <1>1, <1>2, Zenon DEF Shown, View, Shows

LEMMA ShownAfter == Shown' = View(Wheel', OSTmrTime')
<1>1. Wheel'.tmr = tmr'
  BY DEF Wheel
<1>2. \A t \in Timer : OSTmrRemainGet(t)' = Remain(tmr'[t], OSTmrTime')
  BY Zenon DEF OSTmrRemainGet, Remain, Until
<1> QED
  BY <1>1, <1>2, Zenon DEF Shown, View, Shows

LEMMA ShownTimer ==
  ASSUME NEW t \in Timer
  PROVE  /\ Shown[t].state = tmr[t].OSTmrState /\ Shown[t].opt = tmr[t].OSTmrOpt
         /\ Shown[t].period = tmr[t].OSTmrPeriod /\ Shown[t].remain = Remain(tmr[t], OSTmrTime)
         /\ Promise!First(Shown[t]) = FirstOf(tmr[t])
<1>1. Shown[t] = Shows(tmr[t], OSTmrTime)
  BY ShownIs DEF View, Wheel
<1>2. /\ Shown[t].state = tmr[t].OSTmrState /\ Shown[t].opt = tmr[t].OSTmrOpt
      /\ Shown[t].dly = tmr[t].OSTmrDly
      /\ Shown[t].period = tmr[t].OSTmrPeriod /\ Shown[t].remain = Remain(tmr[t], OSTmrTime)
  BY <1>1 DEF Shows
<1> QED
  BY <1>2 DEF Promise!First, FirstOf

(* One timer has been touched, and now shows otherwise. *)
LEMMA ShownTouched ==
  ASSUME NEW v \in Wheels, Becomes(v), OSTmrTime' = OSTmrTime, NEW t \in Timer,
         Touches(Wheel, v, t, OSTmrTime)
  PROVE  Shown' = [Shown EXCEPT
           ![t] = Restate(Shown[t], v.tmr[t].OSTmrState, Remain(v.tmr[t], OSTmrTime))]
<1>1. Shown' = View(v, OSTmrTime)
  BY BecomesIs, ShownAfter
<1> QED
  BY <1>1, ShownIs, ViewTouched

Serves(p) == Kept(Wheel, OSTmrFreeList)' /\ WheelOK(Wheel', OSTmrTime, p, NULL)

LEMMA StopStep ==
  ASSUME TmrInv, NEW t \in Timer, NEW p \in MaybeTimer, p # t,
         WheelOK(Wheel, OSTmrTime, p, NULL), OSTmrTime' = OSTmrTime, OSTmrStop(t)
  PROVE  Serves(p) /\ Promise!Stop(t)
<1>1. PICK v : v = OSTmr_Unlink(Wheel, t)
  OBVIOUS
<1>2. /\ Becomes(v) /\ OSTmrFreeList' = OSTmrFreeList /\ Wheel.tmr[t].OSTmrState = "RUNNING"
      /\ tmr[t].OSTmrState = "RUNNING"
  BY <1>1 DEF OSTmrStop, Wheel
<1>3. MayStand(NULL, t) /\ Kept(Wheel, OSTmrFreeList)
  BY DEF MayStand, TmrInv
<1>4. /\ Kept(v, OSTmrFreeList) /\ WheelOK(v, OSTmrTime, p, NULL)
      /\ Touches(Wheel, v, t, OSTmrTime) /\ v.tmr[t].OSTmrState = "STOPPED"
  BY <1>1, <1>2, <1>3, UnlinkServes
<1>5. Wheel' = v /\ v \in Wheels
  BY <1>2, <1>4, BecomesIs DEF Kept
<1>6. Serves(p)
  BY <1>2, <1>4, <1>5, Zenon DEF Serves
<1>7. Remain(v.tmr[t], OSTmrTime) = FirstOf(tmr[t])
  <2>1. Remain(v.tmr[t], OSTmrTime) = FirstOf(v.tmr[t])
    BY <1>4, RemainIs DEF Kept
  <2>2. FirstOf(v.tmr[t]) = FirstOf(tmr[t])
    BY <1>4 DEF Touches, SameOptions, FirstOf, Wheel
  <2> QED
    BY <2>1, <2>2
<1>8. Shown' = [Shown EXCEPT ![t] = Restate(Shown[t], "STOPPED", Promise!First(Shown[t]))]
  <2>1. Shown' = [Shown EXCEPT
           ![t] = Restate(Shown[t], v.tmr[t].OSTmrState, Remain(v.tmr[t], OSTmrTime))]
    BY <1>2, <1>4, <1>5, ShownTouched
  <2> QED
    BY <1>4, <1>7, <2>1, ShownTimer
<1> QED
  BY <1>2, <1>6, <1>8, ShownTimer DEF Promise!Stop, Promise!Becomes, Promise!Runs, Restate

LEMMA StartStep ==
  ASSUME TmrInv, NEW t \in Timer, NEW p \in MaybeTimer, p # t,
         WheelOK(Wheel, OSTmrTime, p, NULL), OSTmrTime' = OSTmrTime, OSTmrStart(t)
  PROVE  Serves(p) /\ Promise!Start(t)
<1>1. PICK v : v = OSTmr_Link(IF Wheel.tmr[t].OSTmrState = "RUNNING" THEN OSTmr_Unlink(Wheel, t) ELSE Wheel,
                              t, FirstOf(Wheel.tmr[t]))
  OBVIOUS
<1>2. Wheel.tmr = tmr
  BY DEF Wheel
<1>3. Becomes(v) /\ OSTmrFreeList' = OSTmrFreeList /\ tmr[t].OSTmrState # "UNUSED"
  <2>1. FirstDly(t) = FirstOf(Wheel.tmr[t])
    BY <1>2 DEF FirstDly, FirstOf
  <2>2. v = OSTmr_Link(IF tmr[t].OSTmrState = "RUNNING" THEN OSTmr_Unlink(Wheel, t) ELSE Wheel,
                       t, FirstDly(t))
    BY <1>1, <1>2, <2>1, Zenon
  <2> QED
    BY <2>2, Zenon DEF OSTmrStart
<1>4. Kept(Wheel, OSTmrFreeList) /\ OSTmrTime \in 0 .. TIME - 1
  BY DEF TmrInv
<1>5. /\ Kept(v, OSTmrFreeList) /\ WheelOK(v, OSTmrTime, p, NULL) /\ Touches(Wheel, v, t, OSTmrTime)
      /\ v.tmr[t].OSTmrState = "RUNNING"
      /\ Remain(v.tmr[t], OSTmrTime) = FirstOf(Wheel.tmr[t])
  BY <1>1, <1>2, <1>3, <1>4, StartServes
<1>6. Wheel' = v /\ v \in Wheels
  BY <1>3, <1>5, BecomesIs DEF Kept
<1>7. Serves(p)
  BY <1>3, <1>5, <1>6, Zenon DEF Serves
<1>8. Shown' = [Shown EXCEPT ![t] = Restate(Shown[t], "RUNNING", Promise!First(Shown[t]))]
  <2>1. Shown' = [Shown EXCEPT
           ![t] = Restate(Shown[t], v.tmr[t].OSTmrState, Remain(v.tmr[t], OSTmrTime))]
    BY <1>3, <1>5, <1>6, ShownTouched
  <2>2. Remain(v.tmr[t], OSTmrTime) = Promise!First(Shown[t])
    BY <1>2, <1>5, ShownTimer
  <2> QED
    BY <1>5, <2>1, <2>2, Zenon
<1> QED
  BY <1>3, <1>7, <1>8, ShownTimer DEF Promise!Start, Promise!Becomes, Restate

LEMMA DelStep ==
  ASSUME TmrInv, NEW t \in Timer, NEW p \in MaybeTimer, p # t,
         WheelOK(Wheel, OSTmrTime, p, NULL), OSTmrTime' = OSTmrTime, OSTmrDel(t)
  PROVE  Serves(p) /\ Promise!Delete(t)
<1>1. PICK a : a = IF tmr[t].OSTmrState = "RUNNING" THEN OSTmr_Unlink(Wheel, t) ELSE Wheel
  OBVIOUS
<1>2. PICK v : v = OSTmr_Free(a, t)
  OBVIOUS
<1>3. Wheel.tmr = tmr
  BY DEF Wheel
<1>4. Becomes(v) /\ OSTmrFreeList' = t /\ tmr[t].OSTmrState # "UNUSED"
  BY <1>1, <1>2, Zenon DEF OSTmrDel
<1>5. Kept(Wheel, OSTmrFreeList)
  BY DEF TmrInv
<1>6. /\ Kept(a, OSTmrFreeList) /\ WheelOK(a, OSTmrTime, p, NULL)
      /\ a.tmr[t].OSTmrState \notin {"RUNNING", "UNUSED"}
      /\ \A y \in Timer : y # t => Shows(a.tmr[y], OSTmrTime) = Shows(tmr[y], OSTmrTime)
  <2>1. CASE tmr[t].OSTmrState = "RUNNING"
    <3>1. MayStand(NULL, t)
      BY DEF MayStand
    <3>2. /\ Kept(a, OSTmrFreeList) /\ WheelOK(a, OSTmrTime, p, NULL)
          /\ a.tmr[t].OSTmrState = "STOPPED" /\ Touches(Wheel, a, t, OSTmrTime)
      BY <1>1, <1>3, <1>5, <2>1, <3>1, UnlinkServes
    <3> QED
      BY <1>3, <3>2 DEF Touches
  <2>2. CASE tmr[t].OSTmrState # "RUNNING"
    BY <1>1, <1>3, <1>4, <1>5, <2>2
  <2> QED
    BY <2>1, <2>2
<1>7. /\ Kept(v, t) /\ WheelOK(v, OSTmrTime, p, NULL)
      /\ \A y \in Timer : y # t => Shows(v.tmr[y], OSTmrTime) = Shows(a.tmr[y], OSTmrTime)
      /\ Shows(v.tmr[t], OSTmrTime) = Promise!Unused
  BY <1>2, <1>6, FreeServes DEF Promise!Unused
<1>8. Wheel' = v
  BY <1>4, <1>7, BecomesIs DEF Kept
<1>9. Serves(p)
  BY <1>4, <1>7, <1>8, Zenon DEF Serves
<1>10. Shown' = [Shown EXCEPT ![t] = Promise!Unused]
  <2>1. Shown' = View(v, OSTmrTime)
    BY <1>8, ShownAfter
  <2>2. \A y \in Timer : y # t => Shows(v.tmr[y], OSTmrTime) = Shows(Wheel.tmr[y], OSTmrTime)
    BY <1>3, <1>6, <1>7
  <2> QED
    BY <1>7, <2>1, <2>2, ShownIs DEF View
<1> QED
  BY <1>4, <1>9, <1>10, ShownTimer DEF Promise!Delete, Promise!Becomes

LEMMA CreateStep ==
  ASSUME TmrInv, NEW k \in Kind, NEW p \in MaybeTimer,
         WheelOK(Wheel, OSTmrTime, p, NULL), OSTmrTime' = OSTmrTime,
         OSTmrCreate(k.dly, k.period, k.opt)
  PROVE  Serves(p) /\ \E t \in Timer : Promise!Create(t)
<1>1. PICK t : t = OSTmrFreeList
  OBVIOUS
<1>2. PICK r : r = [FreeTmr EXCEPT !.OSTmrState = "STOPPED", !.OSTmrDly = k.dly,
                                   !.OSTmrPeriod = k.period, !.OSTmrOpt = k.opt]
  OBVIOUS
<1>3. r = [OSTmrState |-> "STOPPED", OSTmrNext |-> NULL, OSTmrPrev |-> NULL,
           OSTmrMatch |-> 0, OSTmrDly |-> k.dly, OSTmrPeriod |-> k.period, OSTmrOpt |-> k.opt]
  BY <1>2 DEF FreeTmr
<1>4. /\ t # NULL /\ OSTmrFreeList' = tmr[t].OSTmrNext /\ tmr' = [tmr EXCEPT ![t] = r]
      /\ OSTmrFirst' = OSTmrFirst
      /\ IF k.opt = "PERIODIC" THEN k.period > 0 ELSE k.dly > 0
  BY <1>1, <1>2, Zenon DEF OSTmrCreate
<1>5. r \in Tmr /\ Optioned(r) /\ r.OSTmrState = "STOPPED"
  BY <1>3, <1>4, TmrAssumption DEF Tmr, Optioned
<1>6. Kept(Wheel, OSTmrFreeList) /\ Wheel.tmr = tmr /\ Wheel.first = OSTmrFirst
  BY DEF TmrInv, Wheel
<1>7. tmr \in [Timer -> Tmr] /\ OSTmrFirst \in [Spokes -> MaybeTimer] /\ FreeListed(tmr, t)
  BY <1>1, <1>6 DEF Kept, Wheels, MaybeTimer
<1>8. /\ Wheel'.tmr = [tmr EXCEPT ![t] = r] /\ Wheel'.first = OSTmrFirst
  BY <1>4 DEF Wheel
<1>9. PICK v : v = Wheel'
  OBVIOUS
<1>10. \A y \in Timer : v.tmr[y] = IF y = t THEN r ELSE tmr[y]
  BY <1>7, <1>8, <1>9
<1>11. t \in Timer /\ tmr[t].OSTmrState = "UNUSED" /\ FreeListed(v.tmr, tmr[t].OSTmrNext)
  <2>1. t \in Timer
    BY <1>1, <1>4, <1>6 DEF Kept, MaybeTimer
  <2>2. v.tmr[t].OSTmrState # "UNUSED" /\ \A y \in Timer : y # t => v.tmr[y] = tmr[y]
    BY <1>5, <1>10, <2>1
  <2> QED
    BY <1>4, <1>7, <2>2, FreePop
<1>12. v \in Wheels
  <2>1. PICK f : f = [tmr EXCEPT ![t] = r]
    OBVIOUS
  <2>2. f \in [Timer -> Tmr] /\ v = [tmr |-> f, first |-> OSTmrFirst]
    BY <1>4, <1>5, <1>7, <1>9, <2>1 DEF Wheel
  <2> QED
    BY <1>7, <2>2 DEF Wheels, MaybeTimer
<1>13. WheelOK(v, OSTmrTime, p, NULL)
  <2>1. RunningSame(Wheel, v)
    BY <1>5, <1>6, <1>10, <1>11 DEF RunningSame
  <2>2. v.first = Wheel.first
    BY <1>6, <1>8, <1>9
  <2> QED
    BY <2>1, <2>2, WheelFrame
<1>14. Kept(v, tmr[t].OSTmrNext)
  <2>1. tmr[t].OSTmrNext \in MaybeTimer
    BY <1>7, <1>11 DEF Tmr, MaybeTimer
  <2>2. \A y \in Timer : Optioned(v.tmr[y])
    BY <1>5, <1>6, <1>10 DEF Kept
  <2> QED
    BY <1>11, <1>12, <2>1, <2>2 DEF Kept
<1>15. Serves(p)
  BY <1>4, <1>9, <1>13, <1>14, Zenon DEF Serves
<1>16. PICK s : s = [state |-> "STOPPED", dly |-> k.dly, period |-> k.period, opt |-> k.opt,
                     remain |-> Promise!First(k)]
  OBVIOUS
<1>17. Shows(r, OSTmrTime) = s
  <2>1. Remain(r, OSTmrTime) = FirstOf(r)
    BY <1>5, RemainIs
  <2>2. FirstOf(r) = Promise!First(k)
    BY <1>3 DEF FirstOf, Promise!First
  <2>3. /\ r.OSTmrState = "STOPPED" /\ r.OSTmrDly = k.dly /\ r.OSTmrPeriod = k.period
        /\ r.OSTmrOpt = k.opt
    BY <1>3
  <2> QED
    BY <1>16, <2>1, <2>2, <2>3, Zenon DEF Shows
<1>18. Shown' = [Shown EXCEPT ![t] = s]
  <2>1. Shown' = View(v, OSTmrTime)
    BY <1>9, ShownAfter
  <2>2. \A y \in Timer : Shows(v.tmr[y], OSTmrTime) =
                           IF y = t THEN s ELSE Shows(Wheel.tmr[y], OSTmrTime)
    BY <1>6, <1>10, <1>17
  <2> QED
    BY <1>11, <2>1, <2>2, ShownIs DEF View
<1>19. Promise!Create(t)
  BY <1>11, <1>16, <1>18, ShownTimer DEF Promise!Create, Promise!Becomes
<1> QED
  BY <1>11, <1>15, <1>19

(* The tick: the clock goes on, and everything that runs has less to go.   *)
LEMMA TickIs ==
  ASSUME NEW now \in 0 .. TIME - 1, NEW m \in 0 .. TIME - 1
  PROVE  /\ (now + 1) % TIME \in 0 .. TIME - 1
         /\ m # now => Until(m, (now + 1) % TIME) = Until(m, now) - 1
<1>1. TIME \in Nat \ {0} /\ now + 1 \in 0 .. 2 * TIME - 1
  BY TmrAssumption
<1>2. PICK k \in 0 .. 2 * TIME - 1 : k = now + 1
  BY <1>1
<1>3. PICK n : n = (now + 1) % TIME
  OBVIOUS
<1>4. n = k % TIME
  BY <1>2, <1>3, Zenon
<1>5. n = (IF k < TIME THEN k ELSE k - TIME) /\ n \in 0 .. TIME - 1
  <2>1. k % TIME = (IF k < TIME THEN k ELSE k - TIME) /\ k % TIME \in 0 .. TIME - 1
    BY <1>1, Wraps
  <2> QED
    BY <1>4, <2>1, Zenon
<1>6. Until(m, n) = IF n <= m THEN m - n ELSE TIME + m - n
  BY <1>5, UntilIs
<1>7. Until(m, now) = IF now <= m THEN m - now ELSE TIME + m - now
  BY UntilIs
<1>8. m # now => Until(m, n) = Until(m, now) - 1
  BY <1>1, <1>2, <1>5, <1>6, <1>7
<1> QED
  BY <1>3, <1>5, <1>8

LEMMA RemainRestated ==
  ASSUME NEW s, NEW a, NEW b, NEW c, NEW n, NEW n2, NEW f, Reads(f, s, a, b, c, n)
  PROVE  [f EXCEPT !.remain = n2] = Restate(f, s, n2)
<1>1. Restate(f, s, n2) = [state |-> s, dly |-> a, period |-> b, opt |-> c, remain |-> n2]
  BY Restated
<1>2. f \in [state : {s}, dly : {a}, period : {b}, opt : {c}, remain : {n, n2}]
        /\ f.state = s /\ f.dly = a /\ f.period = b /\ f.opt = c /\ f.remain = n
  BY DEF Reads
<1>3. PICK g : g = [f EXCEPT !.remain = n2]
  OBVIOUS
<1>4. g \in [state : {s}, dly : {a}, period : {b}, opt : {c}, remain : {n, n2}]
  BY <1>2, <1>3
<1>5. g.state = s /\ g.dly = a /\ g.period = b /\ g.opt = c /\ g.remain = n2
  BY <1>2, <1>3
<1>6. g = [state |-> g.state, dly |-> g.dly, period |-> g.period, opt |-> g.opt, remain |-> g.remain]
  BY <1>4
<1> QED
  BY <1>1, <1>3, <1>5, <1>6

LEMMA StateRestated ==
  ASSUME NEW s, NEW a, NEW b, NEW c, NEW n, NEW s2, NEW f, Reads(f, s, a, b, c, n)
  PROVE  [f EXCEPT !.state = s2] = Restate(f, s2, n)
<1>1. Restate(f, s2, n) = [state |-> s2, dly |-> a, period |-> b, opt |-> c, remain |-> n]
  BY Restated
<1>2. f \in [state : {s, s2}, dly : {a}, period : {b}, opt : {c}, remain : {n}]
        /\ f.state = s /\ f.dly = a /\ f.period = b /\ f.opt = c /\ f.remain = n
  BY DEF Reads
<1>3. PICK g : g = [f EXCEPT !.state = s2]
  OBVIOUS
<1>4. g \in [state : {s, s2}, dly : {a}, period : {b}, opt : {c}, remain : {n}]
  BY <1>2, <1>3
<1>5. g.state = s2 /\ g.dly = a /\ g.period = b /\ g.opt = c /\ g.remain = n
  BY <1>2, <1>3
<1>6. g = [state |-> g.state, dly |-> g.dly, period |-> g.period, opt |-> g.opt, remain |-> g.remain]
  BY <1>4
<1> QED
  BY <1>1, <1>3, <1>5, <1>6

LEMMA ShownRecord ==
  ASSUME NEW t \in Timer
  PROVE  Reads(Shown[t], tmr[t].OSTmrState, tmr[t].OSTmrDly, tmr[t].OSTmrPeriod, tmr[t].OSTmrOpt,
               Remain(tmr[t], OSTmrTime))
<1>1. Shown[t] = Shows(tmr[t], OSTmrTime)
  BY ShownIs DEF View, Wheel
<1> QED
  BY <1>1 DEF Shows, Reads

LEMMA AdvanceStep ==
  ASSUME TmrInv, Advance
  PROVE  TmrInv' /\ Promise!Tick
<1>1. /\ task.at = "pend" /\ OSTmrTime' = (OSTmrTime + 1) % TIME
      /\ task' = [at |-> "visit", ptmr |-> OSTmrFirst[OSTmrTime' % WHEEL], next |-> NULL]
      /\ tmr' = tmr /\ OSTmrFirst' = OSTmrFirst /\ OSTmrFreeList' = OSTmrFreeList
  BY DEF Advance
<1>2. Kept(Wheel, OSTmrFreeList) /\ WheelOK(Wheel, OSTmrTime, NULL, NULL) /\ OSTmrTime \in 0 .. TIME - 1
  BY <1>1 DEF TmrInv, Cursor
<1>3. Wheel' = Wheel /\ Wheel.tmr = tmr /\ Wheel.first = OSTmrFirst
  BY <1>1 DEF Wheel
<1>4. OSTmrTime' \in 0 .. TIME - 1
  BY <1>1, <1>2, TickIs
<1>5. PICK p : p = OSTmrFirst[OSTmrTime' % WHEEL]
  OBVIOUS
<1>6. PICK now2 : now2 = OSTmrTime'
  OBVIOUS
<1>7. now2 % WHEEL \in Spokes
  BY <1>4, <1>6, SpokeIs, TmrAssumption
<1>8. WheelOK(Wheel, now2, p, NULL) /\ p \in MaybeTimer
  <2>1. p = Wheel.first[now2 % WHEEL]
    BY <1>3, <1>5, <1>6
  <2> QED
    BY <1>2, <1>7, <2>1, CursorStarts DEF Kept, Wheels, MaybeTimer
<1>9. task' = [at |-> "visit", ptmr |-> p, next |-> NULL] /\ Cursor' = p
  BY <1>1, <1>5 DEF Cursor
<1>10. TmrInv'
  <2>1. TaskOK'
    BY <1>8, <1>9 DEF TaskOK, MaybeTimer
  <2>2. WheelOK(Wheel, OSTmrTime, Cursor, NULL)'
    BY <1>3, <1>6, <1>8, <1>9, Zenon
  <2>3. Kept(Wheel, OSTmrFreeList)'
    BY <1>1, <1>2, <1>3, Zenon
  <2> QED
    BY <1>4, <2>1, <2>2, <2>3 DEF TmrInv
<1>11. \A t \in Timer : tmr[t].OSTmrState = "RUNNING" =>
         /\ Remain(tmr[t], OSTmrTime) > 0
         /\ Remain(tmr[t], now2) = Remain(tmr[t], OSTmrTime) - 1
  <2> SUFFICES ASSUME NEW t \in Timer, tmr[t].OSTmrState = "RUNNING"
               PROVE  /\ Remain(tmr[t], OSTmrTime) > 0
                      /\ Remain(tmr[t], now2) = Remain(tmr[t], OSTmrTime) - 1
    OBVIOUS
  <2>1. PICK m : m = tmr[t].OSTmrMatch
    OBVIOUS
  <2>2. m \in 0 .. TIME - 1 /\ m # OSTmrTime
    BY <1>2, <1>3, <2>1, NoneDue DEF Kept, Wheels, Tmr
  <2>3. Remain(tmr[t], OSTmrTime) = Until(m, OSTmrTime) /\ Remain(tmr[t], now2) = Until(m, now2)
    BY <2>1, RemainIs
  <2>4. Until(m, OSTmrTime) \in 0 .. TIME - 1 /\ Until(m, OSTmrTime) # 0
    BY <1>2, <2>2, UntilIs
  <2>5. Until(m, now2) = Until(m, OSTmrTime) - 1
    BY <1>1, <1>2, <1>6, <2>2, TickIs
  <2> QED
    BY <2>3, <2>4, <2>5, TmrAssumption
<1>12. \A t \in Timer : Shows(tmr[t], now2) =
         IF Promise!Runs(t) THEN [Shown[t] EXCEPT !.remain = @ - 1] ELSE Shown[t]
  <2> SUFFICES ASSUME NEW t \in Timer
               PROVE  Shows(tmr[t], now2) =
                        IF Promise!Runs(t) THEN [Shown[t] EXCEPT !.remain = @ - 1] ELSE Shown[t]
    OBVIOUS
  <2>1. Promise!Runs(t) <=> tmr[t].OSTmrState = "RUNNING"
    BY ShownTimer DEF Promise!Runs
  <2>2. CASE tmr[t].OSTmrState = "RUNNING"
    <3>1. PICK n : n = Remain(tmr[t], now2)
      OBVIOUS
    <3>2. PICK f : f = Shown[t]
      OBVIOUS
    <3>3. [f EXCEPT !.remain = @ - 1] = [f EXCEPT !.remain = n]
      <4>1. f.remain - 1 = n
        BY <1>11, <2>2, <3>1, <3>2, ShownTimer
      <4> QED
        BY <4>1
    <3>4. [f EXCEPT !.remain = n] = Restate(f, "RUNNING", n)
      <4>1. Reads(f, "RUNNING", tmr[t].OSTmrDly, tmr[t].OSTmrPeriod, tmr[t].OSTmrOpt,
                  Remain(tmr[t], OSTmrTime))
        BY <2>2, <3>2, ShownRecord
      <4> QED
        BY <4>1, RemainRestated
    <3>5. Restate(f, "RUNNING", n) =
            [state |-> tmr[t].OSTmrState, dly |-> tmr[t].OSTmrDly, period |-> tmr[t].OSTmrPeriod,
             opt |-> tmr[t].OSTmrOpt, remain |-> n]
      BY <2>2, <3>2, ShownRecord, Restated
    <3>6. Shows(tmr[t], now2) = [f EXCEPT !.remain = @ - 1]
      BY <3>1, <3>3, <3>4, <3>5, Zenon DEF Shows
    <3> QED
      BY <2>1, <2>2, <3>2, <3>6
  <2>3. CASE tmr[t].OSTmrState # "RUNNING"
    <3>1. Remain(tmr[t], now2) = Remain(tmr[t], OSTmrTime)
      BY <2>3 DEF Remain
    <3>2. Shows(tmr[t], now2) = Shown[t]
      BY <3>1, ShownRecord DEF Shows, Reads
    <3> QED
      BY <2>1, <2>3, <3>2
  <2> QED
    BY <2>2, <2>3
<1>13. Shown' = [t \in Timer |-> IF Promise!Runs(t) THEN [Shown[t] EXCEPT !.remain = @ - 1] ELSE Shown[t]]
  <2>1. Shown' = [t \in Timer |-> Shows(tmr[t], now2)]
    BY <1>3, <1>6, ShownAfter DEF View
  <2> QED
    BY <1>12, <2>1
<1>14. \A t \in Timer : Promise!Runs(t) => Shown[t].remain > 0
  BY <1>11, ShownTimer DEF Promise!Runs
<1> QED
  BY <1>10, <1>13, <1>14 DEF Promise!Tick

(* A visit to a timer that is not due, or to none, shows nothing.          *)
LEMMA PassStep ==
  ASSUME TmrInv, Visit, task.ptmr = NULL \/ OSTmrTime # tmr[task.ptmr].OSTmrMatch
  PROVE  TmrInv' /\ UNCHANGED Shown
<1>1. PICK t, next : t = task.ptmr /\ next = IF t = NULL THEN NULL ELSE tmr[t].OSTmrNext
  OBVIOUS
<1>2. /\ task.at = "visit" /\ task' = GoTo(next)
      /\ tmr' = tmr /\ OSTmrFirst' = OSTmrFirst /\ OSTmrFreeList' = OSTmrFreeList
      /\ OSTmrTime' = OSTmrTime
  BY <1>1 DEF Visit
<1>3. /\ Kept(Wheel, OSTmrFreeList) /\ WheelOK(Wheel, OSTmrTime, t, NULL)
      /\ OSTmrTime \in 0 .. TIME - 1 /\ t \in MaybeTimer
  BY <1>1, <1>2 DEF TmrInv, Cursor, TaskOK
<1>4. Wheel' = Wheel /\ Wheel.tmr = tmr
  BY <1>2 DEF Wheel
<1>5. next \in MaybeTimer /\ WheelOK(Wheel, OSTmrTime, next, NULL)
  <2>1. CASE t = NULL
    BY <1>1, <1>3, <2>1
  <2>2. CASE t # NULL
    <3>1. t \in Timer /\ next = Wheel.tmr[t].OSTmrNext /\ Wheel.tmr[t].OSTmrMatch # OSTmrTime
      BY <1>1, <1>3, <1>4, <2>2 DEF MaybeTimer
    <3>2. next \in MaybeTimer
      BY <1>3, <3>1 DEF Kept, Wheels, Tmr, MaybeTimer
    <3>3. OSTmrTime % WHEEL \in Spokes
      BY <1>3, SpokeIs, TmrAssumption
    <3> QED
      BY <1>3, <3>1, <3>2, <3>3, CursorPasses DEF Kept, Passable
  <2> QED
    BY <2>1, <2>2
<1>6. Cursor' = next /\ TaskOK'
  BY <1>2, <1>5, TmrAssumption DEF GoTo, Pends, Cursor, TaskOK, MaybeTimer
<1>7. TmrInv'
  <2>1. WheelOK(Wheel, OSTmrTime, Cursor, NULL)'
    BY <1>2, <1>4, <1>5, <1>6, Zenon
  <2>2. Kept(Wheel, OSTmrFreeList)'
    BY <1>2, <1>3, <1>4, Zenon
  <2> QED
    BY <1>2, <1>3, <1>6, <2>1, <2>2 DEF TmrInv
<1>8. Shown' = Shown
  BY <1>2, <1>4, ShownIs, ShownAfter
<1> QED
  BY <1>7, <1>8

(* A visit to one that is due is its expiry.                               *)
LEMMA ExpireStep ==
  ASSUME TmrInv, Visit, task.ptmr # NULL, OSTmrTime = tmr[task.ptmr].OSTmrMatch
  PROVE  TmrInv' /\ \E t \in Timer : Promise!Expire(t)
<1>1. PICK t, next : t = task.ptmr /\ next = tmr[t].OSTmrNext
  OBVIOUS
<1>2. /\ task.at = "visit" /\ task' = [at |-> "callback", ptmr |-> t, next |-> next]
      /\ Becomes(Expired(t)) /\ OSTmrFreeList' = OSTmrFreeList /\ OSTmrTime' = OSTmrTime
  BY <1>1 DEF Visit
<1>3. /\ Kept(Wheel, OSTmrFreeList) /\ WheelOK(Wheel, OSTmrTime, t, NULL)
      /\ OSTmrTime \in 0 .. TIME - 1 /\ t \in Timer
  BY <1>1, <1>2 DEF TmrInv, Cursor, TaskOK, MaybeTimer
<1>4. Wheel.tmr = tmr /\ next \in MaybeTimer /\ tmr[t] \in Tmr
  BY <1>1, <1>3 DEF Wheel, Kept, Wheels, Tmr, MaybeTimer
<1>5. WheelOK(Wheel, OSTmrTime, next, t) /\ next # t /\ tmr[t].OSTmrState = "RUNNING"
  <2>1. OSTmrTime % WHEEL \in Spokes
    BY <1>3, SpokeIs, TmrAssumption
  <2> QED
    <3>1. Passable(Wheel, t, OSTmrTime, t)
      BY Zenon DEF Passable
    <3>2. Wheel \in Wheels
      BY <1>3 DEF Kept
    <3> QED
      BY <1>1, <1>3, <1>4, <2>1, <3>1, <3>2, CursorPasses
<1>6. PICK a : a = OSTmr_Unlink(Wheel, t)
  OBVIOUS
<1>7. /\ Kept(a, OSTmrFreeList) /\ WheelOK(a, OSTmrTime, next, NULL)
      /\ Touches(Wheel, a, t, OSTmrTime) /\ a.tmr[t].OSTmrState = "STOPPED"
  <2>1. MayStand(t, t)
    BY DEF MayStand
  <2> QED
    BY <1>3, <1>4, <1>5, <1>6, <2>1, UnlinkServes
<1>8. PICK v : v = Expired(t)
  OBVIOUS
<1>9. /\ Kept(v, OSTmrFreeList) /\ WheelOK(v, OSTmrTime, next, NULL)
      /\ Touches(a, v, t, OSTmrTime)
      /\ IF tmr[t].OSTmrOpt = "PERIODIC"
         THEN v.tmr[t].OSTmrState = "RUNNING" /\ Remain(v.tmr[t], OSTmrTime) = tmr[t].OSTmrPeriod
         ELSE v.tmr[t].OSTmrState = "COMPLETED" /\ Remain(v.tmr[t], OSTmrTime) = 0
  <2>1. CASE tmr[t].OSTmrOpt = "PERIODIC"
    <3>1. PICK d : d = tmr[t].OSTmrPeriod
      OBVIOUS
    <3>2. d \in 1 .. TIME - 1
      <4>1. Optioned(tmr[t])
        BY <1>3, <1>4 DEF Kept
      <4> QED
        BY <1>4, <1>5, <2>1, <3>1, <4>1, TmrAssumption DEF Optioned, Tmr
    <3>3. v = OSTmr_Link(a, t, d)
      BY <1>6, <1>8, <2>1, <3>1, Zenon DEF Expired
    <3>4. a.tmr[t].OSTmrState \notin {"RUNNING", "UNUSED"}
      BY <1>7
    <3> QED
      BY <1>3, <1>4, <1>5, <1>7, <2>1, <3>1, <3>2, <3>3, <3>4, LinkServes
  <2>2. CASE tmr[t].OSTmrOpt # "PERIODIC"
    <3>1. v = [a EXCEPT !.tmr[t].OSTmrState = "COMPLETED"]
      BY <1>6, <1>8, <2>2, Zenon DEF Expired
    <3>2. PICK r : r = [a.tmr[t] EXCEPT !.OSTmrState = "COMPLETED"]
      OBVIOUS
    <3>3. a.tmr \in [Timer -> Tmr] /\ a.tmr[t] \in Tmr /\ a \in Wheels
      BY <1>3, <1>7 DEF Kept, Wheels
    <3>4. /\ r \in Tmr /\ r.OSTmrState = "COMPLETED" /\ SameOptions(r, a.tmr[t])
      BY <3>2, <3>3 DEF Tmr, SameOptions
    <3>5. v \in Wheels /\ v.first = a.first /\ v.tmr = [a.tmr EXCEPT ![t] = r]
      BY <3>1, <3>2, <3>3, <3>4 DEF Wheels
    <3>6. v.tmr[t] = r /\ \A y \in Timer : y # t => v.tmr[y] = a.tmr[y]
      BY <1>3, <3>3, <3>5
    <3>7. WheelOK(v, OSTmrTime, next, NULL)
      <4>1. RunningSame(a, v)
        BY <1>7, <3>4, <3>6 DEF RunningSame
      <4> QED
        BY <1>7, <3>5, <4>1, WheelFrame
    <3>8. FreeListed(v.tmr, OSTmrFreeList)
      <4>1. \A y \in Timer : /\ v.tmr[y].OSTmrState = "UNUSED" <=> a.tmr[y].OSTmrState = "UNUSED"
                             /\ a.tmr[y].OSTmrState = "UNUSED" => v.tmr[y].OSTmrNext = a.tmr[y].OSTmrNext
        BY <1>7, <3>4, <3>6
      <4> QED
        BY <1>7, <4>1, FreeFrame DEF Kept
    <3>9. \A y \in Timer : Optioned(v.tmr[y])
      <4>1. Optioned(r)
        BY <1>3, <1>7, <3>4 DEF Kept, Optioned, SameOptions
      <4> QED
        BY <1>7, <3>6, <4>1 DEF Kept
    <3>10. Kept(v, OSTmrFreeList)
      BY <1>7, <3>5, <3>8, <3>9 DEF Kept
    <3>11. Touches(a, v, t, OSTmrTime)
      BY <3>4, <3>6 DEF Touches
    <3>12. Remain(v.tmr[t], OSTmrTime) = 0
      BY <3>4, <3>6, RemainIs
    <3> QED
      BY <2>2, <3>4, <3>6, <3>7, <3>10, <3>11, <3>12
  <2> QED
    BY <2>1, <2>2
<1>10. Wheel' = v /\ Becomes(v) /\ v \in Wheels
  BY <1>2, <1>8, <1>9, BecomesIs DEF Kept
<1>11. Cursor' = next /\ TaskOK'
  BY <1>2, <1>3, <1>4, <1>5 DEF Cursor, TaskOK, MaybeTimer
<1>12. TmrInv'
  <2>1. WheelOK(Wheel, OSTmrTime, Cursor, NULL)'
    BY <1>2, <1>9, <1>10, <1>11, Zenon
  <2>2. Kept(Wheel, OSTmrFreeList)'
    BY <1>2, <1>9, <1>10, Zenon
  <2> QED
    BY <1>2, <1>3, <1>11, <2>1, <2>2 DEF TmrInv
<1>13. Touches(Wheel, v, t, OSTmrTime)
  BY <1>7, <1>9 DEF Touches, SameOptions
<1>14. Shown' = [Shown EXCEPT
         ![t] = Restate(Shown[t], v.tmr[t].OSTmrState, Remain(v.tmr[t], OSTmrTime))]
  BY <1>2, <1>3, <1>10, <1>13, ShownTouched
<1>15. Remain(tmr[t], OSTmrTime) = 0
  <2>1. Remain(tmr[t], OSTmrTime) = Until(OSTmrTime, OSTmrTime)
    BY <1>1, <1>5, RemainIs
  <2>2. Until(OSTmrTime, OSTmrTime) = 0
    BY <1>3, UntilIs
  <2> QED
    BY <2>1, <2>2
<1>16. Reads(Shown[t], "RUNNING", tmr[t].OSTmrDly, tmr[t].OSTmrPeriod, tmr[t].OSTmrOpt, 0)
  BY <1>3, <1>5, <1>15, ShownRecord
<1>17. Promise!Expire(t)
  <2>1. Shown[t].state = "RUNNING" /\ Shown[t].remain = 0 /\ Shown[t].opt = tmr[t].OSTmrOpt
        /\ Shown[t].period = tmr[t].OSTmrPeriod
    BY <1>16 DEF Reads
  <2>2. CASE tmr[t].OSTmrOpt = "PERIODIC"
    <3>1. Restate(Shown[t], "RUNNING", Shown[t].period) = [Shown[t] EXCEPT !.remain = Shown[t].period]
      BY <1>16, RemainRestated
    <3>2. Shown' = [Shown EXCEPT ![t] = Restate(Shown[t], "RUNNING", Shown[t].period)]
      BY <1>9, <1>14, <2>1, <2>2
    <3> QED
      BY <2>1, <2>2, <3>1, <3>2 DEF Promise!Expire, Promise!Becomes
  <2>3. CASE tmr[t].OSTmrOpt # "PERIODIC"
    <3>1. Restate(Shown[t], "COMPLETED", 0) = [Shown[t] EXCEPT !.state = "COMPLETED"]
      BY <1>16, StateRestated
    <3>2. Shown' = [Shown EXCEPT ![t] = Restate(Shown[t], "COMPLETED", 0)]
      BY <1>9, <1>14, <2>3
    <3> QED
      BY <2>1, <2>3, <3>1, <3>2 DEF Promise!Expire, Promise!Becomes
  <2> QED
    BY <2>2, <2>3
<1> QED
  BY <1>3, <1>12, <1>17

(* A service for a timer that OSTmr_Task is not about to look at.          *)
LEMMA ServiceStep ==
  ASSUME TmrInv, NEW t \in Timer, NEW p \in MaybeTimer, p # t,
         WheelOK(Wheel, OSTmrTime, p, NULL), OSTmrTime' = OSTmrTime, Callback(t)
  PROVE  Serves(p) /\ (Promise!Next \/ UNCHANGED Shown)
<1>1. CASE OSTmrStart(t)
  BY <1>1, StartStep DEF Promise!Next
<1>2. CASE OSTmrStop(t)
  BY <1>2, StopStep DEF Promise!Next
<1>3. CASE OSTmrDel(t)
  BY <1>3, DelStep DEF Promise!Next
<1>4. CASE UNCHANGED <<tmr, OSTmrFirst, OSTmrFreeList>>
  <2>1. Wheel' = Wheel /\ OSTmrFreeList' = OSTmrFreeList
    BY <1>4 DEF Wheel
  <2>2. Serves(p)
    <3>1. Kept(Wheel, OSTmrFreeList)
      BY DEF TmrInv
    <3> QED
      BY <2>1, <3>1, Zenon DEF Serves
  <2>3. Shown' = Shown
    BY <2>1, ShownIs, ShownAfter
  <2> QED
    BY <2>2, <2>3
<1> QED
  BY <1>1, <1>2, <1>3, <1>4 DEF Callback

LEMMA ServedInv ==
  ASSUME TmrInv, NEW p, Serves(p), OSTmrTime' = OSTmrTime, Cursor' = p, TaskOK'
  PROVE  TmrInv'
<1>1. WheelOK(Wheel, OSTmrTime, Cursor, NULL)'
  BY Zenon DEF Serves
<1> QED
  BY <1>1 DEF TmrInv, Serves

LEMMA StepIs == TmrInv /\ [TmrNext]_tmrVars => TmrInv' /\ [Promise!Next]_Shown
<1> SUFFICES ASSUME TmrInv, [TmrNext]_tmrVars
             PROVE  TmrInv' /\ [Promise!Next]_Shown
  OBVIOUS
<1>1. CASE Client
  <2>1. task.at = "pend" /\ OSTmrTime' = OSTmrTime /\ task' = task
    BY <1>1 DEF Client
  <2>2. /\ Cursor = NULL /\ Cursor' = NULL /\ TaskOK' /\ NULL \in MaybeTimer
        /\ WheelOK(Wheel, OSTmrTime, NULL, NULL) /\ \A t \in Timer : NULL # t
    BY <2>1, TmrAssumption DEF Cursor, TmrInv, TaskOK, MaybeTimer
  <2>3. Serves(NULL) /\ (Promise!Next \/ UNCHANGED Shown)
    <3>1. CASE \E k \in Kind : OSTmrCreate(k.dly, k.period, k.opt)
      BY <2>1, <2>2, <3>1, CreateStep DEF Promise!Next
    <3>2. ASSUME NEW t \in Timer, OSTmrDel(t) \/ OSTmrStart(t) \/ OSTmrStop(t)
          PROVE  Serves(NULL) /\ (Promise!Next \/ UNCHANGED Shown)
      <4>1. Callback(t)
        BY <3>2 DEF Callback
      <4> QED
        BY <2>1, <2>2, <4>1, ServiceStep
    <3> QED
      BY <1>1, <3>1, <3>2 DEF Client
  <2>4. TmrInv'
    BY <2>1, <2>2, <2>3, ServedInv
  <2> QED
    BY <2>3, <2>4
<1>2. CASE Advance
  BY <1>2, AdvanceStep DEF Promise!Next
<1>3. CASE Visit
  <2>1. CASE task.ptmr = NULL \/ OSTmrTime # tmr[task.ptmr].OSTmrMatch
    BY <1>3, <2>1, PassStep
  <2>2. CASE ~(task.ptmr = NULL \/ OSTmrTime # tmr[task.ptmr].OSTmrMatch)
    BY <1>3, <2>2, ExpireStep DEF Promise!Next
  <2> QED
    BY <2>1, <2>2
<1>4. CASE RunCallback
  <2>1. PICK t, p : t = task.ptmr /\ p = task.next
    OBVIOUS
  <2>2. task.at = "callback" /\ OSTmrTime' = OSTmrTime /\ task' = GoTo(p) /\ Callback(t)
    BY <1>4, <2>1 DEF RunCallback
  <2>3. t \in Timer /\ p \in MaybeTimer /\ p # t /\ WheelOK(Wheel, OSTmrTime, p, NULL)
    BY <2>1, <2>2 DEF TmrInv, TaskOK, Cursor
  <2>4. Cursor' = p /\ TaskOK'
    BY <2>2, <2>3, TmrAssumption DEF GoTo, Pends, Cursor, TaskOK, MaybeTimer
  <2>5. Serves(p) /\ (Promise!Next \/ UNCHANGED Shown)
    BY <2>2, <2>3, ServiceStep
  <2>6. TmrInv'
    BY <2>2, <2>4, <2>5, ServedInv
  <2> QED
    BY <2>5, <2>6
<1>5. CASE UNCHANGED tmrVars
  <2>1. /\ Wheel' = Wheel /\ OSTmrFreeList' = OSTmrFreeList /\ OSTmrTime' = OSTmrTime
        /\ task' = task
    BY <1>5 DEF tmrVars, Wheel
  <2>2. Cursor' = Cursor /\ TaskOK'
    BY <2>1 DEF Cursor, TaskOK, TmrInv
  <2>3. Kept(Wheel, OSTmrFreeList)' /\ WheelOK(Wheel, OSTmrTime, Cursor, NULL)'
    <3>1. Kept(Wheel, OSTmrFreeList) /\ WheelOK(Wheel, OSTmrTime, Cursor, NULL)
      BY DEF TmrInv
    <3> QED
      BY <2>1, <2>2, <3>1, Zenon
  <2>4. TmrInv'
    BY <2>1, <2>2, <2>3 DEF TmrInv
  <2>5. Shown' = Shown
    BY <2>1, ShownIs, ShownAfter
  <2> QED
    BY <2>4, <2>5
<1> QED
  BY <1>1, <1>2, <1>3, <1>4, <1>5 DEF TmrNext

-----------------------------------------------------------------------------
(* The beginning.                                                          *)

Order == CHOOSE o \in [1 .. Cardinality(Timer) -> Timer] :
           \A i, j \in DOMAIN o : o[i] = o[j] => i = j
Place(t) == CHOOSE j \in DOMAIN Order : Order[j] = t

LEMMA OrderIs ==
  /\ Cardinality(Timer) \in Nat \ {0} /\ Order \in Seq(Timer) /\ Len(Order) = Cardinality(Timer)
  /\ DOMAIN Order = 1 .. Cardinality(Timer) /\ Once(Order)
  /\ \A t \in Timer : Place(t) \in 1 .. Cardinality(Timer) /\ Order[Place(t)] = t
<1>1. PICK n : n = Cardinality(Timer)
  OBVIOUS
<1>2. n \in Nat \ {0} /\ ExistsBijection(1 .. n, Timer)
  BY <1>1, TmrAssumption, FS_CardinalityType, FS_EmptySet
<1>3. PICK f \in [1 .. n -> Timer] : \A i, j \in DOMAIN f : f[i] = f[j] => i = j
  BY <1>2 DEF ExistsBijection, Bijection, Injection, IsInjective
<1>4. /\ Order \in [1 .. n -> Timer]
      /\ \A i, j \in DOMAIN Order : Order[i] = Order[j] => i = j
  BY <1>1, <1>3 DEF Order
<1>5. Order \in Seq(Timer) /\ Len(Order) = n /\ DOMAIN Order = 1 .. n
  BY <1>2, <1>4
<1>6. Order \in Injection(1 .. n, Timer)
  BY <1>4 DEF Injection, IsInjective
<1>7. Cardinality(1 .. n) = n
  BY <1>2, FS_Interval
<1>8. Order \in Surjection(1 .. n, Timer)
  BY <1>1, <1>6, <1>7, TmrAssumption, FS_Injection
<1>9. \A t \in Timer : \E j \in 1 .. n : Order[j] = t
  BY <1>8 DEF Surjection
<1>10. \A t \in Timer : Place(t) \in 1 .. n /\ Order[Place(t)] = t
  BY <1>5, <1>9 DEF Place
<1> QED
  BY <1>1, <1>2, <1>4, <1>5, <1>10 DEF Once

LEMMA InitIs == TmrInit => TmrInv /\ Promise!Init
<1> SUFFICES ASSUME TmrInit PROVE TmrInv /\ Promise!Init
  OBVIOUS
<1>1. PICK n \in Nat \ {0} : n = Cardinality(Timer)
  BY OrderIs
<1>2. /\ tmr = [t \in Timer |-> [FreeTmr EXCEPT !.OSTmrNext =
                  IF Place(t) + 1 \in DOMAIN Order THEN Order[Place(t) + 1] ELSE NULL]]
      /\ OSTmrFreeList = Order[1] /\ OSTmrFirst = [s \in 0 .. WHEEL - 1 |-> NULL]
      /\ OSTmrTime = 0 /\ task = Pends
  BY DEF TmrInit, OSTmr_Init, Order, Place
<1>3. /\ Order \in Seq(Timer) /\ Len(Order) = n /\ DOMAIN Order = 1 .. n /\ Once(Order)
      /\ \A t \in Timer : Place(t) \in 1 .. n /\ Order[Place(t)] = t
  BY <1>1, OrderIs
<1>4. \A i \in 1 .. n : Order[i] \in Timer
  BY <1>3
<1>5. \A i \in 1 .. n : Place(Order[i]) = i
  BY <1>3, <1>4 DEF Once
<1>6. \A t \in Timer : tmr[t] =
        [OSTmrState |-> "UNUSED",
         OSTmrNext |-> IF Place(t) + 1 \in 1 .. n THEN Order[Place(t) + 1] ELSE NULL,
         OSTmrPrev |-> NULL, OSTmrMatch |-> 0, OSTmrDly |-> 0, OSTmrPeriod |-> 0,
         OSTmrOpt |-> "NONE"]
  BY <1>2, <1>3 DEF FreeTmr
<1>7. \A t \in Timer : /\ tmr[t] \in Tmr /\ Optioned(tmr[t]) /\ tmr[t].OSTmrState = "UNUSED"
                       /\ tmr[t].OSTmrNext = IF Place(t) + 1 \in 1 .. n THEN Order[Place(t) + 1] ELSE NULL
  <2> SUFFICES ASSUME NEW t \in Timer
               PROVE  /\ tmr[t] \in Tmr /\ Optioned(tmr[t]) /\ tmr[t].OSTmrState = "UNUSED"
                      /\ tmr[t].OSTmrNext = IF Place(t) + 1 \in 1 .. n THEN Order[Place(t) + 1] ELSE NULL
    OBVIOUS
  <2>1. PICK o : o = IF Place(t) + 1 \in 1 .. n THEN Order[Place(t) + 1] ELSE NULL
    OBVIOUS
  <2>2. o \in Timer \cup {NULL}
    BY <1>4, <2>1
  <2>3. tmr[t] = [OSTmrState |-> "UNUSED", OSTmrNext |-> o, OSTmrPrev |-> NULL, OSTmrMatch |-> 0,
                  OSTmrDly |-> 0, OSTmrPeriod |-> 0, OSTmrOpt |-> "NONE"]
    BY <1>6, <2>1
  <2>4. tmr[t] \in Tmr
    BY <2>2, <2>3, TmrAssumption DEF Tmr
  <2> QED
    BY <2>1, <2>3, <2>4 DEF Optioned
<1>8. Wheel \in Wheels /\ Wheel.tmr = tmr /\ Wheel.first = OSTmrFirst
  <2>1. tmr \in [Timer -> Tmr]
    BY <1>2, <1>7
  <2>2. OSTmrFirst \in [Spokes -> Timer \cup {NULL}]
    BY <1>2 DEF Spokes
  <2> QED
    BY <2>1, <2>2 DEF Wheel, Wheels
<1>9. FreeListed(tmr, OSTmrFreeList) /\ OSTmrFreeList \in MaybeTimer
  <2>1. Forth(tmr, Order)
    BY <1>3, <1>4, <1>5, <1>7 DEF Forth
  <2>2. OSTmrFreeList = First(Order) /\ OSTmrFreeList \in Timer
    BY <1>2, <1>3, <1>4 DEF First
  <2>3. OnFreeList(tmr, OSTmrFreeList, Order)
    BY <1>3, <1>7, <2>1, <2>2 DEF OnFreeList
  <2> QED
    BY <1>3, <2>2, <2>3 DEF FreeListed, MaybeTimer
<1>10. Cursor = NULL /\ TaskOK /\ OSTmrTime \in 0 .. TIME - 1
  BY <1>2, TmrAssumption DEF Cursor, TaskOK, Pends, MaybeTimer
<1>11. WheelOK(Wheel, OSTmrTime, NULL, NULL)
  <2> SUFFICES ASSUME NEW s \in Spokes
               PROVE  \E q \in Seq(Timer) : SpokeOK(Wheel, s, q, OSTmrTime, NULL, NULL)
    BY DEF WheelOK
  <2>1. PICK q \in Seq(Timer) : Len(q) = 0
    <3>1. << >> \in Seq(Timer) /\ Len(<< >>) = 0
      OBVIOUS
    <3> QED
      BY <3>1
  <2>2. Wheel.first[s] = NULL /\ \A t \in Timer : ~Runs(Wheel, s, t)
    BY <1>2, <1>7, <1>8 DEF Runs, Spokes
  <2>3. OnSpoke(Wheel, s, q)
    BY <2>1, <2>2 DEF OnSpoke, First, Forth, Once
  <2>4. Visited(Wheel, q, OSTmrTime, NULL, NULL)
    BY <2>1 DEF Visited, Before
  <2> QED
    BY <2>1, <2>3, <2>4 DEF SpokeOK
<1>12. TmrInv
  BY <1>7, <1>8, <1>9, <1>10, <1>11 DEF TmrInv, Kept
<1>13. Promise!Init
  <2>1. \A t \in Timer : Shows(tmr[t], OSTmrTime) = Promise!Unused
    <3> TAKE t \in Timer
    <3>1. /\ tmr[t].OSTmrState = "UNUSED" /\ tmr[t].OSTmrDly = 0 /\ tmr[t].OSTmrPeriod = 0
          /\ tmr[t].OSTmrOpt = "NONE"
      BY <1>7 DEF Optioned
    <3>2. Remain(tmr[t], OSTmrTime) = 0
      BY <3>1, RemainIs
    <3> QED
      BY <3>1, <3>2 DEF Shows, Promise!Unused
  <2> QED
    BY <1>8, <2>1, ShownIs DEF View, Promise!Init
<1> QED
  BY <1>12, <1>13

(* However many timers and spokes there are, however wide OSTmrTime is,    *)
(* and whatever is created, deleted, started and stopped, by tasks and by  *)
(* the timers' own functions: a timer that runs expires at the tick it was *)
(* started for, once, before the next, and no service to another timer of  *)
(* its spoke makes it late or early (os_tmr.c's promise).                  *)
THEOREM Refinement == TmrSpec => ImplementsTimers
<1>1. TmrInit => TmrInv /\ Promise!Init
  BY InitIs
<1>2. TmrInv /\ [TmrNext]_tmrVars => TmrInv' /\ [Promise!Next]_Shown
  BY StepIs
<1> QED
  BY <1>1, <1>2, PTL DEF TmrSpec, ImplementsTimers, Promise!Spec
=============================================================================
