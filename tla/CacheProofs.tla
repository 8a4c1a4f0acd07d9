----------------------------- MODULE CacheProofs -----------------------------
(***************************************************************************)
(* What holds of the caches for every number of ways, blocks and words,    *)
(* every latency of the memory below and every program.                    *)
(***************************************************************************)
EXTENDS Cache, FiniteSetTheorems, WellFoundedInduction, TLAPS

(* A set of natural numbers that is not empty has a least element.         *)
LEMMA Least ==
  ASSUME NEW S \in SUBSET Nat, S # {}
  PROVE  \E n \in S : \A m \in S : n <= m
<1> DEFINE Upto(n) == 1 .. n
           T == {Upto(n) : n \in S}
<1>1. T \subseteq FiniteSubsetsOf(Nat)
  <2>1. \A n \in Nat : IsFiniteSet(1 .. n)
    BY FS_Interval
  <2> QED
    BY <2>1 DEF FiniteSubsetsOf
<1>2. T # {}
  OBVIOUS
<1> HIDE DEF T
<1>3. PICK x \in T : \A y \in T : ~(<<y, x>> \in StrictSubsetOrdering(Nat))
  BY <1>1, <1>2, FS_StrictSubsetOrderingWellFounded, WFMin
<1>4. PICK n \in S : x = Upto(n)
  BY DEF T
<1>5. ASSUME NEW m \in S, m < n
      PROVE  FALSE
  <2>1. Upto(m) \subseteq Upto(n) /\ Upto(m) # Upto(n)
          /\ Upto(m) \in SUBSET Nat /\ Upto(n) \in SUBSET Nat
    BY <1>5
  <2>2. <<Upto(m), Upto(n)>> \in StrictSubsetOrdering(Nat)
    BY <2>1 DEF StrictSubsetOrdering
  <2> QED
    BY <2>2, <1>3, <1>4 DEF T
<1> QED
  BY <1>5

-----------------------------------------------------------------------------

(* The widths of the registers the look-ups read.                          *)
WaysTyped ==
  /\ pending \in Memory!Access
  /\ tag \in [Ways -> [Sets -> Tags]]
  /\ valid \in [Ways -> [Sets -> BOOLEAN]]
  /\ recuse \in [Ways -> [Sets -> Ways]]
  /\ recent_use_counter \in [Sets -> Ways]

LEMMA RequestTypes ==
  /\ NoRequest \in Memory!Access /\ NoRequest.rw = "none" /\ NoRequest.addr = IN_ADDR
  /\ \A r \in Requests \cup {NoRequest} : r \in Memory!Access
  /\ \A r \in Memory!Access : r.addr \in WordAddr
  /\ \A a \in WordAddr : a.tag \in Tags /\ a.index \in Sets /\ a.ws \in Ws
  /\ Memory!ZeroWord \in Memory!Word
<1>1. Memory!ZeroWord \in Memory!Word
  BY CacheAssumption DEF Memory!ZeroWord, Memory!Word, Memory!Lanes, Memory!Byte
<1>2. NoRequest \in Memory!Access /\ NoRequest.rw = "none" /\ NoRequest.addr = IN_ADDR
  BY <1>1, CacheAssumption DEF NoRequest, Memory!NoRequest, Memory!Access
<1>3. \A r \in Memory!Access : r.addr \in WordAddr
  BY DEF Memory!Access
<1> QED
  BY <1>1, <1>2, <1>3, CacheAssumption DEF WordAddr

(* A hit is in a way that holds the block.                                 *)
LEMMA WayHolds ==
  ASSUME NEW r, hit(r)
  PROVE  /\ way(r) \in Ways /\ valid[way(r)][r.addr.index]
         /\ tag[way(r)][r.addr.index] = r.addr.tag
BY DEF hit, way, found_in_cache

(* The ages are natural numbers, and the trees find a way.                 *)
LEMMA AgeType ==
  ASSUME WaysTyped, NEW w \in Ways, NEW s \in Sets
  PROVE  age(w, s) \in Ways
BY CacheAssumption DEF WaysTyped, age, Ways

LEMMA AgeZero ==
  ASSUME WaysTyped, NEW w \in Ways, NEW s \in Sets
  PROVE  age(w, s) = 0 <=> recuse[w][s] = recent_use_counter[s]
<1>1. PICK c \in Ways : c = recent_use_counter[s]
  BY DEF WaysTyped
<1>2. PICK u \in Ways : u = recuse[w][s]
  BY DEF WaysTyped
<1>3. (c + WAYS - u) % WAYS = 0 <=> u = c
  <2>1. WAYS \in Nat \ {0} /\ c \in 0 .. WAYS - 1 /\ u \in 0 .. WAYS - 1
    BY CacheAssumption DEF Ways
  <2>2. CASE c >= u
    <3>1. c - u \in 0 .. WAYS - 1 /\ c + WAYS - u = (c - u) + WAYS
      BY <2>1, <2>2
    <3>2. (c + WAYS - u) % WAYS = c - u
      BY <2>1, <3>1
    <3> QED
      BY <2>1, <3>2
  <2>3. CASE c < u
    <3>1. c + WAYS - u \in 1 .. WAYS - 1
      BY <2>1, <2>3
    <3>2. (c + WAYS - u) % WAYS = c + WAYS - u
      BY <2>1, <3>1
    <3> QED
      BY <2>1, <2>3, <3>2
  <2> QED
    BY <2>1, <2>2, <2>3
<1> QED
  BY <1>1, <1>2, <1>3 DEF age

(* Among the ways there is a first one by two keys.                        *)
LEMMA FirstWay ==
  ASSUME NEW f \in [Ways -> Nat], NEW g \in [Ways -> Nat]
  PROVE  \E w \in Ways : \A v \in Ways : f[w] < f[v] \/ (f[w] = f[v] /\ g[w] <= g[v])
<1> DEFINE A == {f[w] : w \in Ways}
<1>1. PICK a \in A : \A b \in A : a <= b
  <2>1. A \in SUBSET Nat /\ A # {}
    BY CacheAssumption DEF Ways
  <2> HIDE DEF A
  <2> QED
    BY <2>1, Least
<1> DEFINE B == {g[w] : w \in {v \in Ways : f[v] = a}}
<1>2. PICK b \in B : \A c \in B : b <= c
  <2>1. B \in SUBSET Nat /\ B # {}
    BY <1>1
  <2> HIDE DEF B
  <2> QED
    BY <2>1, Least
<1>3. PICK w \in Ways : f[w] = a /\ g[w] = b
  BY <1>2
<1>4. ASSUME NEW v \in Ways
      PROVE  f[w] < f[v] \/ (f[w] = f[v] /\ g[w] <= g[v])
  <2>1. a <= f[v] /\ a \in Nat /\ f[v] \in Nat
    BY <1>1
  <2>2. CASE f[v] = a
    BY <1>2, <1>3, <2>2
  <2> QED
    BY <1>3, <2>1, <2>2
<1> QED
  BY <1>4

LEMMA MruIs ==
  ASSUME WaysTyped, NEW s \in Sets
  PROVE  mru_id(s) \in Ways /\ \A v \in Ways : age(mru_id(s), s) <= age(v, s)
<1> DEFINE f == [w \in Ways |-> age(w, s)]
           g == [w \in Ways |-> WAYS - w]
<1>1. /\ f \in [Ways -> Nat] /\ g \in [Ways -> Nat]
      /\ \A v \in Ways : f[v] = age(v, s) /\ g[v] = WAYS - v
  BY AgeType, CacheAssumption DEF Ways
<1> HIDE DEF f, g
<1>2. PICK w \in Ways : \A v \in Ways : f[w] < f[v] \/ (f[w] = f[v] /\ g[w] <= g[v])
  BY <1>1, FirstWay
<1>3. ASSUME NEW v \in Ways
      PROVE  age(w, s) < age(v, s) \/ (age(v, s) = age(w, s) /\ v <= w)
  <2>1. WAYS - w <= WAYS - v => v <= w
    BY CacheAssumption DEF Ways
  <2> QED
    BY <1>1, <1>2, <2>1
<1>4. mru_id(s) \in Ways /\ \A v \in Ways :
        age(mru_id(s), s) < age(v, s) \/ (age(v, s) = age(mru_id(s), s) /\ v <= mru_id(s))
  BY <1>3 DEF mru_id
<1>5. ASSUME NEW v \in Ways
      PROVE  age(mru_id(s), s) <= age(v, s)
  <2>1. age(mru_id(s), s) \in Nat /\ age(v, s) \in Nat
    BY <1>4, AgeType DEF Ways
  <2> QED
    BY <1>4, <2>1
<1> QED
  BY <1>4, <1>5

LEMMA LruIs ==
  ASSUME WaysTyped, NEW s \in Sets
  PROVE  lru_id(s) \in Ways
<1> DEFINE f == [w \in Ways |-> WAYS - age(w, s)]
           g == [w \in Ways |-> w]
<1>1. /\ f \in [Ways -> Nat] /\ g \in [Ways -> Nat]
      /\ \A v \in Ways : f[v] = WAYS - age(v, s) /\ g[v] = v
  BY AgeType, CacheAssumption DEF Ways
<1> HIDE DEF f, g
<1>2. PICK w \in Ways : \A v \in Ways : f[w] < f[v] \/ (f[w] = f[v] /\ g[w] <= g[v])
  BY <1>1, FirstWay
<1>3. ASSUME NEW v \in Ways
      PROVE  age(v, s) < age(w, s) \/ (age(v, s) = age(w, s) /\ w <= v)
  <2>1. age(v, s) \in Ways /\ age(w, s) \in Ways
    BY AgeType
  <2>2. /\ WAYS - age(w, s) < WAYS - age(v, s) => age(v, s) < age(w, s)
        /\ WAYS - age(w, s) = WAYS - age(v, s) => age(v, s) = age(w, s)
    BY <2>1, CacheAssumption DEF Ways
  <2> QED
    BY <1>1, <1>2, <2>2
<1> QED
  BY <1>3 DEF lru_id

(* The way the tree prefers for the smallest age has age zero as soon as   *)
(* any way has.                                                            *)
LEMMA MruAgeZero ==
  ASSUME WaysTyped, NEW s \in Sets, NEW w \in Ways, recuse[w][s] = recent_use_counter[s]
  PROVE  recuse[mru_id(s)][s] = recent_use_counter[s]
<1>1. age(w, s) = 0 /\ mru_id(s) \in Ways /\ age(mru_id(s), s) <= age(w, s)
  BY AgeZero, MruIs
<1>2. age(mru_id(s), s) \in Nat
  BY <1>1, AgeType, CacheAssumption DEF Ways
<1>3. age(mru_id(s), s) = 0
  BY <1>1, <1>2
<1> QED
  BY <1>1, <1>3, AgeZero

LEMMA MruAgeZeros ==
  WaysTyped => \A z \in Sets : \A v \in Ways :
    recuse[v][z] = recent_use_counter[z] => recuse[mru_id(z)][z] = recent_use_counter[z]
BY MruAgeZero

-----------------------------------------------------------------------------

(* What a clock edge may do to the ways: nothing, use one, replace one     *)
(* whose tag no way holds.                                                 *)
WaysKept    == UNCHANGED <<tag, valid, recuse, recent_use_counter>>
WaysUsed    == \E w \in Ways, s \in Sets : use_cache(w, s) /\ UNCHANGED <<tag, valid>>
WaysRefilled ==
  \E v \in Ways, s \in Sets, t \in Tags :
    /\ \A w \in Ways : ~(valid[w][s] /\ tag[w][s] = t)
    /\ valid' = [valid EXCEPT ![v][s] = TRUE]
    /\ tag' = [tag EXCEPT ![v][s] = t]
    /\ UNCHANGED <<recuse, recent_use_counter>>

(* The access an edge looks at.                                            *)
Looked(r) == IF busy THEN pending ELSE r

LEMMA LookedType ==
  ASSUME WaysTyped, NEW r \in Requests \cup {NoRequest}
  PROVE  Looked(r) \in Memory!Access
BY RequestTypes DEF Looked, WaysTyped

LEMMA ServeHitWays ==
  ASSUME NEW a \in Memory!Access, hit(a), ServeHit(a), UNCHANGED <<tag, valid>>
  PROVE  WaysKept \/ WaysUsed
<1>1. CASE non_cached(a)
  BY <1>1 DEF ServeHit, lruVars, WaysKept
<1>2. CASE ~non_cached(a)
  <2>1. use_cache(way(a), a.addr.index)
    BY <1>2 DEF ServeHit
  <2>2. way(a) \in Ways /\ a.addr.index \in Sets
    BY WayHolds, RequestTypes
  <2> QED
    BY <2>1, <2>2 DEF WaysUsed
<1> QED
  BY <1>1, <1>2

LEMMA MachineWays ==
  ASSUME WaysTyped, NEW a \in Memory!Access, Machine(a)
  PROVE  WaysKept \/ WaysUsed \/ WaysRefilled
<1>1. CASE Quiet(a) \/ ReadUncached(a) \/ Write(a) \/ AwaitCritical(a) \/ CriticalArrives(a)
           \/ UncachedArrives(a) \/ AwaitWrite(a)
  BY <1>1 DEF Quiet, ReadUncached, Write, AwaitCritical, CriticalArrives, UncachedArrives,
              AwaitWrite, wayVars, lruVars, WaysKept
<1>2. CASE ReadHit(a)
  BY <1>2, ServeHitWays DEF ReadHit, wayVars
<1>3. CASE ReadMiss(a)
  <2>1. a.addr.index \in Sets /\ a.addr.tag \in Tags /\ lru_id(a.addr.index) \in Ways
    BY RequestTypes, LruIs
  <2>2. \A w \in Ways : ~(valid[w][a.addr.index] /\ tag[w][a.addr.index] = a.addr.tag)
    BY <1>3 DEF ReadMiss, hit, found_in_cache
  <2>3. PICK v \in Ways, s \in Sets, t \in Tags :
          v = lru_id(a.addr.index) /\ s = a.addr.index /\ t = a.addr.tag
    BY <2>1
  <2>4. /\ valid' = [valid EXCEPT ![v][s] = TRUE] /\ tag' = [tag EXCEPT ![v][s] = t]
        /\ UNCHANGED <<recuse, recent_use_counter>>
    BY <1>3, <2>3 DEF ReadMiss, lruVars
  <2>5. \A w \in Ways : ~(valid[w][s] /\ tag[w][s] = t)
    BY <2>2, <2>3
  <2> QED
    BY <2>4, <2>5 DEF WaysRefilled
<1>4. CASE Filling(a)
  <2>1. CASE ServedDuringFill(a)
    BY <1>4, <2>1, ServeHitWays DEF Filling, ServedDuringFill
  <2>2. CASE ~ServedDuringFill(a)
    BY <1>4, <2>2 DEF Filling, lruVars, WaysKept
  <2> QED
    BY <2>1, <2>2
<1> QED
  BY <1>1, <1>2, <1>3, <1>4 DEF Machine

LookupsInv == WaysTyped /\ LookupsHold

LEMMA LookupsInit == Init => LookupsInv
<1> SUFFICES ASSUME Init
             PROVE  LookupsInv
  OBVIOUS
<1>1. WaysTyped
  BY RequestTypes, CacheAssumption DEF Init, WaysTyped, Tags, Ways
<1>2. OneHot
  BY DEF Init, OneHot
<1>3. MostRecentIsCurrent
  BY <1>1, MruIs DEF Init, MostRecentIsCurrent
<1> QED
  BY <1>1, <1>2, <1>3 DEF LookupsInv, LookupsHold

LEMMA LookupsStep ==
  ASSUME LookupsInv, pending' \in Memory!Access, WaysKept \/ WaysUsed \/ WaysRefilled
  PROVE  LookupsInv'
<1>1. WaysTyped /\ OneHot /\ MostRecentIsCurrent
  BY DEF LookupsInv, LookupsHold
<1>2. CASE WaysKept
  <2>1. WaysTyped' /\ OneHot'
    BY <1>1, <1>2 DEF WaysKept, WaysTyped, OneHot
  <2>2. MostRecentIsCurrent'
    BY <1>1, <1>2 DEF WaysKept, MostRecentIsCurrent, mru_id, age
  <2> QED
    BY <2>1, <2>2 DEF LookupsInv, LookupsHold
<1>3. CASE WaysUsed
  <2>1. PICK w \in Ways, s \in Sets : use_cache(w, s) /\ UNCHANGED <<tag, valid>>
    BY <1>3 DEF WaysUsed
  <2>2. OneHot'
    BY <1>1, <2>1 DEF OneHot
  <2>3. CASE w = mru_id(s)
    BY <1>1, <1>2, <2>1, <2>3 DEF use_cache, lruVars, WaysKept
  <2>4. CASE w # mru_id(s)
    <3>1. PICK now \in Ways : now = (recent_use_counter[s] + 1) % WAYS
      BY <1>1, CacheAssumption DEF WaysTyped, Ways
    <3>2. /\ recent_use_counter' = [recent_use_counter EXCEPT ![s] = now]
          /\ recuse' = [recuse EXCEPT ![w][s] = now]
      BY <2>1, <2>4, <3>1 DEF use_cache
    <3>3. WaysTyped'
      BY <1>1, <2>1, <3>2 DEF WaysTyped
    <3>4. ASSUME NEW z \in Sets
          PROVE  \E v \in Ways : recuse'[v][z] = recent_use_counter'[z]
      <4>1. CASE z = s
        BY <1>1, <3>2, <4>1 DEF WaysTyped
      <4>2. CASE z # s
        <5>1. mru_id(z) \in Ways /\ recuse[mru_id(z)][z] = recent_use_counter[z]
          BY <1>1, MruIs DEF MostRecentIsCurrent
        <5>2. recuse'[mru_id(z)][z] = recuse[mru_id(z)][z]
              /\ recent_use_counter'[z] = recent_use_counter[z]
          BY <1>1, <3>2, <4>2, <5>1 DEF WaysTyped
        <5> QED
          BY <5>1, <5>2
      <4> QED
        BY <4>1, <4>2
    <3>5. (WaysTyped => \A z \in Sets : \A v \in Ways :
             recuse[v][z] = recent_use_counter[z] => recuse[mru_id(z)][z] = recent_use_counter[z])'
      BY MruAgeZeros, PTL
    <3>6. MostRecentIsCurrent'
      BY <3>3, <3>4, <3>5 DEF MostRecentIsCurrent
    <3> QED
      BY <2>2, <3>3, <3>6 DEF LookupsInv, LookupsHold
  <2> QED
    BY <2>3, <2>4
<1>4. CASE WaysRefilled
  <2>1. PICK v \in Ways, s \in Sets, t \in Tags :
          /\ \A w \in Ways : ~(valid[w][s] /\ tag[w][s] = t)
          /\ valid' = [valid EXCEPT ![v][s] = TRUE]
          /\ tag' = [tag EXCEPT ![v][s] = t]
          /\ UNCHANGED <<recuse, recent_use_counter>>
    BY <1>4 DEF WaysRefilled
  <2>2. WaysTyped'
    BY <1>1, <2>1 DEF WaysTyped
  <2>3. OneHot'
    <3> SUFFICES ASSUME NEW z \in Sets, NEW x \in Ways, NEW y \in Ways,
                        valid'[x][z], valid'[y][z], tag'[x][z] = tag'[y][z]
                 PROVE  x = y
      BY DEF OneHot
    <3>1. \A w \in Ways : <<w, z>> # <<v, s>> =>
             valid'[w][z] = valid[w][z] /\ tag'[w][z] = tag[w][z]
      BY <1>1, <2>1 DEF WaysTyped
    <3>2. tag'[v][s] = t
      BY <1>1, <2>1 DEF WaysTyped
    <3> QED
      BY <1>1, <2>1, <3>1, <3>2 DEF OneHot
  <2>4. MostRecentIsCurrent'
    BY <1>1, <2>1 DEF MostRecentIsCurrent, mru_id, age
  <2> QED
    BY <2>2, <2>3, <2>4 DEF LookupsInv, LookupsHold
<1> QED
  BY <1>2, <1>3, <1>4

LEMMA ClockWays ==
  ASSUME WaysTyped, NEW r \in Requests \cup {NoRequest}, Clock(r)
  PROVE  pending' \in Memory!Access /\ (WaysKept \/ WaysUsed \/ WaysRefilled)
<1>1. Looked(r) \in Memory!Access /\ Machine(Looked(r)) /\ Latch(r)
  BY LookedType DEF Clock, Looked
<1>2. pending' \in Memory!Access
  BY <1>1, RequestTypes DEF Latch, Looked
<1> QED
  BY <1>1, <1>2, MachineWays

(* For every number of ways, blocks and words and every program: a tag is  *)
(* in at most one way, which one_hot_lookup takes for granted, and though  *)
(* ages and counters wrap, the way the tree finds for the smallest age     *)
(* carries the counter, which use_cache asserts.                           *)
THEOREM Lookups == Spec => []LookupsHold
<1>1. LookupsInv /\ [Next]_vars => LookupsInv'
  <2> SUFFICES ASSUME LookupsInv, [Next]_vars
               PROVE  LookupsInv'
    OBVIOUS
  <2>1. CASE Next
    <3>1. PICK r \in Requests \cup {NoRequest} : Clock(r)
      BY <2>1 DEF Next
    <3>2. WaysTyped
      BY DEF LookupsInv
    <3> QED
      BY <3>1, <3>2, ClockWays, LookupsStep
  <2>2. CASE UNCHANGED vars
    <3>1. WaysKept /\ pending' \in Memory!Access
      BY <2>2 DEF vars, wayVars, lruVars, WaysKept, LookupsInv, WaysTyped
    <3> QED
      BY <3>1, LookupsStep
  <2> QED
    BY <2>1, <2>2
<1> QED
  BY <1>1, LookupsInit, PTL DEF Spec, LookupsInv

-----------------------------------------------------------------------------

(* The programs the rest is about: a block with a device in it is read     *)
(* only at the address that is not cached.                                 *)
Apart(t, s) == \A d \in {IN_ADDR, OUT_ADDR} : ~(d.tag = t /\ d.index = s)
DevicesApart ==
  \A r \in Requests : r.rw = "r" /\ r.addr # IN_ADDR => Apart(r.addr.tag, r.addr.index)

Port == [busy : BOOLEAN, done : BOOLEAN, req : Memory!Access, data : Memory!Word]

PortTyped ==
  /\ port \in Port /\ ~(port.busy /\ port.done)
  /\ mem \in [WordAddr -> Memory!Word] /\ inputs \in Memory!Byte
  /\ outputs \in [count : Memory!Byte, last : Memory!Byte]

(* The request of the memory below at an edge at which the cache asks q.   *)
Asked(q) == IF port.busy THEN port.req ELSE q

LEMMA Fields ==
  /\ \A r : Memory!Busy(r).busy /\ ~Memory!Busy(r).done /\ Memory!Busy(r).req = r
  /\ \A r, d : ~Memory!Done(r, d).busy /\ Memory!Done(r, d).done /\ Memory!Done(r, d).req = r
               /\ Memory!Done(r, d).data = d
  /\ ~Memory!Idle.busy /\ ~Memory!Idle.done
BY DEF Memory!Busy, Memory!Done, Memory!Idle

LEMMA EffectTypes ==
  ASSUME NEW m \in [WordAddr -> Memory!Word], NEW k \in Memory!Byte,
         NEW o \in [count : Memory!Byte, last : Memory!Byte], NEW r \in Memory!Access
  PROVE  /\ Memory!Written(m, r) \in [WordAddr -> Memory!Word]
         /\ Memory!Shown(o, r) \in [count : Memory!Byte, last : Memory!Byte]
         /\ Memory!Consumed(k, r) \in Memory!Byte
         /\ Memory!Value(m, k, r.addr) \in Memory!Word
         /\ 0 \in Memory!Lanes /\ 0 \in Memory!Byte
<1>1. 0 \in Memory!Lanes /\ 0 \in Memory!Byte
  BY CacheAssumption DEF Memory!Lanes, Memory!Byte
<1>2. ASSUME NEW x \in Memory!Byte
      PROVE  Memory!Next1(x) \in Memory!Byte
  BY CacheAssumption DEF Memory!Next1, Memory!Byte
<1>3. Memory!Written(m, r) \in [WordAddr -> Memory!Word]
  BY DEF Memory!Written, Memory!Masked, Memory!Word, Memory!Access
<1>4. Memory!Shown(o, r) \in [count : Memory!Byte, last : Memory!Byte]
  BY <1>1, <1>2 DEF Memory!Shown, Memory!Word, Memory!Access
<1>5. Memory!Consumed(k, r) \in Memory!Byte
  BY <1>2 DEF Memory!Consumed
<1>6. Memory!Value(m, k, r.addr) \in Memory!Word
  BY <1>1 DEF Memory!Value, Memory!Char, Memory!Word, Memory!Access
<1> QED
  BY <1>1, <1>3, <1>4, <1>5, <1>6

LEMMA PortTypes ==
  /\ \A r \in Memory!Access : Memory!Busy(r) \in Port
  /\ \A r \in Memory!Access, d \in Memory!Word : Memory!Done(r, d) \in Port
  /\ Memory!Idle \in Port
<1>1. Memory!ZeroWord \in Memory!Word /\ Memory!NoRequest \in Memory!Access
  BY RequestTypes DEF NoRequest
<1> QED
  BY <1>1 DEF Port, Memory!Busy, Memory!Done, Memory!Idle

(* An edge of the memory below at which it has a request: it keeps it, or  *)
(* answers.                                                                *)
LEMMA EdgeAsked ==
  ASSUME PortTyped, NEW q \in Memory!Access, Memory!Edge(q),
         NEW u, u = Asked(q), u.rw # "none"
  PROVE  /\ PortTyped' /\ port'.req = u /\ (port'.busy <=> ~port'.done)
         /\ StoreMem' = Memory!Written(mem, u) /\ StoreOutputs' = Memory!Shown(outputs, u)
         /\ u.rw = "r" => mem' = mem
         /\ port'.done => /\ inputs' = Memory!Consumed(inputs, u)
                          /\ u.rw = "r" => port'.data = Memory!Value(mem, inputs, u.addr)
         /\ ~port'.done => inputs' = inputs
<1>1. u \in Memory!Access /\ port.busy \in BOOLEAN
  BY DEF PortTyped, Port, Asked
<1>2. Memory!Wait(u) \/ Memory!Complete(u)
  BY <1>1 DEF Memory!Edge, Asked
<1>3. \A m, o : Memory!Written(m, NoRequest) = m /\ Memory!Shown(o, NoRequest) = o
  BY RequestTypes DEF Memory!Written, Memory!Shown
<1>4. CASE Memory!Wait(u)
  <2>1. port' = Memory!Busy(u) /\ UNCHANGED <<mem, inputs, outputs>>
    BY <1>4, Zenon DEF Memory!Wait
  <2>2. port'.busy /\ ~port'.done /\ port'.req = u
    BY <2>1, Fields, Zenon
  <2>3. port' \in Port
    BY <1>1, <2>1, PortTypes, Zenon
  <2>4. InFlight' = u
    BY <2>2 DEF InFlight
  <2> QED
    BY <2>1, <2>2, <2>3, <2>4, Zenon DEF PortTyped, StoreMem, StoreOutputs
<1>5. CASE Memory!Complete(u)
  <2>1. PICK d : d = IF u.rw = "r" THEN Memory!Value(mem, inputs, u.addr) ELSE Memory!ZeroWord
    OBVIOUS
  <2>2. /\ port' = Memory!Done(u, d) /\ mem' = Memory!Written(mem, u)
        /\ inputs' = Memory!Consumed(inputs, u) /\ outputs' = Memory!Shown(outputs, u)
    BY <1>5, <2>1, Zenon DEF Memory!Complete
  <2>3. ~port'.busy /\ port'.done /\ port'.req = u /\ port'.data = d
    BY <2>2, Fields, Zenon
  <2>4. d \in Memory!Word
    BY <1>1, <2>1, EffectTypes, RequestTypes DEF PortTyped
  <2>5. port' \in Port
    BY <1>1, <2>2, <2>4, PortTypes, Zenon
  <2>6. InFlight' = NoRequest
    BY <2>3, Zenon DEF InFlight
  <2>7. mem' \in [WordAddr -> Memory!Word] /\ inputs' \in Memory!Byte
        /\ outputs' \in [count : Memory!Byte, last : Memory!Byte]
    BY <1>1, <2>2, EffectTypes DEF PortTyped
  <2>8. StoreMem' = Memory!Written(mem, u) /\ StoreOutputs' = Memory!Shown(outputs, u)
    BY <1>3, <2>2, <2>6 DEF StoreMem, StoreOutputs
  <2>9. u.rw = "r" => mem' = mem
    BY <2>2 DEF Memory!Written
  <2> QED
    BY <2>1, <2>2, <2>3, <2>5, <2>7, <2>8, <2>9, Zenon DEF PortTyped
<1> QED
  BY <1>2, <1>4, <1>5

(* ... and one at which it has none.                                       *)
LEMMA EdgeIdle ==
  ASSUME PortTyped, ~port.busy, Memory!Edge(NoRequest)
  PROVE  /\ PortTyped' /\ ~port'.busy /\ ~port'.done
         /\ mem' = mem /\ inputs' = inputs /\ StoreMem' = mem /\ StoreOutputs' = outputs
<1>1. port' = Memory!Idle /\ UNCHANGED <<mem, inputs, outputs>>
  BY RequestTypes, Zenon DEF Memory!Edge
<1>2. ~port'.busy /\ ~port'.done
  BY <1>1, Fields, Zenon
<1>3. \A m, o : Memory!Written(m, NoRequest) = m /\ Memory!Shown(o, NoRequest) = o
  BY RequestTypes DEF Memory!Written, Memory!Shown
<1>4. InFlight' = NoRequest
  BY <1>2, Zenon DEF InFlight
<1>5. StoreMem' = mem /\ StoreOutputs' = outputs
  BY <1>1, <1>3, <1>4 DEF StoreMem, StoreOutputs
<1> QED
  BY <1>1, <1>2, <1>5, PortTypes, Zenon DEF PortTyped

LEMMA StoreIs ==
  /\ port.busy => StoreMem = Memory!Written(mem, port.req)
                  /\ StoreOutputs = Memory!Shown(outputs, port.req)
  /\ ~port.busy => StoreMem = mem /\ StoreOutputs = outputs
<1>1. \A m, o : Memory!Written(m, NoRequest) = m /\ Memory!Shown(o, NoRequest) = o
  BY RequestTypes DEF Memory!Written, Memory!Shown
<1> QED
  BY <1>1 DEF StoreMem, StoreOutputs, InFlight

-----------------------------------------------------------------------------

(* The states of the machine.  A client is busy with the request that is   *)
(* latched, or was answered.                                               *)
LatchOk ==
  /\ pending \in Requests \cup {NoRequest} /\ answered \in Requests \cup {NoRequest}
  /\ busy \in BOOLEAN /\ done \in BOOLEAN /\ ~(busy /\ done)
  /\ busy => pending.rw # "none"
  /\ ~busy => pending = NoRequest

(* A fill is under way: of the block of the pending read, whose critical   *)
(* word is awaited, or of one that has it.                                 *)
FillState == state = "PHASE_2" \/ (state = "PHASE_1" /\ ~non_cached(pending))

(* In each state the memory below has one request, and what it is.  While  *)
(* the uncached address is asked for, current stands still and the word    *)
(* after it is asked for again and again.                                  *)
StateOk ==
  /\ state = "IDLE" => ~port.busy /\ ~port.done
  /\ state # "IDLE" => port.busy \/ port.done
  /\ state = "WRITE" => port.req.rw = "w"
  /\ state = "PHASE_1" => busy /\ pending.rw = "r" /\ port.req = ReadFrom(pending.addr)
  /\ state = "PHASE_1" /\ ~non_cached(pending) =>
        /\ pending.addr = [tag |-> current.tag, index |-> current.block, ws |-> current.word]
        /\ current.word = current.critical
  /\ state = "PHASE_2" =>
        /\ current.word # current.critical
        /\ \/ port.req = FillFrom(current.word)
           \/ /\ busy /\ non_cached(pending) /\ next_current_word # 0
              /\ port.req = FillFrom(next_current_word)
  /\ FillState => valid[current.cache][current.block]
                  /\ tag[current.cache][current.block] = current.tag

(* What the memory has answered is what it holds, or the character before  *)
(* the next one.                                                           *)
ReadHolds ==
  port.done /\ port.req.rw = "r" =>
    IF port.req.addr = IN_ADDR
    THEN port.data[0] \in Memory!Byte /\ port.data = Memory!Char(port.data[0])
         /\ inputs = Memory!Next1(port.data[0])
    ELSE port.data = mem[port.req.addr]

(* The words of a block that have arrived: more than Present has, while the*)
(* uncached address is read.                                               *)
Arrived(w, s) ==
  IF FillState /\ <<w, s>> = <<current.cache, current.block>>
  THEN IF state = "PHASE_1" THEN {} ELSE {k \in Ws : k < current.word} \cup {current.critical}
  ELSE Ws

Held ==
  \A w \in Ways, s \in Sets : valid[w][s] =>
    /\ Apart(tag[w][s], s)
    /\ \A k \in Arrived(w, s) :
          data[w][s][k] = StoreMem[[tag |-> tag[w][s], index |-> s, ws |-> k]]

CInv == LookupsInv /\ TypeOK /\ PortTyped /\ LatchOk /\ StateOk /\ ReadHolds /\ Held

(* What an edge shows of the store the client believes in: the access it   *)
(* looks at takes effect when it is answered.                              *)
Effect(a) ==
  IF done'
  THEN /\ a.rw # "none"
       /\ r_data' = IF a.rw = "r" THEN Memory!Value(StoreMem, StoreInputs, a.addr)
                    ELSE Memory!ZeroWord
       /\ StoreMem' = Memory!Written(StoreMem, a)
       /\ StoreInputs' = Memory!Consumed(StoreInputs, a)
       /\ StoreOutputs' = Memory!Shown(StoreOutputs, a)
  ELSE /\ r_data' = Memory!ZeroWord
       /\ StoreMem' = StoreMem /\ StoreInputs' = StoreInputs /\ StoreOutputs' = StoreOutputs

DataType == [Ways -> [Sets -> [Ws -> Memory!Word \cup {Unknown}]]]
Result(a) ==
  /\ done' \in BOOLEAN /\ r_data' \in Memory!Word /\ state' \in States
  /\ current' \in Block /\ data' \in DataType
  /\ PortTyped' /\ StateOk' /\ ReadHolds' /\ Held' /\ Effect(a)

(* An edge of the machine, after which request a is latched or answered.   *)
Latched(a) ==
  /\ busy' \in BOOLEAN
  /\ busy' <=> (a.rw # "none" /\ ~done')
  /\ busy' => pending' = a
  /\ ~busy' => pending' = NoRequest
  /\ done' => answered' = a
  /\ ~done' => answered' = NoRequest

LEMMA LatchIs ==
  ASSUME LatchOk, NEW r \in Requests \cup {NoRequest}, Latch(r),
         NEW a, a = Looked(r)
  PROVE  Latched(a) /\ a \in Requests \cup {NoRequest} /\ a \in Memory!Access
         /\ (busy => a = pending) /\ (done' \in BOOLEAN => LatchOk')
<1>1. a \in Requests \cup {NoRequest} /\ a \in Memory!Access /\ (busy => a = pending)
  BY RequestTypes DEF LatchOk, Looked
<1>2. Latched(a)
  BY DEF Latch, Looked, Latched
<1> QED
  BY <1>1, <1>2 DEF LatchOk, Latched

(* An edge of the memory below that only reads.                            *)
LEMMA ReadEdge ==
  ASSUME PortTyped, NEW q \in Memory!Access, Memory!Edge(q), NEW u, u = Asked(q), u.rw = "r"
  PROVE  /\ PortTyped' /\ port'.req = u /\ (port'.busy <=> ~port'.done)
         /\ StoreMem' = StoreMem /\ StoreOutputs' = StoreOutputs /\ StoreMem = mem
         /\ mem' = mem /\ ReadHolds'
         /\ u.addr # IN_ADDR => inputs' = inputs
         /\ u.addr = IN_ADDR => (port'.done => port'.data[0] = inputs)
                                /\ (~port'.done => inputs' = inputs)
<1>1. /\ PortTyped' /\ port'.req = u /\ (port'.busy <=> ~port'.done)
      /\ StoreMem' = Memory!Written(mem, u) /\ StoreOutputs' = Memory!Shown(outputs, u)
      /\ mem' = mem
      /\ port'.done => inputs' = Memory!Consumed(inputs, u)
                       /\ port'.data = Memory!Value(mem, inputs, u.addr)
      /\ ~port'.done => inputs' = inputs
  BY EdgeAsked
<1>2. StoreMem' = mem /\ StoreOutputs' = outputs
  BY <1>1 DEF Memory!Written, Memory!Shown
<1>3. StoreMem = mem /\ StoreOutputs = outputs
  <2>1. CASE port.busy
    BY <2>1, StoreIs DEF Asked, Memory!Written, Memory!Shown
  <2>2. CASE ~port.busy
    BY <2>2, StoreIs
  <2> QED
    BY <2>1, <2>2
<1>4. u.addr # IN_ADDR => inputs' = inputs
  BY <1>1 DEF Memory!Consumed
<1>5. u.addr = IN_ADDR /\ port'.done => /\ port'.data = Memory!Char(inputs)
                                        /\ port'.data[0] = inputs /\ inputs \in Memory!Byte
                                        /\ inputs' = Memory!Next1(inputs)
  BY <1>1, EffectTypes DEF Memory!Consumed, Memory!Value, Memory!Char, PortTyped
<1>6. u.addr # IN_ADDR /\ port'.done => port'.data = mem[u.addr]
  BY <1>1 DEF Memory!Value
<1>7. ReadHolds'
  BY <1>1, <1>5, <1>6 DEF ReadHolds
<1> QED
  BY <1>1, <1>2, <1>3, <1>4, <1>5, <1>7

LEMMA StoreTyped ==
  ASSUME PortTyped
  PROVE  StoreMem \in [WordAddr -> Memory!Word]
<1>1. CASE port.busy
  <2>1. port.req \in Memory!Access
    BY DEF PortTyped, Port
  <2> QED
    BY <1>1, <2>1, StoreIs, EffectTypes DEF PortTyped
<1>2. CASE ~port.busy
  BY <1>2, StoreIs DEF PortTyped
<1> QED
  BY <1>1, <1>2

(* A word served from the ways is the word of the store, and no device.    *)
LEMMA HitIs ==
  ASSUME CInv, NEW a \in Memory!Access, hit(a)
  PROVE  /\ ~non_cached(a) /\ a.addr \notin {IN_ADDR, OUT_ADDR}
         /\ a.addr.ws \in Arrived(way(a), a.addr.index) =>
              Cached(a) = StoreMem[a.addr] /\ Cached(a) \in Memory!Word
<1>1. /\ a.addr \in WordAddr /\ a.addr.index \in Sets /\ way(a) \in Ways
      /\ valid[way(a)][a.addr.index] /\ tag[way(a)][a.addr.index] = a.addr.tag
      /\ a.addr = [tag |-> a.addr.tag, index |-> a.addr.index, ws |-> a.addr.ws]
  BY RequestTypes, WayHolds DEF WordAddr
<1>2. Apart(a.addr.tag, a.addr.index)
  BY <1>1 DEF CInv, Held
<1>3. a.addr \notin {IN_ADDR, OUT_ADDR}
  BY <1>2 DEF Apart
<1>4. a.addr.ws \in Arrived(way(a), a.addr.index) => Cached(a) = StoreMem[a.addr]
  BY <1>1 DEF CInv, Held, Cached
<1> QED
  BY <1>1, <1>3, <1>4, StoreTyped DEF CInv, non_cached

LEMMA HeldKept ==
  ASSUME Held, UNCHANGED <<tag, valid, data>>, StoreMem' = StoreMem,
         \A w \in Ways, s \in Sets : Arrived(w, s)' \subseteq Arrived(w, s)
  PROVE  Held'
<1> SUFFICES ASSUME NEW w \in Ways, NEW s \in Sets, valid'[w][s]
             PROVE  /\ Apart(tag'[w][s], s)
                    /\ \A k \in Arrived(w, s)' :
                          data'[w][s][k] = StoreMem'[[tag |-> tag'[w][s], index |-> s, ws |-> k]]
  BY Zenon DEF Held, Apart
<1>1. /\ Apart(tag[w][s], s)
      /\ \A k \in Arrived(w, s) :
           data[w][s][k] = StoreMem[[tag |-> tag[w][s], index |-> s, ws |-> k]]
  BY DEF Held
<1> QED
  BY <1>1

(* No answer is shown while nothing changes in the store.                  *)
LEMMA NoAnswerIs ==
  ASSUME NoAnswer, StoreMem' = StoreMem, StoreInputs' = StoreInputs, StoreOutputs' = StoreOutputs,
         NEW a
  PROVE  Effect(a) /\ done' \in BOOLEAN /\ r_data' \in Memory!Word /\ ~done'
BY RequestTypes DEF NoAnswer, Effect

LEMMA NotFilling ==
  ASSUME ~FillState, ~FillState'
  PROVE  \A w \in Ways, s \in Sets : Arrived(w, s)' \subseteq Arrived(w, s)
BY DEF Arrived

LEMMA QuietResult ==
  ASSUME CInv, NEW a \in Memory!Access, Latched(a), Quiet(a)
  PROVE  Result(a)
<1>1. state = "IDLE" /\ state' = "IDLE" /\ NoAnswer /\ UNCHANGED <<current, tag, valid, data>>
  BY DEF Quiet, wayVars
<1>2. PortTyped /\ ~port.busy /\ ~port.done
  BY <1>1 DEF CInv, StateOk
<1>3. /\ PortTyped' /\ ~port'.busy /\ ~port'.done
      /\ StoreMem' = mem /\ StoreOutputs' = outputs /\ inputs' = inputs
  BY <1>2, EdgeIdle DEF Quiet
<1>4. StoreMem' = StoreMem /\ StoreOutputs' = StoreOutputs
  BY <1>2, <1>3, StoreIs
<1>5. StoreInputs' = StoreInputs
  BY <1>1, <1>3 DEF StoreInputs
<1>6. Effect(a) /\ done' \in BOOLEAN /\ r_data' \in Memory!Word
  BY <1>1, <1>4, <1>5, NoAnswerIs
<1>7. StateOk' /\ ReadHolds'
  BY <1>1, <1>3 DEF StateOk, FillState, ReadHolds
<1>8. Held'
  BY <1>1, <1>4, HeldKept, NotFilling DEF FillState, CInv
<1> QED
  BY <1>1, <1>3, <1>6, <1>7, <1>8 DEF Result, CInv, TypeOK, DataType, States

LEMMA ReadHitResult ==
  ASSUME CInv, NEW a \in Memory!Access, Latched(a), ReadHit(a)
  PROVE  Result(a)
<1>1. state = "IDLE" /\ state' = "IDLE" /\ UNCHANGED <<current, tag, valid, data>>
      /\ a.rw = "r" /\ hit(a)
  BY DEF ReadHit, wayVars
<1>2. PortTyped /\ ~port.busy /\ ~port.done
  BY <1>1 DEF CInv, StateOk
<1>3. /\ PortTyped' /\ ~port'.busy /\ ~port'.done
      /\ StoreMem' = mem /\ StoreOutputs' = outputs /\ inputs' = inputs
  BY <1>2, EdgeIdle DEF ReadHit
<1>4. StoreMem' = StoreMem /\ StoreOutputs' = StoreOutputs
  BY <1>2, <1>3, StoreIs
<1>5. StoreInputs' = StoreInputs
  BY <1>1, <1>3 DEF StoreInputs
<1>6. done' = TRUE /\ r_data' = StoreMem[a.addr] /\ r_data' \in Memory!Word /\ a.addr # IN_ADDR
  <2>1. a.addr.ws \in Arrived(way(a), a.addr.index)
    BY <1>1, RequestTypes DEF Arrived, FillState
  <2> QED
    BY <1>1, <2>1, HitIs DEF ReadHit, ServeHit, Answer
<1>7. Effect(a)
  BY <1>1, <1>4, <1>5, <1>6 DEF Effect, Memory!Value, Memory!Written, Memory!Shown, Memory!Consumed
<1>8. StateOk' /\ ReadHolds'
  BY <1>1, <1>3 DEF StateOk, FillState, ReadHolds
<1>9. Held'
  BY <1>1, <1>4, HeldKept, NotFilling DEF FillState, CInv
<1> QED
  BY <1>1, <1>3, <1>6, <1>7, <1>8, <1>9 DEF Result, CInv, TypeOK, DataType, States

LEMMA ReadFromIs ==
  /\ \A a \in WordAddr : /\ ReadFrom(a) \in Memory!Access
                         /\ ReadFrom(a).rw = "r" /\ ReadFrom(a).addr = a
  /\ current \in Block => \A k \in Ws :
       /\ [tag |-> current.tag, index |-> current.block, ws |-> k] \in WordAddr
       /\ FillFrom(k) = ReadFrom([tag |-> current.tag, index |-> current.block, ws |-> k])
BY RequestTypes DEF ReadFrom, FillFrom, NoRequest, Memory!NoRequest, Memory!Access, Block, WordAddr

LEMMA ReadMissResult ==
  ASSUME DevicesApart, CInv, NEW a \in Requests \cup {NoRequest}, Latched(a), ReadMiss(a)
  PROVE  Result(a)
<1>1. PICK v \in Ways, s \in Sets, t \in Tags, k \in Ws :
        /\ v = lru_id(a.addr.index) /\ s = a.addr.index /\ t = a.addr.tag /\ k = a.addr.ws
        /\ a \in Memory!Access /\ a.addr \in WordAddr
        /\ a.addr = [tag |-> t, index |-> s, ws |-> k]
  BY RequestTypes, LruIs DEF CInv, LookupsInv, WordAddr
<1>2. /\ state = "IDLE" /\ state' = "PHASE_1" /\ NoAnswer /\ data' = data
      /\ a.rw = "r" /\ ~non_cached(a) /\ a.addr # IN_ADDR
      /\ current' = [cache |-> v, tag |-> t, block |-> s, word |-> k, critical |-> k]
      /\ valid' = [valid EXCEPT ![v][s] = TRUE]
      /\ tag' = [tag EXCEPT ![v][s] = t]
      /\ Memory!Edge(ReadFrom(a.addr))
  BY <1>1 DEF ReadMiss, non_cached
<1>3. PortTyped /\ ~port.busy /\ ~port.done
  BY <1>2 DEF CInv, StateOk
<1>4. ReadFrom(a.addr) \in Memory!Access /\ ReadFrom(a.addr).rw = "r"
      /\ ReadFrom(a.addr).addr # IN_ADDR /\ Asked(ReadFrom(a.addr)) = ReadFrom(a.addr)
  BY <1>1, <1>2, <1>3, ReadFromIs DEF Asked
<1>5. /\ PortTyped' /\ port'.req = ReadFrom(a.addr) /\ (port'.busy <=> ~port'.done)
      /\ StoreMem' = StoreMem /\ StoreOutputs' = StoreOutputs
      /\ ReadHolds' /\ inputs' = inputs
  BY <1>2, <1>3, <1>4, ReadEdge
<1>6. ~done' /\ busy' /\ pending' = a
  BY <1>2 DEF NoAnswer, Latched
<1>7. FillState' /\ ~non_cached(pending')
  BY <1>2, <1>6 DEF FillState, non_cached
<1>8. StoreInputs' = StoreInputs
  BY <1>2, <1>5, <1>7 DEF StoreInputs, non_cached
<1>9. Effect(a) /\ done' \in BOOLEAN /\ r_data' \in Memory!Word
  BY <1>2, <1>5, <1>8, NoAnswerIs
<1>10. /\ valid \in [Ways -> [Sets -> BOOLEAN]] /\ tag \in [Ways -> [Sets -> Tags]]
  BY DEF CInv, TypeOK
<1>11. /\ valid'[v][s] /\ tag'[v][s] = t
       /\ \A w \in Ways, z \in Sets : <<w, z>> # <<v, s>> =>
            valid'[w][z] = valid[w][z] /\ tag'[w][z] = tag[w][z]
  BY <1>2, <1>10
<1>12. /\ current'.cache = v /\ current'.tag = t /\ current'.block = s
       /\ current'.word = k /\ current'.critical = k /\ current' \in Block
  BY <1>2 DEF Block
<1>13. StateOk'
  BY <1>1, <1>2, <1>5, <1>6, <1>7, <1>11, <1>12 DEF StateOk, ReadFrom, NoRequest
<1>14. Held'
  <2> SUFFICES ASSUME NEW w \in Ways, NEW z \in Sets, valid'[w][z]
               PROVE  /\ Apart(tag'[w][z], z)
                      /\ \A n \in Arrived(w, z)' :
                            data'[w][z][n] = StoreMem'[[tag |-> tag'[w][z], index |-> z, ws |-> n]]
    BY Zenon DEF Held, Apart
  <2>1. CASE <<w, z>> = <<v, s>>
    <3>1. Arrived(w, z)' = {}
      BY <1>2, <1>7, <1>12, <2>1 DEF Arrived
    <3>2. Apart(t, s)
      <4>1. a \in Requests
        BY <1>2, RequestTypes
      <4> QED
        BY <1>1, <1>2, <4>1 DEF DevicesApart
    <3> QED
      BY <1>11, <2>1, <3>1, <3>2
  <2>2. CASE <<w, z>> # <<v, s>>
    <3>1. Arrived(w, z)' \subseteq Ws /\ Arrived(w, z) = Ws
      BY <1>2, <1>12 DEF Arrived, FillState, Block
    <3>2. valid[w][z] /\ tag'[w][z] = tag[w][z]
      BY <1>11, <2>2
    <3> QED
      BY <1>2, <1>5, <3>1, <3>2 DEF CInv, Held
  <2> QED
    BY <2>1, <2>2
<1> QED
  BY <1>2, <1>5, <1>9, <1>12, <1>13, <1>14 DEF Result, CInv, TypeOK, DataType, States

LEMMA ReadUncachedResult ==
  ASSUME CInv, NEW a \in Memory!Access, Latched(a), ReadUncached(a)
  PROVE  Result(a)
<1>1. state = "IDLE" /\ state' = "PHASE_1" /\ NoAnswer /\ UNCHANGED <<current, tag, valid, data>>
      /\ a.rw = "r" /\ non_cached(a) /\ a.addr = IN_ADDR /\ Memory!Edge(ReadFrom(a.addr))
      /\ a.addr \in WordAddr
  BY RequestTypes DEF ReadUncached, wayVars, non_cached
<1>2. PortTyped /\ ~port.busy /\ ~port.done
  BY <1>1 DEF CInv, StateOk
<1>3. ReadFrom(a.addr) \in Memory!Access /\ ReadFrom(a.addr).rw = "r"
      /\ ReadFrom(a.addr).addr = IN_ADDR /\ Asked(ReadFrom(a.addr)) = ReadFrom(a.addr)
  BY <1>1, <1>2, ReadFromIs DEF Asked
<1>4. /\ PortTyped' /\ port'.req = ReadFrom(a.addr) /\ (port'.busy <=> ~port'.done)
      /\ StoreMem' = StoreMem /\ StoreOutputs' = StoreOutputs /\ ReadHolds'
      /\ port'.done => port'.data[0] = inputs
      /\ ~port'.done => inputs' = inputs
  BY <1>1, <1>2, <1>3, ReadEdge
<1>5. ~done' /\ busy' /\ pending' = a
  BY <1>1 DEF NoAnswer, Latched
<1>6. ~FillState /\ ~FillState' /\ non_cached(pending')
  BY <1>1, <1>5 DEF FillState, non_cached
<1>7. StoreInputs' = StoreInputs
  BY <1>1, <1>4, <1>6 DEF StoreInputs, non_cached
<1>8. Effect(a) /\ done' \in BOOLEAN /\ r_data' \in Memory!Word
  BY <1>1, <1>4, <1>7, NoAnswerIs
<1>9. StateOk'
  BY <1>1, <1>4, <1>5, <1>6 DEF StateOk, ReadFrom, NoRequest, non_cached
<1>10. Held'
  BY <1>1, <1>4, <1>6, HeldKept, NotFilling DEF CInv
<1> QED
  BY <1>1, <1>4, <1>8, <1>9, <1>10 DEF Result, CInv, TypeOK, DataType, States

LEMMA AwaitCriticalResult ==
  ASSUME CInv, NEW a \in Memory!Access, busy => a = pending, Latched(a), AwaitCritical(a)
  PROVE  Result(a)
<1>1. state = "PHASE_1" /\ state' = "PHASE_1" /\ ~port.done /\ NoAnswer
      /\ UNCHANGED <<current, tag, valid, data>> /\ Memory!Edge(NoRequest)
  BY DEF AwaitCritical, wayVars
<1>2. /\ PortTyped /\ port.busy /\ busy /\ a = pending /\ a.rw = "r"
      /\ port.req = ReadFrom(pending.addr) /\ a.addr \in WordAddr
  BY <1>1, RequestTypes DEF CInv, StateOk
<1>3. NoRequest \in Memory!Access /\ Asked(NoRequest) = port.req /\ port.req.rw = "r"
      /\ port.req.addr = a.addr
  BY <1>2, ReadFromIs, RequestTypes DEF Asked
<1>4. /\ PortTyped' /\ port'.req = port.req /\ (port'.busy <=> ~port'.done)
      /\ StoreMem' = StoreMem /\ StoreOutputs' = StoreOutputs /\ ReadHolds'
      /\ a.addr # IN_ADDR => inputs' = inputs
      /\ a.addr = IN_ADDR => (port'.done => port'.data[0] = inputs)
                             /\ (~port'.done => inputs' = inputs)
  BY <1>1, <1>2, <1>3, ReadEdge
<1>5. ~done' /\ busy' /\ pending' = a
  BY <1>1, <1>2 DEF NoAnswer, Latched
<1>6. non_cached(pending)' <=> non_cached(pending)
  BY <1>2, <1>5 DEF non_cached
<1>7. non_cached(a) <=> a.addr = IN_ADDR
  BY <1>2 DEF non_cached
<1>8. StoreInputs' = StoreInputs
  BY <1>1, <1>2, <1>4, <1>5, <1>7 DEF StoreInputs, non_cached
<1>9. Effect(a) /\ done' \in BOOLEAN /\ r_data' \in Memory!Word
  BY <1>1, <1>4, <1>8, NoAnswerIs
<1>10. StateOk'
  BY <1>1, <1>2, <1>4, <1>5, <1>6 DEF StateOk, FillState, ReadFrom, NoRequest, non_cached, CInv
<1>11. Held'
  <2>1. \A w \in Ways, s \in Sets : Arrived(w, s)' \subseteq Arrived(w, s)
    BY <1>1, <1>6 DEF Arrived, FillState
  <2> QED
    BY <1>1, <1>4, <2>1, HeldKept DEF CInv
<1> QED
  BY <1>1, <1>4, <1>9, <1>10, <1>11 DEF Result, CInv, TypeOK, DataType, States

LEMMA UncachedArrivesResult ==
  ASSUME CInv, NEW a \in Memory!Access, busy => a = pending, Latched(a), UncachedArrives(a)
  PROVE  Result(a)
<1>1. state = "PHASE_1" /\ state' = "IDLE" /\ port.done /\ non_cached(a)
      /\ done' = TRUE /\ r_data' = port.data
      /\ UNCHANGED <<current, tag, valid, data>> /\ Memory!Edge(NoRequest)
  BY DEF UncachedArrives, wayVars, Answer
<1>2. /\ PortTyped /\ ~port.busy /\ busy /\ a = pending /\ a.rw = "r" /\ a.addr = IN_ADDR
      /\ port.req = ReadFrom(pending.addr) /\ a.addr \in WordAddr
  BY <1>1, RequestTypes DEF CInv, StateOk, PortTyped, non_cached
<1>3. /\ PortTyped' /\ ~port'.busy /\ ~port'.done
      /\ StoreMem' = mem /\ StoreOutputs' = outputs /\ inputs' = inputs
  BY <1>1, <1>2, EdgeIdle
<1>4. StoreMem' = StoreMem /\ StoreOutputs' = StoreOutputs
  BY <1>2, <1>3, StoreIs
<1>5. /\ port.data = Memory!Char(port.data[0]) /\ inputs = Memory!Next1(port.data[0])
      /\ port.data \in Memory!Word
  BY <1>1, <1>2, ReadFromIs DEF CInv, ReadHolds, PortTyped, Port
<1>6. StoreInputs = port.data[0] /\ StoreInputs' = inputs
  BY <1>1, <1>2, <1>3 DEF StoreInputs
<1>7. Effect(a)
  BY <1>1, <1>2, <1>4, <1>5, <1>6
  DEF Effect, Memory!Value, Memory!Written, Memory!Shown, Memory!Consumed
<1>8. StateOk' /\ ReadHolds'
  BY <1>1, <1>3 DEF StateOk, FillState, ReadHolds
<1>9. Held'
  BY <1>1, <1>2, <1>4, HeldKept, NotFilling DEF FillState, CInv
<1> QED
  BY <1>1, <1>3, <1>5, <1>7, <1>8, <1>9 DEF Result, CInv, TypeOK, DataType, States

LEMMA WriteResult ==
  ASSUME CInv, NEW a \in Memory!Access, Latched(a), Write(a)
  PROVE  Result(a)
<1>1. /\ state = "IDLE" /\ state' = "WRITE" /\ a.rw = "w"
      /\ done' = TRUE /\ r_data' = Memory!ZeroWord
      /\ UNCHANGED <<current, tag, valid>> /\ Memory!Edge(a)
  BY DEF Write, Answer
<1>2. PortTyped /\ ~port.busy /\ ~port.done /\ Asked(a) = a
  BY <1>1 DEF CInv, StateOk, Asked
<1>3. /\ PortTyped' /\ port'.req = a /\ (port'.busy <=> ~port'.done)
      /\ StoreMem' = Memory!Written(mem, a) /\ StoreOutputs' = Memory!Shown(outputs, a)
      /\ port'.done => inputs' = Memory!Consumed(inputs, a)
      /\ ~port'.done => inputs' = inputs
  BY <1>1, <1>2, EdgeAsked
<1>4. StoreMem' = Memory!Written(StoreMem, a) /\ StoreOutputs' = Memory!Shown(StoreOutputs, a)
  BY <1>2, <1>3, StoreIs
<1>5. inputs' = inputs /\ Memory!Consumed(inputs, a) = inputs
  BY <1>1, <1>3 DEF Memory!Consumed
<1>6. StoreInputs' = Memory!Consumed(StoreInputs, a)
  BY <1>1, <1>5 DEF StoreInputs
<1>7. Effect(a) /\ r_data' \in Memory!Word
  BY <1>1, <1>4, <1>6, RequestTypes DEF Effect
<1>8. StateOk' /\ ReadHolds'
  BY <1>1, <1>3 DEF StateOk, FillState, ReadHolds
<1>9. ~FillState /\ ~FillState'
  BY <1>1 DEF FillState
<1>10. /\ a.addr \in WordAddr /\ a.addr.index \in Sets /\ a.addr.ws \in Ws
       /\ StoreMem \in [WordAddr -> Memory!Word] /\ data \in DataType
       /\ a.w_data \in Memory!Word
  BY <1>2, RequestTypes, StoreTyped DEF CInv, TypeOK, DataType, Memory!Access
<1>11. ASSUME NEW w \in Ways, NEW s \in Sets, valid[w][s], NEW k \in Ws
       PROVE  /\ [tag |-> tag[w][s], index |-> s, ws |-> k] \in WordAddr
              /\ [tag |-> tag[w][s], index |-> s, ws |-> k] \notin {IN_ADDR, OUT_ADDR}
              /\ data[w][s][k] = StoreMem[[tag |-> tag[w][s], index |-> s, ws |-> k]]
  <2>1. tag[w][s] \in Tags
    BY DEF CInv, TypeOK
  <2>2. Apart(tag[w][s], s) /\ Arrived(w, s) = Ws
    BY <1>9, <1>11 DEF CInv, Held, Arrived
  <2> QED
    BY <1>11, <2>1, <2>2 DEF CInv, Held, WordAddr, Apart
<1>12. CASE hit(a)
  <2>1. PICK v \in Ways, s \in Sets, k \in Ws :
          v = way(a) /\ s = a.addr.index /\ k = a.addr.ws
    BY <1>10, <1>12, WayHolds
  <2>2. /\ valid[v][s] /\ tag[v][s] = a.addr.tag
        /\ a.addr = [tag |-> tag[v][s], index |-> s, ws |-> k]
    BY <1>10, <1>12, <2>1, WayHolds DEF WordAddr
  <2>3. PICK m : m = Memory!Masked(Cached(a), a.w_data, a.mask)
    OBVIOUS
  <2>4. data' = [data EXCEPT ![v][s][k] = m]
    BY <1>12, <2>1, <2>3 DEF Write, Store
  <2>5. Cached(a) = StoreMem[a.addr] /\ Cached(a) \in Memory!Word
        /\ a.addr \notin {IN_ADDR, OUT_ADDR}
    <3>1. a.addr.ws \in Arrived(way(a), a.addr.index)
      BY <1>9, <1>10 DEF Arrived
    <3> QED
      BY <1>12, <3>1, HitIs
  <2>6. m \in Memory!Word
    BY <1>10, <2>3, <2>5 DEF Memory!Masked, Memory!Word
  <2>7. data' \in DataType
    BY <1>10, <2>4, <2>6 DEF DataType
  <2>8. data'[v][s][k] = m
        /\ \A w \in Ways, z \in Sets, n \in Ws : <<w, z, n>> # <<v, s, k>> =>
             data'[w][z][n] = data[w][z][n]
    BY <1>10, <2>4 DEF DataType
  <2>9. StoreMem'[a.addr] = m
        /\ \A b \in WordAddr : b # a.addr => StoreMem'[b] = StoreMem[b]
    BY <1>1, <1>4, <1>10, <2>3, <2>5 DEF Memory!Written
  <2>10. Held'
    <3> SUFFICES ASSUME NEW w \in Ways, NEW z \in Sets, valid'[w][z]
                 PROVE  /\ Apart(tag'[w][z], z)
                        /\ \A n \in Arrived(w, z)' : data'[w][z][n]
                              = StoreMem'[[tag |-> tag'[w][z], index |-> z, ws |-> n]]
      BY Zenon DEF Held, Apart
    <3>1. Apart(tag'[w][z], z)
      BY <1>1 DEF CInv, Held
    <3>2. ASSUME NEW n \in Ws
          PROVE  data'[w][z][n] = StoreMem'[[tag |-> tag[w][z], index |-> z, ws |-> n]]
      <4>1. PICK b \in WordAddr : b = [tag |-> tag[w][z], index |-> z, ws |-> n]
        BY <1>1, <1>11
      <4>2. data[w][z][n] = StoreMem[b]
        BY <1>1, <1>11, <4>1
      <4>3. CASE <<w, z, n>> = <<v, s, k>>
        BY <2>2, <2>8, <2>9, <4>1, <4>3
      <4>4. CASE <<w, z, n>> # <<v, s, k>>
        <5>1. b # a.addr
          <6>1. SUFFICES ASSUME b = a.addr
                         PROVE  FALSE
            OBVIOUS
          <6>2. tag[w][z] = tag[v][s] /\ z = s /\ n = k
            BY <2>2, <4>1, <6>1
          <6>3. w = v
            BY <1>1, <2>2, <6>2 DEF CInv, LookupsInv, LookupsHold, OneHot
          <6> QED
            BY <4>4, <6>2, <6>3
        <5> QED
          BY <2>8, <2>9, <4>1, <4>2, <4>4, <5>1
      <4> QED
        BY <4>3, <4>4
    <3>3. Arrived(w, z)' \subseteq Ws
      BY <1>9 DEF Arrived
    <3> QED
      BY <1>1, <3>1, <3>2, <3>3
  <2> QED
    BY <1>1, <1>3, <1>7, <1>8, <2>7, <2>10 DEF Result, CInv, TypeOK, States
<1>13. CASE ~hit(a)
  <2>1. data' = data
    BY <1>13 DEF Write
  <2>2. \A b \in WordAddr : b # a.addr => StoreMem'[b] = StoreMem[b]
    BY <1>1, <1>4, <1>10 DEF Memory!Written
  <2>3. Held'
    <3> SUFFICES ASSUME NEW w \in Ways, NEW z \in Sets, valid'[w][z]
                 PROVE  /\ Apart(tag'[w][z], z)
                        /\ \A n \in Arrived(w, z)' : data'[w][z][n]
                              = StoreMem'[[tag |-> tag'[w][z], index |-> z, ws |-> n]]
      BY Zenon DEF Held, Apart
    <3>1. Apart(tag'[w][z], z)
      BY <1>1 DEF CInv, Held
    <3>2. ASSUME NEW n \in Ws
          PROVE  data[w][z][n] = StoreMem'[[tag |-> tag[w][z], index |-> z, ws |-> n]]
      <4>1. PICK b \in WordAddr : b = [tag |-> tag[w][z], index |-> z, ws |-> n]
        BY <1>1, <1>11
      <4>2. data[w][z][n] = StoreMem[b]
        BY <1>1, <1>11, <4>1
      <4>3. b # a.addr
        <5>1. SUFFICES ASSUME b = a.addr
                       PROVE  FALSE
          OBVIOUS
        <5>2. tag[w][z] = a.addr.tag /\ z = a.addr.index
          BY <4>1, <5>1
        <5> QED
          BY <1>1, <1>13, <5>2 DEF hit, found_in_cache
      <4> QED
        BY <2>2, <4>1, <4>2, <4>3
    <3>3. Arrived(w, z)' \subseteq Ws
      BY <1>9 DEF Arrived
    <3> QED
      BY <1>1, <2>1, <3>1, <3>2, <3>3
  <2> QED
    BY <1>1, <1>3, <1>7, <1>8, <2>1, <2>3 DEF Result, CInv, TypeOK, DataType, States
<1> QED
  BY <1>12, <1>13

LEMMA AwaitWriteResult ==
  ASSUME CInv, NEW a \in Memory!Access, Latched(a), AwaitWrite(a)
  PROVE  Result(a)
<1>1. state = "WRITE" /\ NoAnswer /\ UNCHANGED <<current, tag, valid, data>>
      /\ Memory!Edge(NoRequest) /\ state' = IF port.done THEN "IDLE" ELSE "WRITE"
  BY DEF AwaitWrite, wayVars
<1>2. PortTyped /\ (port.busy \/ port.done) /\ ~(port.busy /\ port.done) /\ port.req.rw = "w"
  BY <1>1 DEF CInv, StateOk, PortTyped
<1>3. CASE port.done
  <2>1. /\ PortTyped' /\ ~port'.busy /\ ~port'.done
        /\ StoreMem' = mem /\ StoreOutputs' = outputs /\ inputs' = inputs
    BY <1>1, <1>2, <1>3, EdgeIdle
  <2>2. StoreMem' = StoreMem /\ StoreOutputs' = StoreOutputs
    BY <1>2, <1>3, <2>1, StoreIs
  <2>3. StoreInputs' = StoreInputs
    BY <1>1, <1>3, <2>1 DEF StoreInputs
  <2>4. Effect(a) /\ done' \in BOOLEAN /\ r_data' \in Memory!Word
    BY <1>1, <2>2, <2>3, NoAnswerIs
  <2>5. StateOk' /\ ReadHolds'
    BY <1>1, <1>3, <2>1 DEF StateOk, FillState, ReadHolds
  <2>6. Held'
    BY <1>1, <1>3, <2>2, HeldKept, NotFilling DEF FillState, CInv
  <2> QED
    BY <1>1, <1>3, <2>1, <2>4, <2>5, <2>6 DEF Result, CInv, TypeOK, DataType, States
<1>4. CASE ~port.done
  <2>1. Asked(NoRequest) = port.req /\ NoRequest \in Memory!Access /\ port.busy
    BY <1>2, <1>4, RequestTypes DEF Asked
  <2>2. /\ PortTyped' /\ port'.req = port.req /\ (port'.busy <=> ~port'.done)
        /\ StoreMem' = Memory!Written(mem, port.req)
        /\ StoreOutputs' = Memory!Shown(outputs, port.req)
        /\ port'.done => inputs' = Memory!Consumed(inputs, port.req)
        /\ ~port'.done => inputs' = inputs
    BY <1>1, <1>2, <2>1, EdgeAsked
  <2>3. StoreMem' = StoreMem /\ StoreOutputs' = StoreOutputs
    BY <2>1, <2>2, StoreIs
  <2>4. inputs' = inputs
    BY <1>2, <2>2 DEF Memory!Consumed
  <2>5. StoreInputs' = StoreInputs
    BY <1>1, <1>4, <2>4 DEF StoreInputs
  <2>6. Effect(a) /\ done' \in BOOLEAN /\ r_data' \in Memory!Word
    BY <1>1, <2>3, <2>5, NoAnswerIs
  <2>7. StateOk' /\ ReadHolds'
    BY <1>1, <1>2, <1>4, <2>2 DEF StateOk, FillState, ReadHolds
  <2>8. Held'
    BY <1>1, <1>4, <2>3, HeldKept, NotFilling DEF FillState, CInv
  <2> QED
    BY <1>1, <1>4, <2>2, <2>6, <2>7, <2>8 DEF Result, CInv, TypeOK, DataType, States
<1> QED
  BY <1>3, <1>4

(* The block that is being filled holds no device.                         *)
LEMMA FillApart ==
  ASSUME CInv, FillState
  PROVE  /\ current \in Block /\ current.cache \in Ways /\ current.block \in Sets
         /\ current.tag \in Tags /\ current.word \in Ws /\ current.critical \in Ws
         /\ valid[current.cache][current.block]
         /\ tag[current.cache][current.block] = current.tag
         /\ \A k \in Ws : /\ FillFrom(k) \in Memory!Access /\ FillFrom(k).rw = "r"
                          /\ FillFrom(k).addr # IN_ADDR
                          /\ FillFrom(k).addr = [tag |-> current.tag, index |-> current.block, ws |-> k]
<1>1. current \in Block /\ current.cache \in Ways /\ current.block \in Sets
      /\ current.tag \in Tags /\ current.word \in Ws /\ current.critical \in Ws
  BY DEF CInv, TypeOK, Block
<1>2. valid[current.cache][current.block] /\ tag[current.cache][current.block] = current.tag
  BY DEF CInv, StateOk
<1>3. Apart(current.tag, current.block)
  BY <1>1, <1>2 DEF CInv, Held
<1>4. ASSUME NEW k \in Ws
      PROVE  /\ FillFrom(k) \in Memory!Access /\ FillFrom(k).rw = "r"
             /\ FillFrom(k).addr # IN_ADDR
             /\ FillFrom(k).addr = [tag |-> current.tag, index |-> current.block, ws |-> k]
  <2>1. PICK b \in WordAddr : b = [tag |-> current.tag, index |-> current.block, ws |-> k]
    BY <1>1, ReadFromIs
  <2>2. FillFrom(k) = ReadFrom(b)
    BY <1>1, <2>1, ReadFromIs
  <2>3. b # IN_ADDR
    BY <1>3, <2>1 DEF Apart
  <2> QED
    BY <2>1, <2>2, <2>3, ReadFromIs
<1> QED
  BY <1>1, <1>2, <1>4

LEMMA CriticalArrivesResult ==
  ASSUME CInv, NEW a \in Memory!Access, busy => a = pending, Latched(a), CriticalArrives(a)
  PROVE  Result(a)
<1>1. PICK n \in Ws : n = IF current.critical = 0 THEN 1 ELSE 0
  BY CacheAssumption DEF Ws
<1>2. /\ state = "PHASE_1" /\ state' = "PHASE_2" /\ port.done /\ ~non_cached(a) /\ NoAnswer
      /\ current' = [current EXCEPT !.word = n] /\ Memory!Edge(FillFrom(n))
      /\ data' = [data EXCEPT ![current.cache][current.block][current.word] = port.data]
      /\ UNCHANGED <<tag, valid>>
  BY <1>1 DEF CriticalArrives, Store
<1>3. /\ PortTyped /\ ~port.busy /\ busy /\ a = pending /\ a.rw = "r"
      /\ port.req = ReadFrom(pending.addr)
      /\ pending.addr = [tag |-> current.tag, index |-> current.block, ws |-> current.word]
      /\ current.word = current.critical /\ FillState
      /\ a.addr \in WordAddr /\ a.addr # IN_ADDR
  BY <1>2, RequestTypes DEF CInv, StateOk, PortTyped, FillState, non_cached
<1>4. /\ current.cache \in Ways /\ current.block \in Sets /\ current.tag \in Tags
      /\ current.word \in Ws /\ current.critical \in Ws
      /\ valid[current.cache][current.block] /\ tag[current.cache][current.block] = current.tag
      /\ current \in Block
      /\ FillFrom(n) \in Memory!Access /\ FillFrom(n).rw = "r" /\ FillFrom(n).addr # IN_ADDR
  BY <1>3, FillApart
<1>5. Asked(FillFrom(n)) = FillFrom(n)
  BY <1>3 DEF Asked
<1>6. /\ PortTyped' /\ port'.req = FillFrom(n) /\ (port'.busy <=> ~port'.done)
      /\ StoreMem' = StoreMem /\ StoreOutputs' = StoreOutputs /\ StoreMem = mem
      /\ ReadHolds' /\ inputs' = inputs
  BY <1>2, <1>3, <1>4, <1>5, ReadEdge
<1>7. port.data = StoreMem[a.addr] /\ port.data \in Memory!Word
  BY <1>2, <1>3, <1>6, ReadFromIs DEF CInv, ReadHolds, PortTyped, Port
<1>8. ~done' /\ busy' /\ pending' = a
  BY <1>2, <1>3 DEF NoAnswer, Latched
<1>9. StoreInputs' = StoreInputs
  BY <1>2, <1>3, <1>6 DEF StoreInputs
<1>10. Effect(a) /\ done' \in BOOLEAN /\ r_data' \in Memory!Word
  BY <1>2, <1>6, <1>9, NoAnswerIs
<1>11. /\ current' \in Block /\ current'.word = n /\ current'.critical = current.critical
       /\ current'.cache = current.cache /\ current'.block = current.block
       /\ current'.tag = current.tag /\ n # current.critical
  BY <1>1, <1>2, <1>4 DEF Block
<1>12. FillState' /\ FillFrom(n)' = FillFrom(n)
  BY <1>2, <1>11 DEF FillState, FillFrom, ReadFrom, NoRequest
<1>13. StateOk'
  BY <1>2, <1>4, <1>6, <1>11, <1>12 DEF StateOk, FillFrom, ReadFrom, NoRequest
<1>14. data' \in DataType
  BY <1>2, <1>4, <1>7 DEF DataType, CInv, TypeOK
<1>15. Held'
  <2> SUFFICES ASSUME NEW w \in Ways, NEW z \in Sets, valid'[w][z]
               PROVE  /\ Apart(tag'[w][z], z)
                      /\ \A k \in Arrived(w, z)' :
                            data'[w][z][k] = StoreMem'[[tag |-> tag'[w][z], index |-> z, ws |-> k]]
    BY Zenon DEF Held, Apart
  <2>0. /\ Apart(tag[w][z], z)
        /\ \A k \in Arrived(w, z) :
              data[w][z][k] = StoreMem[[tag |-> tag[w][z], index |-> z, ws |-> k]]
    BY <1>2 DEF CInv, Held
  <2>1. CASE <<w, z>> = <<current.cache, current.block>>
    <3>1. Arrived(w, z)' = {current.critical}
      <4>1. Arrived(w, z)' = {k \in Ws : k < n} \cup {current.critical}
        BY <1>2, <1>11, <1>12, <2>1 DEF Arrived
      <4> QED
        BY <4>1, <1>1, <1>4, CacheAssumption DEF Ws
    <3>2. data'[w][z][current.critical] = port.data
      BY <1>2, <1>3, <1>4, <2>1 DEF CInv, TypeOK
    <3> QED
      BY <1>2, <1>3, <1>4, <1>6, <1>7, <2>0, <2>1, <3>1, <3>2
  <2>2. CASE <<w, z>> # <<current.cache, current.block>>
    <3>1. Arrived(w, z)' = Arrived(w, z)
      BY <1>3, <1>11, <1>12, <2>2 DEF Arrived
    <3>2. data'[w][z] = data[w][z]
      BY <1>2, <1>4, <2>2 DEF CInv, TypeOK
    <3> QED
      BY <1>2, <1>6, <2>0, <3>1, <3>2
  <2> QED
    BY <2>1, <2>2
<1> QED
  BY <1>2, <1>6, <1>10, <1>11, <1>13, <1>14, <1>15 DEF Result, States

(* The order of the fill leaves no word out, and none but the critical one *)
(* arrives early.                                                          *)
LEMMA NextWord ==
  ASSUME current.word \in Ws, current.critical \in Ws, current.word # current.critical
  PROVE  /\ next_current_word \in Ws
         /\ next_current_word # 0 => next_current_word # current.critical
         /\ \A k \in Ws : next_current_word = 0 \/ k < next_current_word =>
              k < current.word \/ k = current.word \/ k = current.critical
<1>1. PICK x \in Nat : x = IF current.critical = current.word + 1 THEN current.word + 2
                           ELSE current.word + 1
  BY DEF Ws
<1>2. x \in 1 .. WORDS /\ next_current_word = x % WORDS
  BY <1>1, CacheAssumption DEF Ws, next_current_word
<1>3. next_current_word = IF x = WORDS THEN 0 ELSE x
  BY <1>2, CacheAssumption
<1> QED
  BY <1>1, <1>2, <1>3, CacheAssumption DEF Ws

(* A read served during a fill is served a word that has arrived.          *)
LEMMA ServedResult ==
  ASSUME CInv, NEW a \in Memory!Access, state = "PHASE_2",
         IF ServedDuringFill(a) THEN ServeHit(a) ELSE NoAnswer /\ UNCHANGED lruVars,
         StoreMem' = StoreMem, StoreInputs' = StoreInputs, StoreOutputs' = StoreOutputs
  PROVE  Effect(a) /\ done' \in BOOLEAN /\ r_data' \in Memory!Word /\ (done' => ~non_cached(a))
<1>1. CASE ServedDuringFill(a)
  <2>1. a.rw = "r" /\ hit(a) /\ (InFill(a) => a.addr.ws < current.word) /\ ServeHit(a)
    BY <1>1 DEF ServedDuringFill
  <2>2. a.addr.ws \in Ws
    BY RequestTypes
  <2>3. a.addr.ws \in Arrived(way(a), a.addr.index)
    BY <2>1, <2>2 DEF Arrived, InFill
  <2>4. /\ ~non_cached(a) /\ a.addr # IN_ADDR
        /\ Cached(a) = StoreMem[a.addr] /\ Cached(a) \in Memory!Word
    BY <2>1, <2>3, HitIs
  <2>5. done' = TRUE /\ r_data' = StoreMem[a.addr] /\ r_data' \in Memory!Word
    BY <2>1, <2>4 DEF ServeHit, Answer
  <2> QED
    BY <2>1, <2>4, <2>5
    DEF Effect, Memory!Value, Memory!Written, Memory!Shown, Memory!Consumed
<1>2. CASE ~ServedDuringFill(a)
  BY <1>2, NoAnswerIs
<1> QED
  BY <1>1, <1>2

LEMMA FillingResult ==
  ASSUME CInv, NEW a \in Memory!Access, busy => a = pending, Latched(a), Filling(a)
  PROVE  Result(a)
<1>1. /\ state = "PHASE_2" /\ FillState /\ Fill(a) /\ UNCHANGED <<tag, valid>>
      /\ IF ServedDuringFill(a) THEN ServeHit(a) ELSE NoAnswer /\ UNCHANGED lruVars
  BY DEF Filling, FillState
<1>2. PICK n : n = next_current_word
  OBVIOUS
<1>3. /\ current \in Block /\ current.cache \in Ways /\ current.block \in Sets
      /\ current.tag \in Tags /\ current.word \in Ws /\ current.critical \in Ws
      /\ valid[current.cache][current.block]
      /\ tag[current.cache][current.block] = current.tag
      /\ \A k \in Ws : /\ FillFrom(k) \in Memory!Access /\ FillFrom(k).rw = "r"
                       /\ FillFrom(k).addr # IN_ADDR
                       /\ FillFrom(k).addr = [tag |-> current.tag, index |-> current.block, ws |-> k]
  BY <1>1, FillApart
<1>4. current.word # current.critical
  BY <1>1 DEF CInv, StateOk
<1>5. /\ n \in Ws /\ (n # 0 => n # current.critical)
      /\ \A k \in Ws : n = 0 \/ k < n =>
           k < current.word \/ k = current.word \/ k = current.critical
  BY <1>2, <1>3, <1>4, NextWord
<1>6. \/ port.req = FillFrom(current.word)
      \/ busy /\ a = pending /\ non_cached(a) /\ n # 0 /\ port.req = FillFrom(n)
  BY <1>1, <1>2 DEF CInv, StateOk
<1>7. PortTyped /\ (port.busy \/ port.done) /\ ~(port.busy /\ port.done)
      /\ port.req.rw = "r" /\ port.req.addr # IN_ADDR
  <2>1. PICK k \in Ws : port.req = FillFrom(k)
    BY <1>3, <1>5, <1>6
  <2> QED
    <3>1. port.req.rw = "r" /\ port.req.addr # IN_ADDR
      BY <1>3, <2>1
    <3>2. PortTyped /\ (port.busy \/ port.done)
      BY <1>1 DEF CInv, StateOk
    <3> QED
      BY <3>1, <3>2, Zenon DEF PortTyped
<1>8. ASSUME StoreMem' = StoreMem, StoreOutputs' = StoreOutputs, inputs' = inputs,
             state' \in {"PHASE_2", "IDLE"}
      PROVE  /\ Effect(a) /\ done' \in BOOLEAN /\ r_data' \in Memory!Word
             /\ non_cached(a) /\ busy => busy' /\ pending' = a
             /\ non_cached(a) => busy' /\ pending' = a
  <2>1. StoreInputs' = StoreInputs
    BY <1>1, <1>8 DEF StoreInputs
  <2>2. Effect(a) /\ done' \in BOOLEAN /\ r_data' \in Memory!Word /\ (done' => ~non_cached(a))
    BY <1>1, <1>8, <2>1, ServedResult
  <2>3. non_cached(a) => busy' /\ pending' = a
    BY <2>2 DEF Latched, non_cached
  <2> QED
    BY <2>2, <2>3
<1>9. CASE ~port.done
  <2>1. Memory!Edge(NoRequest) /\ UNCHANGED <<state, current, data>>
    BY <1>1, <1>9 DEF Fill
  <2>2. NoRequest \in Memory!Access /\ Asked(NoRequest) = port.req
    BY <1>7, <1>9, RequestTypes DEF Asked
  <2>3. /\ PortTyped' /\ port'.req = port.req /\ (port'.busy <=> ~port'.done)
        /\ StoreMem' = StoreMem /\ StoreOutputs' = StoreOutputs /\ ReadHolds' /\ inputs' = inputs
    BY <1>7, <2>1, <2>2, ReadEdge
  <2>4. /\ Effect(a) /\ done' \in BOOLEAN /\ r_data' \in Memory!Word
        /\ non_cached(a) => busy' /\ pending' = a
    BY <1>1, <1>8, <2>1, <2>3
  <2>5. /\ FillFrom(current.word)' = FillFrom(current.word) /\ next_current_word' = next_current_word
        /\ FillFrom(next_current_word)' = FillFrom(n)
    BY <1>2, <2>1 DEF FillFrom, ReadFrom, NoRequest, next_current_word
  <2>6. StateOk'
    BY <1>1, <1>2, <1>3, <1>4, <1>6, <2>1, <2>3, <2>4, <2>5 DEF StateOk
  <2>7. Held'
    <3>1. \A w \in Ways, s \in Sets : Arrived(w, s)' \subseteq Arrived(w, s)
      BY <1>1, <2>1 DEF Arrived, FillState
    <3> QED
      BY <1>1, <2>1, <2>3, <3>1, HeldKept DEF CInv
  <2> QED
    BY <1>1, <2>1, <2>3, <2>4, <2>6, <2>7 DEF Result, CInv, TypeOK, DataType
<1>10. CASE port.done
  <2>1. /\ data' = [data EXCEPT ![current.cache][current.block][current.word] = port.data]
        /\ current' = IF non_cached(a) THEN current ELSE [current EXCEPT !.word = n]
        /\ n # 0 => Memory!Edge(FillFrom(n)) /\ state' = "PHASE_2"
        /\ n = 0 => Memory!Edge(NoRequest) /\ state' = "IDLE"
    BY <1>1, <1>2, <1>10 DEF Fill, Store
  <2>2. /\ PortTyped' /\ (n # 0 => port'.req = FillFrom(n) /\ (port'.busy <=> ~port'.done))
        /\ n = 0 => ~port'.busy /\ ~port'.done
        /\ StoreMem' = StoreMem /\ StoreOutputs' = StoreOutputs /\ ReadHolds' /\ inputs' = inputs
        /\ StoreMem = mem
    <3>1. CASE n # 0
      <4>1. PICK q : q = FillFrom(n)
        OBVIOUS
      <4>2. q \in Memory!Access /\ q.rw = "r" /\ q.addr # IN_ADDR /\ Memory!Edge(q)
        BY <1>3, <1>5, <2>1, <3>1, <4>1
      <4>3. Asked(q) = q
        BY <1>7, <1>10 DEF Asked
      <4>4. /\ PortTyped' /\ port'.req = q /\ (port'.busy <=> ~port'.done)
            /\ StoreMem' = StoreMem /\ StoreOutputs' = StoreOutputs /\ StoreMem = mem
            /\ ReadHolds' /\ inputs' = inputs
        BY <1>7, <4>2, <4>3, ReadEdge
      <4> QED
        BY <3>1, <4>1, <4>4
    <3>2. CASE n = 0
      <4>1. /\ PortTyped' /\ ~port'.busy /\ ~port'.done
            /\ StoreMem' = mem /\ StoreOutputs' = outputs /\ inputs' = inputs
        BY <1>7, <1>10, <2>1, <3>2, EdgeIdle
      <4> QED
        BY <1>7, <1>10, <3>2, <4>1, StoreIs DEF ReadHolds
    <3> QED
      BY <3>1, <3>2
  <2>3. /\ Effect(a) /\ done' \in BOOLEAN /\ r_data' \in Memory!Word /\ state' \in States
        /\ non_cached(a) => busy' /\ pending' = a
    BY <1>8, <2>1, <2>2 DEF States
  <2>4. port.data = StoreMem[port.req.addr] /\ port.data \in Memory!Word
    BY <1>7, <1>10, <2>2 DEF CInv, ReadHolds, PortTyped, Port
  <2>5. data' \in DataType
    <3>1. data \in DataType
      BY DEF DataType, CInv, TypeOK
    <3>2. PICK d \in Memory!Word : d = port.data
      BY <2>4
    <3> QED
      BY <1>3, <2>1, <3>1, <3>2 DEF DataType
  <2>6. /\ current' \in Block /\ current'.critical = current.critical
        /\ current'.word = IF non_cached(a) THEN current.word ELSE n
        /\ current'.cache = current.cache /\ current'.block = current.block
        /\ current'.tag = current.tag
    BY <1>3, <1>5, <2>1 DEF Block
  <2>7. /\ \A k : FillFrom(k)' = FillFrom(k)
        /\ non_cached(a) => next_current_word' = n
    BY <1>2, <2>1, <2>6 DEF FillFrom, ReadFrom, NoRequest, next_current_word
  <2>8. StateOk'
    BY <1>1, <1>2, <1>3, <1>4, <1>5, <2>1, <2>2, <2>3, <2>6, <2>7 DEF StateOk, FillState
  <2>9. Held'
    <3> SUFFICES ASSUME NEW w \in Ways, NEW z \in Sets, valid'[w][z]
                 PROVE  /\ Apart(tag'[w][z], z)
                        /\ \A k \in Arrived(w, z)' : data'[w][z][k]
                              = StoreMem'[[tag |-> tag'[w][z], index |-> z, ws |-> k]]
      BY Zenon DEF Held, Apart
    <3>0. /\ Apart(tag[w][z], z)
          /\ \A k \in Arrived(w, z) :
                data[w][z][k] = StoreMem[[tag |-> tag[w][z], index |-> z, ws |-> k]]
      BY <1>1 DEF CInv, Held
    <3>1. CASE <<w, z>> = <<current.cache, current.block>>
      <4>1. Arrived(w, z) = {k \in Ws : k < current.word} \cup {current.critical}
        BY <1>1, <3>1 DEF Arrived
      <4>2. Arrived(w, z)' \subseteq Ws
        BY <1>3, <2>6 DEF Arrived
      <4>3. ASSUME NEW k \in Arrived(w, z)'
            PROVE  \/ k \in Arrived(w, z) /\ k # current.word
                   \/ k = current.word /\ port.req = FillFrom(current.word)
        <5>1. CASE n = 0
          <6>1. k < current.word \/ k = current.word \/ k = current.critical
            BY <1>5, <4>2, <5>1
          <6> QED
            BY <1>3, <1>4, <1>6, <4>1, <4>2, <5>1, <6>1 DEF Ws
        <5>2. CASE n # 0
          <6>1. Arrived(w, z)' = {i \in Ws : i < current'.word} \cup {current.critical}
            BY <2>1, <2>6, <3>1, <5>2 DEF Arrived, FillState
          <6>2. CASE non_cached(a)
            BY <1>3, <1>4, <2>6, <4>1, <6>1, <6>2 DEF Ws
          <6>3. CASE ~non_cached(a)
            <7>1. k < current.word \/ k = current.word \/ k = current.critical
              BY <1>5, <2>6, <6>1, <6>3
            <7> QED
              BY <1>3, <1>4, <1>6, <4>1, <4>2, <6>3, <7>1 DEF Ws
          <6> QED
            BY <6>2, <6>3
        <5> QED
          BY <5>1, <5>2
      <4>4. ASSUME NEW k \in Ws
            PROVE  data'[w][z][k] = IF k = current.word THEN port.data ELSE data[w][z][k]
        BY <1>3, <2>1, <3>1 DEF CInv, TypeOK
      <4>5. port.req = FillFrom(current.word) => port.data
              = StoreMem[[tag |-> current.tag, index |-> current.block, ws |-> current.word]]
        BY <1>3, <2>4
      <4> QED
        BY <1>1, <1>3, <2>2, <3>0, <3>1, <4>2, <4>3, <4>4, <4>5
    <3>2. CASE <<w, z>> # <<current.cache, current.block>>
      <4>1. Arrived(w, z)' = Arrived(w, z)
        BY <2>6, <3>2 DEF Arrived
      <4>2. data'[w][z] = data[w][z]
        BY <1>3, <2>1, <3>2 DEF CInv, TypeOK
      <4> QED
        BY <1>1, <2>2, <3>0, <4>1, <4>2
    <3> QED
      BY <3>1, <3>2
  <2> QED
    BY <2>2, <2>3, <2>5, <2>6, <2>8, <2>9 DEF Result
<1> QED
  BY <1>9, <1>10

LEMMA MachineResult ==
  ASSUME DevicesApart, CInv, NEW a \in Requests \cup {NoRequest}, busy => a = pending,
         Latched(a), Machine(a)
  PROVE  Result(a)
<1>1. a \in Memory!Access
  BY RequestTypes
<1> QED
  BY <1>1, QuietResult, ReadHitResult, ReadMissResult, ReadUncachedResult, WriteResult,
     AwaitCriticalResult, CriticalArrivesResult, UncachedArrivesResult, FillingResult,
     AwaitWriteResult DEF Machine

LEMMA CacheInit == Init => CInv
<1> SUFFICES ASSUME Init
             PROVE  CInv
  OBVIOUS
<1>1. port = Memory!Idle /\ mem = InitMem /\ inputs = 0 /\ outputs = [count |-> 0, last |-> 0]
  BY Zenon DEF Init, Memory!Init
<1>2. ~port.busy /\ ~port.done /\ port \in Port
  BY <1>1, Fields, PortTypes, Zenon
<1>3. PortTyped
  <2>1. 0 \in Memory!Byte
    BY CacheAssumption DEF Memory!Byte
  <2> QED
    BY <1>1, <1>2, <2>1, CacheAssumption DEF PortTyped
<1>4. TypeOK
  <2>1. 0 \in Ways /\ 0 \in Tags /\ 0 \in Sets /\ 0 \in Ws
    BY CacheAssumption DEF Ways, Tags, Sets, Ws
  <2>2. data \in [Ways -> [Sets -> [Ws -> Memory!Word \cup {Unknown}]]]
    BY DEF Init
  <2>3. current \in Block /\ tag \in [Ways -> [Sets -> Tags]]
        /\ valid \in [Ways -> [Sets -> BOOLEAN]]
        /\ recuse \in [Ways -> [Sets -> Ways]] /\ recent_use_counter \in [Sets -> Ways]
    BY <2>1 DEF Init, Block
  <2> QED
    BY <1>1, <2>2, <2>3, RequestTypes, CacheAssumption DEF Init, TypeOK, States
<1>5. LatchOk /\ StateOk /\ ReadHolds
  BY <1>2, RequestTypes DEF Init, LatchOk, StateOk, FillState, ReadHolds
<1>6. Held
  BY DEF Init, Held
<1> QED
  BY <1>3, <1>4, <1>5, <1>6, LookupsInit DEF CInv

(* An edge keeps the invariant, latches the access it looks at or answers  *)
(* it, and shows its effect.                                               *)
LEMMA ClockResult ==
  ASSUME DevicesApart, CInv, NEW r \in Requests \cup {NoRequest}, Clock(r)
  PROVE  CInv' /\ Latched(Looked(r)) /\ Effect(Looked(r))
<1>1. PICK a : a = Looked(r)
  OBVIOUS
<1>2. Machine(a) /\ Latch(r) /\ LatchOk /\ LookupsInv /\ WaysTyped
  BY <1>1 DEF Clock, Looked, CInv, LookupsInv
<1>3. /\ Latched(a) /\ a \in Requests \cup {NoRequest} /\ a \in Memory!Access
      /\ (busy => a = pending) /\ (done' \in BOOLEAN => LatchOk')
  BY <1>1, <1>2, LatchIs
<1>4. Result(a)
  BY <1>2, <1>3, MachineResult
<1>5. LookupsInv'
  BY <1>2, ClockWays, LookupsStep
<1>6. WaysTyped' /\ busy' \in BOOLEAN
  BY <1>3, <1>5 DEF LookupsInv, Latched
<1>7. TypeOK'
  BY <1>4, <1>6 DEF TypeOK, WaysTyped, Result, DataType, PortTyped
<1> QED
  BY <1>1, <1>3, <1>4, <1>5, <1>7 DEF CInv, Result

LEMMA CacheStep ==
  ASSUME DevicesApart
  PROVE  CInv /\ [Next]_vars => CInv'
<1>1. ASSUME CInv, Next
      PROVE  CInv'
  BY <1>1, ClockResult DEF Next
<1>2. ASSUME CInv, UNCHANGED vars
      PROVE  CInv'
  <2>1. LookupsInv'
    <3>1. WaysKept /\ pending' \in Memory!Access
      BY <1>2 DEF vars, wayVars, lruVars, WaysKept, CInv, LookupsInv, WaysTyped
    <3> QED
      BY <1>2, <3>1, LookupsStep DEF CInv
  <2>2. TypeOK' /\ PortTyped'
    BY <1>2 DEF vars, wayVars, lruVars, CInv, TypeOK, PortTyped
  <2>3. LatchOk' /\ ReadHolds'
    BY <1>2 DEF vars, wayVars, lruVars, CInv, LatchOk, ReadHolds
  <2>4. StateOk'
    BY <1>2 DEF vars, wayVars, lruVars, CInv, StateOk, FillState, FillFrom, ReadFrom, non_cached,
                next_current_word
  <2>5. Held'
    <3>1. StoreMem' = StoreMem
      BY <1>2 DEF vars, StoreMem, InFlight
    <3>2. \A w \in Ways, s \in Sets : Arrived(w, s)' \subseteq Arrived(w, s)
      BY <1>2 DEF vars, Arrived, FillState, non_cached
    <3> QED
      BY <1>2, <3>1, <3>2, HeldKept DEF CInv, vars, wayVars
  <2> QED
    BY <2>1, <2>2, <2>3, <2>4, <2>5 DEF CInv
<1> QED
  BY <1>1, <1>2

LEMMA HeldIsCoherent == CInv => Coherent /\ NeverCached
<1> SUFFICES ASSUME CInv
             PROVE  Coherent /\ NeverCached
  OBVIOUS
<1>1. \A w \in Ways, s \in Sets : Present(w, s) \subseteq Arrived(w, s)
  BY DEF Present, Arrived, FillState
<1>2. Coherent
  BY <1>1 DEF Coherent, CInv, Held
<1>3. IN_ADDR.index \in Sets
  BY CacheAssumption, RequestTypes
<1>4. NeverCached
  BY <1>3, CacheAssumption DEF CInv, Held, Apart, NeverCached
<1> QED
  BY <1>2, <1>4

(* For every number of ways, blocks and words, every order of fills, hits  *)
(* and writes and every program that reads no other word of a device's     *)
(* block: a word that can be served from the ways is the word in memory.   *)
THEOREM Coherence ==
  ASSUME DevicesApart
  PROVE  Spec => []Coherent
<1>1. CInv /\ [Next]_vars => CInv'
  BY CacheStep
<1>2. CInv => Coherent
  BY HeldIsCoherent
<1> QED
  BY <1>1, <1>2, CacheInit, PTL DEF Spec

(* ... and the uncached address is never in them.                          *)
THEOREM InputUncached ==
  ASSUME DevicesApart
  PROVE  Spec => []NeverCached
<1>1. CInv /\ [Next]_vars => CInv'
  BY CacheStep
<1>2. CInv => NeverCached
  BY HeldIsCoherent
<1> QED
  BY <1>1, <1>2, CacheInit, PTL DEF Spec

-----------------------------------------------------------------------------

(* The memory the client believes in has the operations of the one below.  *)
LEMMA SameOps ==
  /\ StoreInst!NoRequest = NoRequest /\ StoreInst!ZeroWord = Memory!ZeroWord
  /\ StoreInst!Idle = Memory!Idle
  /\ \A r : StoreInst!Busy(r) = Memory!Busy(r)
  /\ \A r, d : StoreInst!Done(r, d) = Memory!Done(r, d)
  /\ \A m, r : StoreInst!Written(m, r) = Memory!Written(m, r)
  /\ \A o, r : StoreInst!Shown(o, r) = Memory!Shown(o, r)
  /\ \A k, r : StoreInst!Consumed(k, r) = Memory!Consumed(k, r)
  /\ \A m, k, a : StoreInst!Value(m, k, a) = Memory!Value(m, k, a)
<1>1. StoreInst!Lanes = Memory!Lanes
  BY DEF StoreInst!Lanes, Memory!Lanes
<1>2. StoreInst!ZeroWord = Memory!ZeroWord
  BY <1>1 DEF StoreInst!ZeroWord, Memory!ZeroWord
<1>3. StoreInst!NoRequest = NoRequest
  BY <1>2 DEF StoreInst!NoRequest, NoRequest, Memory!NoRequest
<1>4. StoreInst!Idle = Memory!Idle /\ \A r : StoreInst!Busy(r) = Memory!Busy(r)
  BY <1>2, <1>3, Zenon
  DEF StoreInst!Idle, Memory!Idle, StoreInst!Busy, Memory!Busy, NoRequest
<1>5. \A r, d : StoreInst!Done(r, d) = Memory!Done(r, d)
  BY Zenon DEF StoreInst!Done, Memory!Done
<1>6. \A k : StoreInst!Next1(k) = Memory!Next1(k)
  BY DEF StoreInst!Next1, Memory!Next1
<1>7. \A a, b, c : StoreInst!Masked(a, b, c) = Memory!Masked(a, b, c)
  BY <1>1, Zenon DEF StoreInst!Masked, Memory!Masked
<1>8. \A m, r : StoreInst!Written(m, r) = Memory!Written(m, r)
  BY <1>7, Zenon DEF StoreInst!Written, Memory!Written
<1>9. \A o, r : StoreInst!Shown(o, r) = Memory!Shown(o, r)
  BY <1>6, Zenon DEF StoreInst!Shown, Memory!Shown
<1>10. \A k, r : StoreInst!Consumed(k, r) = Memory!Consumed(k, r)
  BY <1>6, Zenon DEF StoreInst!Consumed, Memory!Consumed
<1>11. \A k : StoreInst!Char(k) = Memory!Char(k)
  BY <1>1, Zenon DEF StoreInst!Char, Memory!Char
<1>12. \A m, k, a : StoreInst!Value(m, k, a) = Memory!Value(m, k, a)
  BY <1>11, Zenon DEF StoreInst!Value, Memory!Value
<1> QED
  BY <1>2, <1>3, <1>4, <1>5, <1>8, <1>9, <1>10, <1>12

(* An edge of the cache is an edge of the memory the client believes in.   *)
LEMMA ClockIsEdge ==
  ASSUME DevicesApart, CInv, NEW r \in Requests \cup {NoRequest}, Clock(r)
  PROVE  StoreInst!Edge(r)
<1>1. PICK a : a = Looked(r)
  OBVIOUS
<1>2. LatchOk /\ LatchOk' /\ Latched(a) /\ Effect(a)
  BY <1>1, ClockResult DEF CInv
<1>3. /\ busy => a = pending /\ StorePort.busy /\ StorePort.req = pending /\ a.rw # "none"
      /\ ~busy => a = r /\ ~StorePort.busy
  BY <1>1, <1>2, Zenon DEF LatchOk, Looked, StorePort
<1>4. CASE done'
  <2>1. a.rw # "none" /\ ~busy' /\ answered' = a
    BY <1>2, <1>4 DEF Effect, Latched
  <2>2. r_data' = IF a.rw = "r" THEN StoreInst!Value(StoreMem, StoreInputs, a.addr)
                  ELSE StoreInst!ZeroWord
    BY <1>2, <1>4, SameOps DEF Effect
  <2>3. (busy' <=> FALSE) /\ (done' <=> TRUE) /\ busy' \in BOOLEAN /\ done' \in BOOLEAN
    BY <1>2, <1>4, <2>1 DEF LatchOk
  <2>4. StorePort' = StoreInst!Done(a, r_data')
    <3>1. busy' = FALSE /\ done' = TRUE
      BY <2>3
    <3> QED
      BY <2>1, <3>1, Zenon DEF StorePort, StoreInst!Done
  <2>5. /\ StoreMem' = StoreInst!Written(StoreMem, a)
        /\ StoreInputs' = StoreInst!Consumed(StoreInputs, a)
        /\ StoreOutputs' = StoreInst!Shown(StoreOutputs, a)
    BY <1>2, <1>4, SameOps DEF Effect
  <2>6. StoreInst!Complete(a)
    BY <2>2, <2>4, <2>5, Zenon DEF StoreInst!Complete
  <2> QED
    BY <1>3, <2>1, <2>6, Zenon DEF StoreInst!Edge
<1>5. CASE ~done'
  <2>1. /\ r_data' = Memory!ZeroWord
        /\ UNCHANGED <<StoreMem, StoreInputs, StoreOutputs>>
    BY <1>2, <1>5 DEF Effect
  <2>2. done' = FALSE
    BY <1>2, <1>5 DEF LatchOk
  <2>3. CASE a.rw # "none"
    <3>1. busy' = TRUE /\ pending' = a
      BY <1>2, <1>5, <2>3 DEF Latched
    <3>2. StorePort' = StoreInst!Busy(a)
      BY <2>1, <2>2, <3>1, SameOps, Zenon DEF StorePort, Memory!Busy
    <3>3. StoreInst!Wait(a)
      BY <2>1, <3>2, Zenon DEF StoreInst!Wait
    <3> QED
      BY <1>3, <2>3, <3>3, Zenon DEF StoreInst!Edge
  <2>4. CASE a.rw = "none"
    <3>1. busy' = FALSE /\ pending' = NoRequest
      BY <1>2, <1>5, <2>4 DEF Latched
    <3>2. StorePort' = StoreInst!Idle
      BY <2>1, <2>2, <3>1, SameOps, Zenon DEF StorePort, Memory!Idle, NoRequest
    <3> QED
      BY <1>3, <2>1, <2>4, <3>2, Zenon DEF StoreInst!Edge
  <2> QED
    BY <2>3, <2>4
<1> QED
  BY <1>4, <1>5

(* The client cannot tell the cache from the memory: for every number of   *)
(* ways, blocks and words, every latency of the memory below and every     *)
(* program as above, each request is answered at most once and with the    *)
(* value last written, the uncached address reads the device, and each     *)
(* write takes effect once.                                                *)
THEOREM Refinement ==
  ASSUME DevicesApart
  PROVE  Spec => ImplementsMemory
<1>1. Init => StoreInst!Init
  <2> SUFFICES ASSUME Init
               PROVE  StoreInst!Init
    OBVIOUS
  <2>1. port = Memory!Idle /\ mem = InitMem /\ inputs = 0 /\ outputs = [count |-> 0, last |-> 0]
    BY Zenon DEF Init, Memory!Init
  <2>2. ~port.busy
    BY <2>1, Fields, Zenon
  <2>3. StorePort = StoreInst!Idle
    BY SameOps, Zenon DEF Init, StorePort, Memory!Idle, NoRequest
  <2>4. StoreMem = InitMem /\ StoreOutputs = [count |-> 0, last |-> 0]
    BY <2>1, <2>2, StoreIs
  <2>5. StoreInputs = 0
    BY <2>1 DEF Init, StoreInputs
  <2> QED
    BY <2>3, <2>4, <2>5, Zenon DEF StoreInst!Init
<1>2. CInv /\ [Next]_vars => [StoreInst!Next]_(StoreInst!portVars)
  <2> SUFFICES ASSUME CInv, [Next]_vars
               PROVE  [StoreInst!Next]_(StoreInst!portVars)
    OBVIOUS
  <2>1. CASE Next
    <3>1. PICK r \in Requests \cup {NoRequest} : Clock(r)
      BY <2>1 DEF Next
    <3>2. StoreInst!Edge(r) /\ r \in Requests \cup {StoreInst!NoRequest}
      BY <3>1, ClockIsEdge, SameOps
    <3> QED
      BY <3>2, Zenon DEF StoreInst!Next
  <2>2. CASE UNCHANGED vars
    <3>1. UNCHANGED <<StorePort, StoreMem, StoreInputs, StoreOutputs>>
      BY <2>2 DEF vars, StorePort, StoreMem, InFlight, StoreInputs, StoreOutputs, non_cached
    <3> QED
      BY <3>1 DEF StoreInst!portVars
  <2> QED
    BY <2>1, <2>2
<1>3. CInv /\ [Next]_vars => CInv'
  BY CacheStep
<1> QED
  BY <1>1, <1>2, <1>3, CacheInit, PTL DEF Spec, ImplementsMemory, StoreInst!Spec
=============================================================================
