------------------------------- MODULE Cache --------------------------------
(***************************************************************************)
(* Module Cache (Source/Cache.v), above the memory port it is wired to.    *)
(* An address is its three fields; an instance has WAYS ways of SETS       *)
(* blocks of WORDS words, filled critical word first, written through and  *)
(* not allocated by writes.  The address IN_ADDR (0x100) is not cached.    *)
(*                                                                         *)
(* Every action is one clock edge in one state of the machine and one case *)
(* of the access it looks at: the pending request while busy, the one the  *)
(* client presents now otherwise.                                          *)
(***************************************************************************)
EXTENDS Naturals, FiniteSets

CONSTANTS TAGS, SETS, WAYS, WORDS, LANES, BYTE, IN_ADDR, OUT_ADDR,
          Requests, InitMem

Tags == 0 .. TAGS - 1
Sets == 0 .. SETS - 1
Ways == 0 .. WAYS - 1
Ws   == 0 .. WORDS - 1
WordAddr == [tag : Tags, index : Sets, ws : Ws]

VARIABLES
    busy, pending,              \* the latched request
    done, r_data,               \* the answer; r_data is r_data_o while done
    state,
    current,                    \* the block being filled
    tag, valid, data,           \* the ways
    recuse, recent_use_counter, \* the ages the victim is chosen by
    port, mem, inputs, outputs, \* the memory below
    answered                    \* history: the request that done answers

Memory == INSTANCE MemoryPort WITH Addr <- WordAddr

ASSUME CacheAssumption ==
    /\ TAGS \in Nat \ {0} /\ SETS \in Nat \ {0} /\ WAYS \in Nat \ {0}
    /\ WORDS \in Nat \ {0, 1} /\ LANES \in Nat \ {0} /\ BYTE \in Nat \ {0}
    /\ IN_ADDR \in WordAddr /\ OUT_ADDR \in WordAddr
    /\ Requests \subseteq Memory!Access
    /\ InitMem \in [WordAddr -> Memory!Word]

lruVars == <<recuse, recent_use_counter>>
wayVars == <<tag, valid, data>>
vars == <<busy, pending, done, r_data, state, current, wayVars, lruVars,
          port, mem, inputs, outputs, answered>>

States == {"IDLE", "PHASE_1", "PHASE_2", "WRITE"}
Block  == [cache : Ways, tag : Tags, block : Sets, word : Ws, critical : Ws]

NoRequest == Memory!NoRequest
Unknown   == [l \in Memory!Lanes |-> BYTE]      \* a word of RAM never written

Init ==
    /\ busy = FALSE /\ pending = NoRequest /\ answered = NoRequest
    /\ done = FALSE /\ r_data = Memory!ZeroWord
    /\ state = "IDLE"
    /\ current = [cache |-> 0, tag |-> 0, block |-> 0, word |-> 0, critical |-> 0]
    /\ tag = [w \in Ways |-> [s \in Sets |-> 0]]
    /\ valid = [w \in Ways |-> [s \in Sets |-> FALSE]]
    /\ data = [w \in Ways |-> [s \in Sets |-> [k \in Ws |-> Unknown]]]
    /\ recuse = [w \in Ways |-> [s \in Sets |-> 0]]
    /\ recent_use_counter = [s \in Sets |-> 0]
    /\ Memory!Init

-----------------------------------------------------------------------------

non_cached(r) == r.rw # "none" /\ r.addr = IN_ADDR

found_in_cache(r) ==
    {w \in Ways : valid[w][r.addr.index] /\ tag[w][r.addr.index] = r.addr.tag}

hit(r) == found_in_cache(r) # {}
way(r) == CHOOSE w \in found_in_cache(r) : TRUE
Cached(r) == data[way(r)][r.addr.index][r.addr.ws]

(* Ages and counters are as wide as a way number: they wrap at WAYS. *)
age(w, s) == (recent_use_counter[s] + WAYS - recuse[w][s]) % WAYS

(* The trees prefer the lower way for the largest age and the higher way   *)
(* for the smallest.                                                       *)
lru_id(s) == CHOOSE w \in Ways : \A v \in Ways :
                age(v, s) < age(w, s) \/ (age(v, s) = age(w, s) /\ w <= v)
mru_id(s) == CHOOSE w \in Ways : \A v \in Ways :
                age(w, s) < age(v, s) \/ (age(v, s) = age(w, s) /\ v <= w)

use_cacheOld(w, s) ==                                            \* mutant
    IF w = mru_id(s) THEN UNCHANGED lruVars
    ELSE LET now == (recent_use_counter[s] + 1) % WAYS
         IN  /\ recent_use_counter' = [recent_use_counter EXCEPT ![s] = now]
             /\ recuse' = [recuse EXCEPT ![w][s] = recent_use_counter[s]]

use_cache(w, s) ==
    IF w = mru_id(s) THEN UNCHANGED lruVars
    ELSE LET now == (recent_use_counter[s] + 1) % WAYS
         IN  /\ recent_use_counter' = [recent_use_counter EXCEPT ![s] = now]
             /\ recuse' = [recuse EXCEPT ![w][s] = now]

Answer(d) == done' = TRUE /\ r_data' = d
NoAnswer  == done' = FALSE /\ r_data' = Memory!ZeroWord

(* A read served from the ways.  For the uncached address neither the age  *)
(* nor RAM_r_select is updated and non_cached_data is cleared.             *)
ServeHit(r) ==
    IF non_cached(r) THEN Answer(Memory!ZeroWord) /\ UNCHANGED lruVars
    ELSE Answer(Cached(r)) /\ use_cache(way(r), r.addr.index)

Store(w, s, k, d) == data' = [data EXCEPT ![w][s][k] = d]

ReadFrom(a) == [NoRequest EXCEPT !.rw = "r", !.addr = a]
FillFrom(k) == ReadFrom([tag |-> current.tag, index |-> current.block, ws |-> k])

-----------------------------------------------------------------------------
(* STATE_IDLE.                                                             *)

Quiet(r) ==
    /\ state = "IDLE" /\ r.rw = "none"
    /\ NoAnswer
    /\ Memory!Edge(NoRequest)
    /\ UNCHANGED <<state, current, wayVars, lruVars>>

ReadHit(r) ==
    /\ state = "IDLE" /\ r.rw = "r" /\ hit(r)
    /\ ServeHit(r)
    /\ Memory!Edge(NoRequest)
    /\ UNCHANGED <<state, current, wayVars>>

(* The victim is valid under its new tag at once, before any word of it    *)
(* has arrived.                                                            *)
ReadMiss(r) ==
    /\ state = "IDLE" /\ r.rw = "r" /\ ~hit(r) /\ ~non_cached(r)
    /\ LET s == r.addr.index
           v == lru_id(s)
       IN  /\ current' = [cache |-> v, tag |-> r.addr.tag, block |-> s,
                          word |-> r.addr.ws, critical |-> r.addr.ws]
           /\ valid' = [valid EXCEPT ![v][s] = TRUE]
           /\ tag' = [tag EXCEPT ![v][s] = r.addr.tag]
    /\ state' = "PHASE_1"
    /\ NoAnswer
    /\ Memory!Edge(ReadFrom(r.addr))
    /\ UNCHANGED <<data, lruVars>>

ReadUncached(r) ==
    /\ state = "IDLE" /\ r.rw = "r" /\ ~hit(r) /\ non_cached(r)
    /\ state' = "PHASE_1"
    /\ NoAnswer
    /\ Memory!Edge(ReadFrom(r.addr))
    /\ UNCHANGED <<current, wayVars, lruVars>>

WriteNoUpdate(r) ==                                              \* mutant
    /\ state = "IDLE" /\ r.rw = "w"
    /\ UNCHANGED data
    /\ state' = "WRITE"
    /\ Answer(Memory!ZeroWord)
    /\ Memory!Edge(r)
    /\ UNCHANGED <<current, tag, valid, lruVars>>

(* A write is answered at once; the memory is waited for afterwards.       *)
Write(r) ==
    /\ state = "IDLE" /\ r.rw = "w"
    /\ IF hit(r)
       THEN Store(way(r), r.addr.index, r.addr.ws,
                  Memory!Masked(Cached(r), r.w_data, r.mask))
       ELSE UNCHANGED data
    /\ state' = "WRITE"
    /\ Answer(Memory!ZeroWord)
    /\ Memory!Edge(r)
    /\ UNCHANGED <<current, tag, valid, lruVars>>

-----------------------------------------------------------------------------
(* STATE_WAIT_FOR_r_PHASE_1: the critical word is on its way.              *)

AwaitCritical(r) ==
    /\ state = "PHASE_1" /\ ~port.done
    /\ NoAnswer
    /\ Memory!Edge(NoRequest)
    /\ UNCHANGED <<state, current, wayVars, lruVars>>

(* The word is stored; the request itself is served in PHASE_2. *)
CriticalArrives(r) ==
    /\ state = "PHASE_1" /\ port.done /\ ~non_cached(r)
    /\ LET next == IF current.critical = 0 THEN 1 ELSE 0
       IN  /\ current' = [current EXCEPT !.word = next]
           /\ Memory!Edge(FillFrom(next))
    /\ Store(current.cache, current.block, current.word, port.data)
    /\ state' = "PHASE_2"
    /\ NoAnswer
    /\ UNCHANGED <<tag, valid, lruVars>>

UncachedArrives(r) ==
    /\ state = "PHASE_1" /\ port.done /\ non_cached(r)
    /\ Answer(port.data)
    /\ state' = "IDLE"
    /\ Memory!Edge(NoRequest)
    /\ UNCHANGED <<current, wayVars, lruVars>>

-----------------------------------------------------------------------------
(* STATE_WAIT_FOR_r_PHASE_2: the other words follow in order, and reads    *)
(* that need none of the missing ones are served.                          *)

next_current_word ==
    (IF current.critical = current.word + 1 THEN current.word + 2
     ELSE current.word + 1) % WORDS

(* The registers of the fill are not clocked while the access looked at is *)
(* the uncached address, but the memory request is made all the same.      *)
Fill(r) ==
    IF ~port.done
    THEN /\ Memory!Edge(NoRequest)
         /\ UNCHANGED <<state, current, data>>
    ELSE /\ Store(current.cache, current.block, current.word, port.data)
         /\ current' = IF non_cached(r) THEN current
                       ELSE [current EXCEPT !.word = next_current_word]
         /\ IF next_current_word # 0
            THEN Memory!Edge(FillFrom(next_current_word)) /\ UNCHANGED state
            ELSE Memory!Edge(NoRequest) /\ state' = "IDLE"

InFill(r) == way(r) = current.cache /\ r.addr.index = current.block

ServedDuringFillEarly(r) ==                                      \* mutant
    r.rw = "r" /\ hit(r) /\ (InFill(r) => r.addr.ws <= current.word)
ServedDuringFill(r) ==
    r.rw = "r" /\ hit(r) /\ (InFill(r) => r.addr.ws < current.word)

Filling(r) ==
    /\ state = "PHASE_2"
    /\ Fill(r)
    /\ IF ServedDuringFill(r) THEN ServeHit(r) ELSE NoAnswer /\ UNCHANGED lruVars
    /\ UNCHANGED <<tag, valid>>

-----------------------------------------------------------------------------
(* STATE_WAIT_FOR_WRITE.                                                   *)

AwaitWriteDeaf(r) ==                                             \* mutant
    /\ state = "WRITE"
    /\ state' = IF port.done /\ r.rw = "none" THEN "IDLE" ELSE "WRITE"
    /\ NoAnswer
    /\ Memory!Edge(NoRequest)
    /\ UNCHANGED <<current, wayVars, lruVars>>

AwaitWrite(r) ==
    /\ state = "WRITE"
    /\ state' = IF port.done THEN "IDLE" ELSE "WRITE"
    /\ NoAnswer
    /\ Memory!Edge(NoRequest)
    /\ UNCHANGED <<current, wayVars, lruVars>>

-----------------------------------------------------------------------------

(* A request that is not answered at the edge that presents it is latched; *)
(* pending is read only while busy.                                        *)
Latch(r) ==
    LET a == IF busy THEN pending ELSE r
    IN  /\ busy' = (a.rw # "none" /\ ~done')
        /\ pending' = IF a.rw # "none" /\ ~done' THEN a ELSE NoRequest
        /\ answered' = IF done' THEN a ELSE NoRequest

Machine(a) ==
    \/ Quiet(a) \/ ReadHit(a) \/ ReadMiss(a) \/ ReadUncached(a) \/ Write(a)
    \/ AwaitCritical(a) \/ CriticalArrives(a) \/ UncachedArrives(a)
    \/ Filling(a) \/ AwaitWrite(a)

(* A clock edge at which the client presents r.  IF and ME present a       *)
(* request only while the port is neither busy nor answering.              *)
Clock(r) ==
    /\ r.rw # "none" => ~busy /\ ~done
    /\ Machine(IF busy THEN pending ELSE r)
    /\ Latch(r)

Next == \E r \in Requests \cup {NoRequest} : Clock(r)

Spec == Init /\ [][Next]_vars

(* The clock runs and the memory below answers what it was asked. *)
MemoryAnswers == Next /\ port.busy /\ port'.done
FairSpec == Spec /\ WF_vars(Next) /\ WF_vars(MemoryAnswers)
-----------------------------------------------------------------------------

(* Every register holds a value of its width. *)
TypeOK ==
    /\ busy \in BOOLEAN /\ pending \in Memory!Access
    /\ done \in BOOLEAN /\ r_data \in Memory!Word
    /\ state \in States /\ current \in Block
    /\ tag \in [Ways -> [Sets -> Tags]]
    /\ valid \in [Ways -> [Sets -> BOOLEAN]]
    /\ data \in [Ways -> [Sets -> [Ws -> Memory!Word \cup {Unknown}]]]
    /\ recuse \in [Ways -> [Sets -> Ways]]
    /\ recent_use_counter \in [Sets -> Ways]
    /\ mem \in [WordAddr -> Memory!Word]

(* Memory and ports as the client believes them to be: a write it was told *)
(* is done may still be on its way down, a character it was not given yet  *)
(* may already be taken from the input.                                    *)
InFlight == IF port.busy THEN port.req ELSE NoRequest

StoreMem     == Memory!Written(mem, InFlight)
StoreOutputs == Memory!Shown(outputs, InFlight)
StoreInputs  == IF state = "PHASE_1" /\ port.done /\ non_cached(pending)
                THEN port.data[0] ELSE inputs
StorePort    == [busy |-> busy, done |-> done, data |-> r_data,
                 req |-> IF done THEN answered ELSE pending]

(* The words of a valid block that have arrived. *)
Present(w, s) ==
    IF state \notin {"PHASE_1", "PHASE_2"} \/ <<w, s>> # <<current.cache, current.block>>
    THEN Ws
    ELSE IF state = "PHASE_1" THEN {}
    ELSE {k \in Ws : k < current.word} \cup {current.critical}

(* Whatever the interleaving of fills, hits and writes, registers keep to  *)
(* their widths and a word that can be served from the ways is the word in *)
(* memory.                                                                 *)
Coherent ==
    /\ TypeOK
    /\ \A w \in Ways, s \in Sets : valid[w][s] =>
          \A k \in Present(w, s) :
              data[w][s][k] = StoreMem[[tag |-> tag[w][s], index |-> s, ws |-> k]]

OneHot ==
    \A s \in Sets : \A v, w \in Ways :
        valid[v][s] /\ valid[w][s] /\ tag[v][s] = tag[w][s] => v = w

MostRecentIsCurrent ==
    \A s \in Sets : recuse[mru_id(s)][s] = recent_use_counter[s]

(* What the look-ups take for granted although the ages wrap: at most one  *)
(* way holds a tag (one_hot_lookup), and some way always has age zero, so  *)
(* the most recent way the tree finds carries the counter (the assertion   *)
(* in use_cache).                                                          *)
LookupsHold == OneHot /\ MostRecentIsCurrent

(* The uncached address is never held in the ways.                         *)
NeverCached ==
    \A w \in Ways : ~(valid[w][IN_ADDR.index] /\ tag[w][IN_ADDR.index] = IN_ADDR.tag)

(* The client cannot tell the cache from the memory: every request is      *)
(* answered once, reads return the last value written, the uncached        *)
(* address reads the device, and every write reaches memory once.          *)
StoreInst == INSTANCE MemoryPort
    WITH Addr <- WordAddr, port <- StorePort, mem <- StoreMem, inputs <- StoreInputs,
         outputs <- StoreOutputs
ImplementsMemory == StoreInst!Spec

(* Every request is answered. *)
Answered == busy ~> done

(* Every request is answered, unless the uncached address is asked for     *)
(* while a block is being filled: the one way the cache can lock up.       *)
Frozen == state = "PHASE_2" /\ non_cached(pending)
AnsweredUnlessFrozen == busy ~> (done \/ Frozen)
=============================================================================
