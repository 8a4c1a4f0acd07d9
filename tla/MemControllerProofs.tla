------------------------- MODULE MemControllerProofs -------------------------
(***************************************************************************)
(* What holds of the memory controller for every set of addresses, every   *)
(* number of clients and every depth of the channel, and of the PC behind  *)
(* it for every size of memory, every image and every program.             *)
(***************************************************************************)
EXTENDS MemController, Environment, SequenceTheorems, FiniteSetTheorems, WellFoundedInduction, TLAPS

USE DEF Ports, NO_PORT

(* A set of natural numbers that is not empty has a least element.         *)
LEMMA Least ==
  ASSUME NEW S \in SUBSET Nat, S # {}
  PROVE  \E n \in S : \A m \in S : n <= m
<1> DEFINE Upto(n) == 1 .. n
           T == {Upto(n) : n \in S}
<1>1. T \subseteq FiniteSubsetsOf(Nat)
  <2>1. \A n \in Nat : IsFiniteSet(1 .. n)
    BY FS_Interval
  <2> QED
    BY <2>1 DEF FiniteSubsetsOf
<1>2. T # {}
  OBVIOUS
<1> HIDE DEF T
<1>3. PICK x \in T : \A y \in T : ~(<<y, x>> \in StrictSubsetOrdering(Nat))
  BY <1>1, <1>2, FS_StrictSubsetOrderingWellFounded, WFMin
<1>4. PICK n \in S : x = Upto(n)
  BY DEF T
<1>5. ASSUME NEW m \in S, m < n
      PROVE  FALSE
  <2>1. Upto(m) \subseteq Upto(n) /\ Upto(m) # Upto(n)
          /\ Upto(m) \in SUBSET Nat /\ Upto(n) \in SUBSET Nat
    BY <1>5
  <2>2. <<Upto(m), Upto(n)>> \in StrictSubsetOrdering(Nat)
    BY <2>1 DEF StrictSubsetOrdering
  <2> QED
    BY <2>2, <1>3, <1>4 DEF T
<1> QED
  BY <1>5

-----------------------------------------------------------------------------

(* The inputs of a clock edge: a client asks only while its port is free.  *)
Inputs == {rs \in [Ports -> Requests \cup {NoRequest}] :
              \A i \in Ports : rs[i].rw # "none" => ~busy[i]}

LEMMA RequestTypes ==
  /\ NoRequest \in Access /\ Requests \cup {NoRequest} \subseteq Access
  /\ ZeroWord \in Word /\ NoRequest.rw = "none" /\ 0 \in Lanes /\ 0 \in Byte
BY ControllerAssumption DEF NoRequest, Access, ZeroWord, Word, Lanes, Byte

(* wait_port is a port that asks, whenever there is one.                   *)
LEMMA WaitPort ==
  ASSUME NEW rs
  PROVE  LET w == wait_port(rs)
         IN  /\ w \in Ports \cup {NO_PORT}
             /\ w # NO_PORT => Asked(w, rs[w]).rw # "none"
             /\ w = NO_PORT => \A i \in Ports : Asked(i, rs[i]).rw = "none"
<1> DEFINE asking == {i \in Ports : Asked(i, rs[i]).rw # "none"}
<1>1. CASE asking = {}
  BY <1>1, ControllerAssumption DEF wait_port
<1>2. CASE asking # {}
  <2> asking \in SUBSET Nat
    BY ControllerAssumption
  <2>1. \E i \in asking : \A j \in asking : i <= j
    <3> HIDE DEF asking
    <3> QED
      BY <1>2, Least
  <2>2. wait_port(rs) \in asking
    BY <1>2, <2>1 DEF wait_port
  <2> QED
    BY <2>2, ControllerAssumption
<1> QED
  BY <1>1, <1>2

(* The effects of an access on the environment keep to their types.        *)
LEMMA EffectTypes ==
  ASSUME NEW m \in [Addr -> Word], NEW o \in [count : Byte, last : Byte], NEW k \in Byte,
         NEW r \in Access
  PROVE  /\ Written(m, r) \in [Addr -> Word]
         /\ Shown(o, r) \in [count : Byte, last : Byte]
         /\ Consumed(k, r) \in Byte
         /\ Value(m, k, r.addr) \in Word
<1>1. ASSUME NEW x \in Byte
      PROVE  Next1(x) \in Byte
  BY ControllerAssumption DEF Next1, Byte
<1>2. Written(m, r) \in [Addr -> Word]
  BY DEF Written, Masked, Word, Access
<1>3. Shown(o, r) \in [count : Byte, last : Byte]
  BY <1>1, RequestTypes DEF Shown, Word, Access
<1>4. Consumed(k, r) \in Byte
  BY <1>1 DEF Consumed
<1>5. Value(m, k, r.addr) \in Word
  BY RequestTypes DEF Value, Char, Word, Access
<1> QED
  BY <1>2, <1>3, <1>4, <1>5

-----------------------------------------------------------------------------

(* The conjuncts of OneReadUnderWay, and a clock edge in two parts.        *)
ReadLast ==
  \A k \in 1 .. Len(requestq) : requestq[k].rw = "r" => k = Len(requestq) /\ responseq = <<>>
WaitsForRead ==
  (state = "WAIT") <=>
      (responseq # <<>> \/ \E k \in 1 .. Len(requestq) : requestq[k].rw = "r")
ServesWhileWaiting == (state = "WAIT") <=> (serv_port # NO_PORT)
BusyIsAsked ==
  \A i \in Ports : busy[i] <=> (pending[i].rw # "none" \/ serv_port = i)

Acts(rs) == Hold(rs) \/ SendWrite(rs) \/ SendRead(rs) \/ AwaitResponse(rs) \/ Receive(rs)
Answered(rs) ==
  answered' = IF \E i \in Ports : done'[i]
              THEN IF state = "WAIT" THEN UnderWay
                   ELSE LET w == wait_port(rs) IN IF busy[w] THEN pending[w] ELSE rs[w]
              ELSE NoRequest

LEMMA ClockIsActs == Clock <=> \E rs \in Inputs : Acts(rs) /\ Answered(rs)
BY DEF Clock, Inputs, Acts, Answered

(* A sequence that is not empty and has at most one element has one.       *)
LEMMA Single ==
  ASSUME NEW S, NEW q \in Seq(S), q # <<>>, Len(q) <= 1
  PROVE  Len(q) = 1 /\ Tail(q) = <<>> /\ Len(Tail(q)) = 0
<1>1. Len(q) = 1
  <2>1. PICK n \in Nat : n = Len(q)
    BY LenProperties
  <2>2. n # 0 /\ n <= 1
    BY <2>1, EmptySeq
  <2>3. n = 1
    BY <2>2
  <2> QED
    BY <2>1, <2>3
<1>2. Tail(q) \in Seq(S) /\ Len(Tail(q)) = 0
  BY <1>1
<1> QED
  BY <1>1, <1>2, EmptySeq

(* What set_pending and set_busy keep.                                     *)
LEMMA SetTypes ==
  ASSUME TypeOK, NEW rs \in Inputs, NEW S
  PROVE  /\ set_pending(rs, S) \in [Ports -> Access]
         /\ set_busy(rs, S) \in [Ports -> BOOLEAN]
         /\ rs \in [Ports -> Access]
<1>1. rs \in [Ports -> Access]
  BY RequestTypes DEF Inputs
<1> QED
  BY <1>1 DEF TypeOK, set_pending, set_busy

(* A read is under way while the controller waits.                         *)
LEMMA UnderWayIs ==
  ASSUME OneReadUnderWay, state = "WAIT"
  PROVE  UnderWay \in Access /\ UnderWay = IF responseq # <<>> THEN responseq[1].req
                                             ELSE requestq[Len(requestq)]
<1>1. UnderWay = IF responseq # <<>> THEN responseq[1].req ELSE requestq[Len(requestq)]
  BY DEF UnderWay, OneReadUnderWay, TypeOK
<1>2. CASE responseq # <<>>
  <2>1. responseq[1] \in Response
    BY <1>2 DEF OneReadUnderWay, TypeOK
  <2> QED
    BY <1>1, <1>2, <2>1 DEF Response
<1>3. CASE responseq = <<>>
  <2>1. Len(requestq) \in 1 .. Len(requestq)
    BY <1>3 DEF OneReadUnderWay, TypeOK
  <2> QED
    BY <1>1, <1>3, <2>1 DEF OneReadUnderWay, TypeOK
<1> QED
  BY <1>1, <1>2, <1>3

(* Type correctness of an edge.                                            *)
LEMMA ClockTypes ==
  ASSUME OneReadUnderWay, NEW rs \in Inputs, Acts(rs), Answered(rs)
  PROVE  TypeOK'
<1> USE DEF TypeOK
<1>1. TypeOK /\ rs \in [Ports -> Access]
  BY SetTypes DEF OneReadUnderWay
<1>2. NoneDone \in [Ports -> BOOLEAN]
  BY DEF NoneDone
<1>3. PICK w : w = wait_port(rs)
  OBVIOUS
<1>4. /\ w # NO_PORT => w \in Ports /\ Asked(w, rs[w]) \in Access
      /\ w \in Ports \cup {NO_PORT}
  BY <1>1, <1>3, WaitPort DEF Asked
<1>5. answered' \in Access
  <2>1. CASE state = "WAIT"
    BY <2>1, UnderWayIs, RequestTypes DEF Answered
  <2>2. CASE state # "WAIT" /\ w = NO_PORT
    <3>1. Hold(rs)
      BY <2>2, <1>1, <1>3 DEF Acts, SendWrite, SendRead, AwaitResponse, Receive
    <3>2. \A i \in Ports : ~done'[i]
      BY <3>1 DEF Hold, NoneDone
    <3> QED
      BY <3>2, RequestTypes DEF Answered
  <2>3. CASE state # "WAIT" /\ w # NO_PORT
    BY <2>3, <1>1, <1>3, <1>4, RequestTypes DEF Answered
  <2> QED
    BY <2>1, <2>2, <2>3
<1>6. CASE Hold(rs)
  BY <1>1, <1>2, <1>5, <1>6, SetTypes DEF Hold, channelVars, envVars
<1>7. CASE SendWrite(rs) \/ SendRead(rs)
  <2>1. w \in Ports /\ Asked(w, rs[w]) \in Access /\ requestq' = Append(requestq, Asked(w, rs[w]))
        /\ Len(requestq) < QUEUE
    BY <1>3, <1>4, <1>7 DEF SendWrite, SendRead, sendable
  <2>2. requestq' \in Seq(Access) /\ Len(requestq') <= QUEUE
    BY <1>1, <2>1, ControllerAssumption
  <2>3. CASE SendWrite(rs)
    BY <1>1, <1>2, <1>3, <1>5, <2>1, <2>2, <2>3, SetTypes, RequestTypes DEF SendWrite, envVars
  <2>4. CASE SendRead(rs)
    BY <1>1, <1>2, <1>3, <1>5, <2>1, <2>2, <2>4, SetTypes, RequestTypes DEF SendRead, envVars
  <2> QED
    BY <1>7, <2>3, <2>4
<1>8. CASE AwaitResponse(rs)
  BY <1>1, <1>2, <1>5, <1>8, SetTypes DEF AwaitResponse, channelVars, envVars
<1>9. CASE Receive(rs)
  <2>1. serv_port \in Ports /\ responseq # <<>>
    BY <1>9, <1>1 DEF Receive, OneReadUnderWay, ServesWhileWaiting, receivable
  <2>2. Tail(responseq) \in Seq(Response) /\ Head(responseq) \in Response
    BY <1>1, <2>1
  <2>3. Head(responseq).data \in Word
    BY <2>2 DEF Response
  <2> QED
    BY <1>1, <1>2, <1>5, <1>9, <2>1, <2>2, <2>3, SetTypes, RequestTypes DEF Receive, envVars
<1> QED
  BY <1>6, <1>7, <1>8, <1>9 DEF Acts

LEMMA Parts ==
  /\ OneReadUnderWay <=> /\ TypeOK /\ Len(responseq) <= 1
                         /\ ReadLast /\ WaitsForRead /\ ServesWhileWaiting /\ BusyIsAsked
  /\ OneReadUnderWay' <=> /\ TypeOK' /\ Len(responseq') <= 1
                          /\ ReadLast' /\ WaitsForRead' /\ ServesWhileWaiting' /\ BusyIsAsked'
BY DEF OneReadUnderWay, ReadLast, WaitsForRead, ServesWhileWaiting, BusyIsAsked

(* The packet that an edge sends is a read, and the last one, or a write.  *)
LEMMA Appended ==
  ASSUME OneReadUnderWay, state = "IDLE", NEW r \in Access, requestq' = Append(requestq, r),
         responseq' = responseq, state' \in {"IDLE", "WAIT"},
         r.rw \in {"r", "w"}, (state' = "WAIT") <=> (r.rw = "r")
  PROVE  Len(responseq') <= 1 /\ ReadLast' /\ WaitsForRead'
<1>1. /\ responseq = <<>>
      /\ \A k \in 1 .. Len(requestq) : requestq[k].rw # "r"
      /\ requestq \in Seq(Access)
  BY DEF OneReadUnderWay, TypeOK
<1>2. /\ Len(requestq') = Len(requestq) + 1
      /\ \A k \in 1 .. Len(requestq) : requestq'[k] = requestq[k]
      /\ requestq'[Len(requestq) + 1] = r
  BY <1>1
<1>3. \A k \in 1 .. Len(requestq') : requestq'[k].rw = "r" <=> k = Len(requestq') /\ r.rw = "r"
  BY <1>1, <1>2
<1> QED
  BY <1>1, <1>2, <1>3 DEF ReadLast, WaitsForRead

LEMMA ClockInvariant ==
  ASSUME OneReadUnderWay, NEW rs \in Inputs, Acts(rs), Answered(rs)
  PROVE  OneReadUnderWay'
<1>1. TypeOK' /\ TypeOK /\ Len(responseq) <= 1
      /\ ReadLast /\ WaitsForRead /\ ServesWhileWaiting /\ BusyIsAsked
  BY ClockTypes, Parts
<1>2. \A i \in Ports : rs[i].rw # "none" => ~busy[i]
  BY DEF Inputs
<1>3. PICK w : w = wait_port(rs)
  OBVIOUS
<1>4. w # NO_PORT => w \in Ports /\ Asked(w, rs[w]) \in Access /\ Asked(w, rs[w]).rw # "none"
  BY <1>1, <1>3, WaitPort, SetTypes DEF Asked, TypeOK
<1>5. CASE Hold(rs) \/ AwaitResponse(rs)
  <2>1. UNCHANGED <<state, serv_port, requestq, responseq>>
        /\ pending' = set_pending(rs, Ports) /\ busy' = set_busy(rs, Ports)
    BY <1>5 DEF Hold, AwaitResponse, channelVars
  <2>2. BusyIsAsked'
    BY <1>1, <1>2, <2>1 DEF BusyIsAsked, set_pending, set_busy, TypeOK
  <2> QED
    BY <1>1, <2>1, <2>2, Parts DEF ReadLast, WaitsForRead, ServesWhileWaiting
<1>6. CASE SendWrite(rs)
  <2>1. Len(responseq') <= 1 /\ ReadLast' /\ WaitsForRead'
    BY <1>3, <1>4, <1>6, Appended DEF SendWrite
  <2>2. ServesWhileWaiting' /\ serv_port = NO_PORT
    BY <1>1, <1>6 DEF SendWrite, ServesWhileWaiting
  <2>3. BusyIsAsked'
    BY <1>1, <1>2, <1>3, <1>4, <1>6, <2>2, ControllerAssumption, RequestTypes
    DEF SendWrite, BusyIsAsked, set_pending, set_busy, TypeOK
  <2> QED
    BY <1>1, <2>1, <2>2, <2>3, Parts
<1>7. CASE SendRead(rs)
  <2>1. Len(responseq') <= 1 /\ ReadLast' /\ WaitsForRead'
    BY <1>3, <1>4, <1>7, Appended DEF SendRead
  <2>2. ServesWhileWaiting' /\ serv_port = NO_PORT /\ serv_port' = w /\ w \in Ports
    BY <1>1, <1>3, <1>4, <1>7, ControllerAssumption DEF SendRead, ServesWhileWaiting
  <2>3. ASSUME NEW i \in Ports
        PROVE  busy'[i] <=> (pending'[i].rw # "none" \/ serv_port' = i)
    <3>1. CASE i = w
      BY <1>1, <1>3, <1>7, <2>2, <3>1, SetTypes DEF SendRead
    <3>2. CASE i # w
      <4>1. busy'[i] = set_busy(rs, Ports \ {w})[i]
            /\ pending'[i] = set_pending(rs, Ports \ {w})[i]
        BY <1>1, <1>3, <1>7, <3>2, SetTypes DEF SendRead
      <4>2. busy[i] <=> pending[i].rw # "none"
        BY <1>1, <2>2, ControllerAssumption DEF BusyIsAsked
      <4> QED
        BY <1>2, <2>2, <3>2, <4>1, <4>2 DEF set_pending, set_busy
    <3> QED
      BY <3>1, <3>2
  <2> QED
    BY <1>1, <2>1, <2>2, <2>3, Parts DEF BusyIsAsked
<1>8. CASE Receive(rs)
  <2>1. responseq # <<>> /\ responseq' = Tail(responseq) /\ requestq' = requestq
        /\ state' = "IDLE" /\ serv_port' = NO_PORT
    BY <1>8 DEF Receive, receivable
  <2>2. responseq' = <<>> /\ Len(responseq') = 0
    BY <1>1, <2>1, Single DEF TypeOK
  <2>3. \A k \in 1 .. Len(requestq) : requestq[k].rw # "r"
    BY <1>1, <2>1 DEF ReadLast
  <2>4. ReadLast' /\ WaitsForRead' /\ ServesWhileWaiting'
    BY <2>1, <2>2, <2>3 DEF ReadLast, WaitsForRead, ServesWhileWaiting
  <2>5. ASSUME NEW i \in Ports
        PROVE  busy'[i] <=> (pending'[i].rw # "none" \/ serv_port' = i)
    <3>1. i # serv_port'
      BY <2>1, ControllerAssumption
    <3>2. CASE i = serv_port
      BY <1>1, <1>8, <3>1, <3>2, SetTypes, RequestTypes DEF Receive
    <3>3. CASE i # serv_port
      <4>1. busy'[i] = set_busy(rs, Ports)[i] /\ pending'[i] = set_pending(rs, Ports)[i]
        BY <1>1, <1>8, <3>3, SetTypes DEF Receive
      <4>2. busy[i] <=> pending[i].rw # "none"
        BY <1>1, <3>3 DEF BusyIsAsked
      <4> QED
        BY <1>2, <3>1, <4>1, <4>2 DEF set_pending, set_busy
    <3> QED
      BY <3>2, <3>3
  <2> QED
    BY <1>1, <2>2, <2>4, <2>5, Parts DEF BusyIsAsked
<1> QED
  BY <1>5, <1>6, <1>7, <1>8 DEF Acts

LEMMA AdapterInvariant ==
  ASSUME OneReadUnderWay, Adapter
  PROVE  OneReadUnderWay'
<1>1. TypeOK /\ Len(responseq) <= 1
      /\ ReadLast /\ WaitsForRead /\ ServesWhileWaiting /\ BusyIsAsked
  BY Parts
<1>2. PICK r : r = Head(requestq)
  OBVIOUS
<1>3. requestq # <<>> /\ requestq' = Tail(requestq) /\ r \in Access /\ r = requestq[1]
      /\ 1 \in 1 .. Len(requestq)
  BY <1>1, <1>2 DEF Adapter, TypeOK
<1>4. /\ mem' \in [Addr -> Word] /\ inputs' \in Byte /\ outputs' \in [count : Byte, last : Byte]
      /\ Value(mem, inputs, r.addr) \in Word
  BY <1>1, <1>2, <1>3, EffectTypes DEF Adapter, TypeOK
<1>5. /\ Len(requestq') = Len(requestq) - 1 /\ requestq' \in Seq(Access)
      /\ \A k \in 1 .. Len(requestq') : requestq'[k] = requestq[k + 1] /\ k + 1 \in 1 .. Len(requestq)
  BY <1>1, <1>3 DEF TypeOK
<1>6. UNCHANGED <<busy, done, read_data, pending, state, serv_port, answered>>
  BY DEF Adapter, clientVars
<1>7. ServesWhileWaiting' /\ BusyIsAsked'
  BY <1>1, <1>6 DEF ServesWhileWaiting, BusyIsAsked
<1>8. CASE r.rw = "r"
  <2>1. Len(requestq) = 1 /\ responseq = <<>> /\ state = "WAIT"
    BY <1>1, <1>3, <1>8 DEF ReadLast, WaitsForRead
  <2>2. responseq' = <<[data |-> Value(mem, inputs, r.addr), req |-> r]>>
    BY <1>2, <1>8, <2>1 DEF Adapter
  <2>3. responseq' \in Seq(Response) /\ Len(responseq') = 1 /\ Len(requestq') = 0
    <3>1. [data |-> Value(mem, inputs, r.addr), req |-> r] \in Response
      BY <1>3, <1>4 DEF Response
    <3> QED
      BY <1>5, <2>1, <2>2, <3>1
  <2>4. TypeOK'
    BY <1>1, <1>4, <1>5, <1>6, <2>3, ControllerAssumption DEF TypeOK
  <2> QED
    BY <1>6, <1>7, <2>1, <2>3, <2>4, Parts DEF ReadLast, WaitsForRead
<1>9. CASE r.rw # "r"
  <2>1. responseq' = responseq
    BY <1>2, <1>9 DEF Adapter
  <2>2. TypeOK'
    BY <1>1, <1>4, <1>5, <1>6, <2>1, ControllerAssumption DEF TypeOK
  <2>3. ReadLast'
    <3> SUFFICES ASSUME NEW k \in 1 .. Len(requestq'), requestq'[k].rw = "r"
                 PROVE  k = Len(requestq') /\ responseq' = <<>>
      BY DEF ReadLast
    <3>1. k + 1 \in 1 .. Len(requestq) /\ requestq[k + 1].rw = "r"
      BY <1>5
    <3>2. k + 1 = Len(requestq) /\ responseq = <<>>
      BY <1>1, <3>1 DEF ReadLast
    <3> QED
      BY <1>1, <1>5, <2>1, <3>2 DEF TypeOK
  <2>4. WaitsForRead'
    <3>1. (\E k \in 1 .. Len(requestq) : requestq[k].rw = "r")
            <=> \E k \in 1 .. Len(requestq') : requestq'[k].rw = "r"
      <4>1. ASSUME NEW k \in 1 .. Len(requestq), requestq[k].rw = "r"
            PROVE  k - 1 \in 1 .. Len(requestq') /\ requestq'[k - 1].rw = "r"
        BY <1>1, <1>3, <1>5, <1>9, <4>1 DEF TypeOK
      <4> QED
        BY <1>5, <4>1
    <3> QED
      BY <1>1, <1>6, <2>1, <3>1 DEF WaitsForRead
  <2> QED
    BY <1>1, <1>7, <2>1, <2>2, <2>3, <2>4, Parts
<1> QED
  BY <1>8, <1>9

LEMMA InitInvariant == Init => OneReadUnderWay
<1> SUFFICES ASSUME Init
             PROVE  OneReadUnderWay
  OBVIOUS
<1>1. TypeOK
  BY ControllerAssumption, RequestTypes DEF Init, TypeOK
<1>2. Len(requestq) = 0 /\ Len(responseq) = 0 /\ responseq = <<>> /\ state = "IDLE"
  BY DEF Init
<1>3. ReadLast /\ WaitsForRead
  BY <1>2 DEF ReadLast, WaitsForRead
<1>4. ServesWhileWaiting /\ BusyIsAsked
  BY ControllerAssumption, RequestTypes DEF Init, ServesWhileWaiting, BusyIsAsked
<1> QED
  BY <1>1, <1>2, <1>3, <1>4, Parts

(* A response of the PC names no request, and the controller hands it to   *)
(* the port it serves.  It is the answer to the request of that port: for  *)
(* every number of ports and depth of the channel, the read of that port   *)
(* is the only one under way and nothing is sent behind it.                *)
THEOREM Invariance == Spec => []OneReadUnderWay
<1>1. OneReadUnderWay /\ [Next]_vars => OneReadUnderWay'
  <2> SUFFICES ASSUME OneReadUnderWay, [Next]_vars
               PROVE  OneReadUnderWay'
    OBVIOUS
  <2>1. CASE Clock
    BY <2>1, ClockIsActs, ClockInvariant
  <2>2. CASE Adapter
    BY <2>2, AdapterInvariant
  <2>3. CASE UNCHANGED vars
    BY <2>3, Parts DEF vars, clientVars, channelVars, envVars, TypeOK, ReadLast, WaitsForRead,
                       ServesWhileWaiting, BusyIsAsked
  <2> QED
    BY <2>1, <2>2, <2>3 DEF Next
<1> QED
  BY <1>1, InitInvariant, PTL DEF Spec

-----------------------------------------------------------------------------

(* Induction up to a bound.                                                *)
LEMMA UpTo ==
  ASSUME NEW n \in Nat, NEW S, 0 \in S, \A k \in Nat : k < n /\ k \in S => k + 1 \in S
  PROVE  0 .. n \subseteq S
<1> DEFINE T == {k \in 0 .. n : k \notin S}
<1> SUFFICES ASSUME T # {}
             PROVE  FALSE
  OBVIOUS
<1> T \in SUBSET Nat
  OBVIOUS
<1> HIDE DEF T
<1>1. PICK k \in T : \A j \in T : k <= j
  BY Least
<1> USE DEF T
<1>2. k # 0 /\ k - 1 \in Nat /\ k - 1 < n /\ k - 1 \notin T
  BY <1>1
<1>3. k - 1 \in S
  BY <1>1, <1>2
<1> QED
  BY <1>1, <1>2, <1>3

(* f is what AfterPackets(m, o, q) describes, n being the length of q.     *)
EnvStep(e, r) == [mem |-> Written(e.mem, r), outputs |-> Shown(e.outputs, r)]
Steps(f, q, n) == \A k \in Nat : k < n => f[k + 1] = EnvStep(f[k], q[k + 1])
Folds(f, m, o, q, n) == f[0] = [mem |-> m, outputs |-> o] /\ Steps(f, q, n)
Same(p, q, n) == \A k \in Nat : k < n => p[k + 1] = q[k + 1]

LEMMA AfterPacketsFolds ==
  ASSUME NEW m, NEW o, NEW q, NEW len \in Nat, Len(q) = len
  PROVE  Folds(AfterPackets(m, o, q), m, o, q, len)
<1> DEFINE base == [mem |-> m, outputs |-> o]
           Upto(n, f) == f = [k \in 0 .. n |-> IF k = 0 THEN base ELSE EnvStep(f[k - 1], q[k])]
           S == {n \in Nat : \E f : Upto(n, f)}
<1>1. 0 \in S
  <2>1. Upto(0, [k \in 0 .. 0 |-> base])
    OBVIOUS
  <2> QED
    BY <2>1
<1>2. ASSUME NEW n \in Nat, n \in S
      PROVE  n + 1 \in S
  <2>1. PICK f : Upto(n, f)
    BY <1>2
  <2> DEFINE g == [k \in 0 .. n + 1 |-> IF k <= n THEN f[k] ELSE EnvStep(f[n], q[n + 1])]
  <2>2. ASSUME NEW k \in 0 .. n + 1
        PROVE  g[k] = IF k = 0 THEN base ELSE EnvStep(g[k - 1], q[k])
    <3> HIDE DEF base
    <3>1. CASE k = 0
      BY <2>1, <3>1
    <3>2. CASE k # 0 /\ k <= n
      <4>1. g[k] = f[k] /\ g[k - 1] = f[k - 1] /\ k \in 0 .. n
        BY <3>2
      <4> QED
        BY <2>1, <3>2, <4>1
    <3>3. CASE k = n + 1
      <4>1. g[k] = EnvStep(f[n], q[n + 1]) /\ g[k - 1] = f[n] /\ k # 0
        BY <3>3
      <4> QED
        BY <3>3, <4>1
    <3> QED
      BY <3>1, <3>2, <3>3
  <2>3. Upto(n + 1, g)
    BY <2>2
  <2> HIDE DEF Upto, g
  <2> QED
    BY <2>3
<1>3. len \in S
  <2> HIDE DEF S
  <2> QED
    BY <1>1, <1>2, UpTo
<1>4. PICK f : Upto(len, f)
  BY <1>3
<1> DEFINE F == AfterPackets(m, o, q)
<1>5. Upto(len, F)
  BY <1>4 DEF AfterPackets, EnvStep
<1> HIDE DEF F
<1>6. ASSUME NEW k \in Nat, k < len
      PROVE  F[k + 1] = EnvStep(F[k], q[k + 1])
  <2>1. k + 1 \in 0 .. len /\ k + 1 # 0 /\ (k + 1) - 1 = k
    BY <1>6
  <2> QED
    BY <1>5, <2>1
<1>7. F[0] = base
  BY <1>5
<1> QED
  BY <1>6, <1>7 DEF Folds, Steps, F

(* Two such functions agree where their packets do.                        *)
LEMMA FoldsAgree ==
  ASSUME NEW f, NEW g, NEW n \in Nat, f[0] = g[0],
         NEW p, NEW q, Same(p, q, n), Steps(f, p, n), Steps(g, q, n)
  PROVE  f[n] = g[n]
<1> DEFINE S == {k \in Nat : f[k] = g[k]}
<1>1. 0 \in S
  OBVIOUS
<1>2. \A k \in Nat : k < n /\ k \in S => k + 1 \in S
  <2> SUFFICES ASSUME NEW k \in Nat, k < n, f[k] = g[k]
               PROVE  k + 1 \in Nat /\ f[k + 1] = g[k + 1]
    OBVIOUS
  <2> QED
    BY DEF Same, Steps
<1>3. 0 .. n \subseteq S
  <2> HIDE DEF S
  <2> QED
    BY <1>1, <1>2, UpTo
<1> QED
  BY <1>3

LEMMA EnvIsRecord ==
  ASSUME NEW m, NEW o, NEW A, NEW q \in Seq(A)
  PROVE  LET e == AfterPackets(m, o, q)[Len(q)]
         IN  e = [mem |-> e.mem, outputs |-> e.outputs]
<1>1. PICK n \in Nat : n = Len(q)
  OBVIOUS
<1>2. PICK f : f = AfterPackets(m, o, q)
  OBVIOUS
<1>3. Folds(f, m, o, q, n)
  BY <1>1, <1>2, AfterPacketsFolds
<1>4. f[n] = [mem |-> f[n].mem, outputs |-> f[n].outputs]
  <2>1. CASE n = 0
    BY <1>3, <2>1 DEF Folds
  <2>2. CASE n # 0
    <3>1. n - 1 \in Nat /\ n - 1 < n /\ (n - 1) + 1 = n
      BY <2>2
    <3>2. f[n] = EnvStep(f[n - 1], q[n])
      BY <1>3, <3>1 DEF Folds, Steps
    <3> QED
      BY <3>2 DEF EnvStep
  <2> QED
    BY <2>1, <2>2
<1> QED
  BY <1>1, <1>2, <1>4

(* One more packet in the queue takes effect last ...                      *)
LEMMA PacketQueued ==
  ASSUME NEW m, NEW o, NEW A, NEW q \in Seq(A), NEW r \in A
  PROVE  AfterPackets(m, o, Append(q, r))[Len(Append(q, r))]
           = EnvStep(AfterPackets(m, o, q)[Len(q)], r)
<1>1. PICK n \in Nat : n = Len(q)
  OBVIOUS
<1>2. PICK p : p = Append(q, r)
  OBVIOUS
<1>3. Len(p) = n + 1 /\ p[n + 1] = r /\ Same(p, q, n)
  BY <1>1, <1>2 DEF Same
<1>4. PICK f, g : f = AfterPackets(m, o, p) /\ g = AfterPackets(m, o, q)
  OBVIOUS
<1>5. Folds(f, m, o, p, n + 1) /\ Folds(g, m, o, q, n)
  BY <1>1, <1>3, <1>4, AfterPacketsFolds
<1>6. f[0] = g[0] /\ f[n + 1] = EnvStep(f[n], r) /\ Steps(f, p, n) /\ Steps(g, q, n)
  BY <1>3, <1>5 DEF Folds, Steps
<1>7. f[n] = g[n]
  BY <1>3, <1>6, FoldsAgree
<1> QED
  BY <1>1, <1>2, <1>3, <1>4, <1>6, <1>7

(* ... and the packet that the PC takes took effect first.                 *)
LEMMA PacketTaken ==
  ASSUME NEW m, NEW o, NEW A, NEW q \in Seq(A), q # <<>>
  PROVE  AfterPackets(Written(m, Head(q)), Shown(o, Head(q)), Tail(q))[Len(Tail(q))]
           = AfterPackets(m, o, q)[Len(q)]
<1>1. PICK p : p = Tail(q)
  OBVIOUS
<1>2. PICK n \in Nat : n = Len(p)
  BY <1>1
<1>3. Len(q) = n + 1 /\ \A k \in Nat : k < n => p[k + 1] = q[(k + 1) + 1]
  BY <1>1, <1>2
<1>4. PICK r : r = Head(q) /\ r = q[1]
  OBVIOUS
<1>5. PICK f, g : f = AfterPackets(Written(m, r), Shown(o, r), p) /\ g = AfterPackets(m, o, q)
  OBVIOUS
<1>6. Folds(f, Written(m, r), Shown(o, r), p, n) /\ Folds(g, m, o, q, n + 1)
  BY <1>2, <1>3, <1>5, AfterPacketsFolds
<1>7. PICK h : h = [k \in Nat |-> g[k + 1]]
  OBVIOUS
<1>8. PICK t : t = [k \in Nat |-> q[k + 1]]
  OBVIOUS
<1>9. g[1] = EnvStep(g[0], r) /\ f[0] = EnvStep(g[0], r)
  <2>1. 0 \in Nat /\ 0 < n + 1 /\ 0 + 1 = 1
    OBVIOUS
  <2>2. g[1] = EnvStep(g[0], q[1])
    BY <1>6, <2>1 DEF Folds, Steps
  <2> QED
    BY <1>4, <1>6, <2>2 DEF Folds, Steps, EnvStep
<1>10. f[0] = h[0]
  <2>1. h[0] = g[0 + 1] /\ 0 + 1 = 1
    BY <1>7
  <2> QED
    BY <1>9, <2>1
<1>11. ASSUME NEW k \in Nat, k < n
       PROVE  h[k + 1] = EnvStep(h[k], t[k + 1]) /\ p[k + 1] = t[k + 1]
              /\ f[k + 1] = EnvStep(f[k], p[k + 1])
  <2>1. k + 1 \in Nat /\ k + 1 < n + 1
    BY <1>11
  <2>2. h[k + 1] = g[(k + 1) + 1] /\ h[k] = g[k + 1] /\ t[k + 1] = q[(k + 1) + 1]
    BY <1>7, <1>8, <2>1
  <2>3. g[(k + 1) + 1] = EnvStep(g[k + 1], q[(k + 1) + 1])
    BY <1>6, <2>1 DEF Folds, Steps
  <2>4. f[k + 1] = EnvStep(f[k], p[k + 1])
    BY <1>6, <1>11 DEF Folds, Steps
  <2> QED
    BY <1>3, <1>11, <2>2, <2>3, <2>4
<1>12. f[n] = h[n]
  <2>1. Same(p, t, n) /\ Steps(f, p, n) /\ Steps(h, t, n)
    BY <1>11 DEF Same, Steps
  <2> QED
    BY <1>10, <2>1, FoldsAgree
<1>13. h[n] = g[n + 1]
  BY <1>7
<1> QED
  BY <1>1, <1>2, <1>3, <1>4, <1>5, <1>12, <1>13

-----------------------------------------------------------------------------

(* What the refinement needs beyond OneReadUnderWay.  A response is the    *)
(* last thing in the channel, and what it carries is what the memory still *)
(* holds, or the character before the next one: nothing was sent behind it.*)
AnswerHolds ==
  responseq # <<>> =>
    LET a == responseq[1]
    IN  /\ requestq = <<>> /\ a.req.rw = "r"
        /\ IF a.req.addr = IN_ADDR
           THEN a.data[0] \in Byte /\ a.data = Char(a.data[0]) /\ inputs = Next1(a.data[0])
           ELSE a.data = mem[a.req.addr]

RInv == OneReadUnderWay /\ AnswerHolds

LEMMA AnswerHoldsInit == Init => AnswerHolds
BY DEF Init, AnswerHolds

LEMMA AnswerHoldsClock ==
  ASSUME RInv, NEW rs \in Inputs, Acts(rs)
  PROVE  AnswerHolds'
<1>1. UNCHANGED <<mem, inputs>>
  BY DEF Acts, Hold, SendWrite, SendRead, AwaitResponse, Receive, envVars
<1>2. CASE Hold(rs) \/ AwaitResponse(rs)
  BY <1>1, <1>2 DEF Hold, AwaitResponse, channelVars, RInv, AnswerHolds
<1>3. CASE SendWrite(rs) \/ SendRead(rs)
  <2>1. responseq' = <<>>
    BY <1>3 DEF SendWrite, SendRead, RInv, OneReadUnderWay
  <2> QED
    BY <2>1 DEF AnswerHolds
<1>4. CASE Receive(rs)
  <2>1. responseq' = <<>>
    BY <1>4, Single DEF Receive, receivable, RInv, OneReadUnderWay, TypeOK
  <2> QED
    BY <2>1 DEF AnswerHolds
<1> QED
  BY <1>2, <1>3, <1>4 DEF Acts

LEMMA AnswerHoldsAdapter ==
  ASSUME RInv, Adapter
  PROVE  AnswerHolds'
<1>1. PICK r : r = Head(requestq)
  OBVIOUS
<1>2. requestq # <<>> /\ requestq' = Tail(requestq) /\ r \in Access /\ r = requestq[1]
      /\ 1 \in 1 .. Len(requestq) /\ requestq \in Seq(Access)
  BY <1>1 DEF Adapter, RInv, OneReadUnderWay, TypeOK
<1>3. responseq = <<>>
  BY <1>2 DEF RInv, AnswerHolds
<1>4. CASE r.rw # "r"
  <2>1. responseq' = responseq
    BY <1>1, <1>4 DEF Adapter
  <2> QED
    BY <1>3, <2>1 DEF AnswerHolds
<1>5. CASE r.rw = "r"
  <2>1. PICK v : v = Value(mem, inputs, r.addr)
    OBVIOUS
  <2>2. responseq' = <<[data |-> v, req |-> r]>>
    BY <1>1, <1>3, <1>5, <2>1 DEF Adapter
  <2>3. responseq'[1].data = v /\ responseq'[1].req = r
    BY <2>2
  <2>4. Len(requestq) = 1 /\ requestq' = <<>>
    BY <1>2, <1>5, Single DEF RInv, OneReadUnderWay
  <2>5. mem' = mem /\ inputs' = IF r.addr = IN_ADDR THEN Next1(inputs) ELSE inputs
    BY <1>1, <1>5 DEF Adapter, Written, Consumed
  <2>6. CASE r.addr = IN_ADDR
    <3>1. v = Char(inputs) /\ v[0] = inputs /\ inputs \in Byte
      BY <2>1, <2>6, RequestTypes DEF Value, Char, RInv, OneReadUnderWay, TypeOK
    <3> QED
      BY <1>5, <2>3, <2>4, <2>5, <2>6, <3>1 DEF AnswerHolds
  <2>7. CASE r.addr # IN_ADDR
    BY <1>5, <2>1, <2>3, <2>4, <2>5, <2>7 DEF AnswerHolds, Value
  <2> QED
    BY <2>6, <2>7
<1> QED
  BY <1>4, <1>5

LEMMA RInvariance == Spec => []RInv
<1>1. RInv /\ [Next]_vars => RInv'
  <2> SUFFICES ASSUME RInv, [Next]_vars
               PROVE  RInv'
    OBVIOUS
  <2> OneReadUnderWay
    BY DEF RInv
  <2>1. CASE Clock
    BY <2>1, ClockIsActs, ClockInvariant, AnswerHoldsClock DEF RInv
  <2>2. CASE Adapter
    BY <2>2, AdapterInvariant, AnswerHoldsAdapter DEF RInv
  <2>3. CASE UNCHANGED vars
    <3>1. AnswerHolds'
      BY <2>3 DEF vars, channelVars, envVars, RInv, AnswerHolds
    <3>2. OneReadUnderWay'
      BY <2>3, Parts DEF vars, clientVars, channelVars, envVars, TypeOK, ReadLast, WaitsForRead,
                         ServesWhileWaiting, BusyIsAsked
    <3> QED
      BY <3>1, <3>2 DEF RInv
  <2> QED
    BY <2>1, <2>2, <2>3 DEF Next
<1> QED
  BY <1>1, InitInvariant, AnswerHoldsInit, PTL DEF Spec, RInv

-----------------------------------------------------------------------------

(* The abstract specification speaks of the same words and accesses.       *)
LEMMA SameOps ==
  /\ Shared!Ports = Ports /\ Shared!Word = Word /\ Shared!NoRequest = NoRequest
  /\ Shared!Idle = Idle
  /\ \A r : Shared!Busy(r) = Busy(r)
  /\ \A r, d : Shared!Done(r, d) = Done(r, d)
  /\ \A m, r : Shared!Written(m, r) = Written(m, r)
  /\ \A o, r : Shared!Shown(o, r) = Shown(o, r)
  /\ \A k, r : Shared!Consumed(k, r) = Consumed(k, r)
  /\ \A m, k, a : Shared!Value(m, k, a) = Value(m, k, a)
<1>1. Shared!Lanes = Lanes /\ Shared!Byte = Byte /\ Shared!Ports = Ports
  BY DEF Shared!Lanes, Lanes, Shared!Byte, Byte, Shared!Ports
<1>2. Shared!Word = Word /\ Shared!ZeroWord = ZeroWord
  BY <1>1 DEF Shared!Word, Word, Shared!ZeroWord, ZeroWord
<1>3. Shared!NoRequest = NoRequest
  BY <1>2 DEF Shared!NoRequest, NoRequest
<1>4. Shared!Idle = Idle /\ \A r : Shared!Busy(r) = Busy(r)
  BY <1>2, <1>3, Zenon DEF Shared!Idle, Idle, Shared!Busy, Busy
<1>5. \A r, d : Shared!Done(r, d) = Done(r, d)
  BY Zenon DEF Shared!Done, Done
<1>6. \A k : Shared!Next1(k) = Next1(k)
  BY DEF Shared!Next1, Next1
<1>7. \A a, b, c : Shared!Masked(a, b, c) = Masked(a, b, c)
  BY <1>1, Zenon DEF Shared!Masked, Masked
<1>8. \A m, r : Shared!Written(m, r) = Written(m, r)
  BY <1>7, Zenon DEF Shared!Written, Written
<1>9. \A o, r : Shared!Shown(o, r) = Shown(o, r)
  BY <1>6, Zenon DEF Shared!Shown, Shown
<1>10. \A k, r : Shared!Consumed(k, r) = Consumed(k, r)
  BY <1>6, Zenon DEF Shared!Consumed, Consumed
<1>11. \A k : Shared!Char(k) = Char(k)
  BY <1>1, Zenon DEF Shared!Char, Char
<1>12. \A m, k, a : Shared!Value(m, k, a) = Value(m, k, a)
  BY <1>11, Zenon DEF Shared!Value, Value
<1> QED
  BY <1>1, <1>2, <1>3, <1>4, <1>5, <1>8, <1>9, <1>10, <1>12, Zenon

(* The request a busy port has: served, or pending.                        *)
Request(i) == IF serv_port = i THEN UnderWay ELSE pending[i]

LEMMA BusyRequest ==
  ASSUME RInv
  PROVE  /\ state = "WAIT" => UnderWay.rw = "r" /\ UnderWay \in Access
         /\ \A i \in Ports : busy[i] => Request(i).rw # "none"
<1>1. state = "WAIT" => UnderWay.rw = "r" /\ UnderWay \in Access
  <2> SUFFICES ASSUME state = "WAIT"
               PROVE  UnderWay.rw = "r" /\ UnderWay \in Access
    OBVIOUS
  <2>1. CASE responseq # <<>>
    BY <2>1, UnderWayIs DEF RInv, AnswerHolds
  <2>2. CASE responseq = <<>>
    BY <2>2, UnderWayIs DEF RInv, OneReadUnderWay
  <2> QED
    BY <2>1, <2>2
<1> QED
  BY <1>1, ControllerAssumption DEF Request, RInv, OneReadUnderWay

LEMMA PortFields ==
  /\ \A r : Busy(r).busy /\ Busy(r).req = r
  /\ \A r, d : ~Done(r, d).busy
  /\ ~Idle.busy
BY DEF Busy, Done, Idle

(* The abstract ports, and what the clients have asked of them.            *)
LEMMA PortIs ==
  ASSUME NEW i \in Ports
  PROVE  /\ busy[i] => SharedPorts[i] = Busy(Request(i))
         /\ ~busy[i] /\ done[i] => SharedPorts[i] = Done(answered, read_data[i])
         /\ ~busy[i] /\ ~done[i] => SharedPorts[i] = Idle
BY Zenon DEF SharedPorts, Request

LEMMA SharedAsked ==
  ASSUME NEW rs, NEW i \in Ports
  PROVE  Shared!Asked(i, rs[i]) = IF busy[i] THEN Request(i) ELSE rs[i]
<1>1. CASE busy[i]
  <2>1. SharedPorts[i].busy /\ SharedPorts[i].req = Request(i)
    BY <1>1, PortIs, PortFields, Zenon
  <2> QED
    BY <1>1, <2>1, Zenon DEF Shared!Asked
<1>2. CASE ~busy[i]
  <2>1. ~SharedPorts[i].busy
    BY <1>2, PortIs, PortFields, Zenon
  <2> QED
    BY <1>2, <2>1, Zenon DEF Shared!Asked
<1> QED
  BY <1>1, <1>2

(* A port that is not answered: what it was asked, or is asked now, is     *)
(* what it is busy with afterwards.                                        *)
Kept(rs, i) ==
  /\ busy'[i] <=> (busy[i] \/ rs[i].rw # "none")
  /\ ~done'[i]
  /\ busy[i] => Request(i)' = Request(i)
  /\ ~busy[i] /\ rs[i].rw # "none" => Request(i)' = rs[i]

LEMMA PortKept ==
  ASSUME RInv, NEW rs \in Inputs, NEW i \in Ports, Kept(rs, i)
  PROVE  SharedPorts'[i] = Shared!Waiting(Shared!Asked(i, rs[i]))
<1>1. /\ busy'[i] => SharedPorts'[i] = Busy(Request(i)')
      /\ ~busy'[i] => SharedPorts'[i] = Idle
  BY Zenon DEF SharedPorts, Request, Kept
<1>2. CASE busy[i]
  <2>1. Request(i).rw # "none"
    BY <1>2, BusyRequest
  <2>2. SharedPorts'[i] = Busy(Request(i))
    BY <1>1, <1>2, Zenon DEF Kept
  <2> QED
    BY <1>2, <2>1, <2>2, SharedAsked, SameOps, Zenon DEF Shared!Waiting
<1>3. CASE ~busy[i]
  <2>1. Shared!Asked(i, rs[i]) = rs[i]
    BY <1>3, SharedAsked, Zenon
  <2>2. SharedPorts'[i] = IF rs[i].rw # "none" THEN Busy(rs[i]) ELSE Idle
    BY <1>1, <1>3, Zenon DEF Kept
  <2> QED
    BY <2>1, <2>2, SameOps, Zenon DEF Shared!Waiting
<1> QED
  BY <1>2, <1>3

(* An edge that keeps every port, and does nothing to the shared memory.   *)
LEMMA QuietEdge ==
  ASSUME RInv, NEW rs \in Inputs, \A i \in Ports : Kept(rs, i),
         SharedEnv' = SharedEnv, SharedInputs' = SharedInputs
  PROVE  Shared!Quiet(rs)
<1>1. \A i \in Ports : SharedPorts'[i] = Shared!Waiting(Shared!Asked(i, rs[i]))
  BY PortKept
<1>2. SharedPorts' = [i \in Ports |-> SharedPorts'[i]]
  BY Zenon DEF SharedPorts
<1>3. SharedPorts' = [i \in Shared!Ports |-> Shared!Waiting(Shared!Asked(i, rs[i]))]
  BY <1>1, <1>2, SameOps, Zenon
<1> QED
  BY <1>3, Zenon DEF Shared!Quiet

(* An edge that answers the client c with d and keeps the other ports.     *)
LEMMA ServeEdge ==
  ASSUME RInv, NEW rs \in Inputs, NEW c \in Ports, \A i \in Ports : i # c => Kept(rs, i),
         NEW r, r = IF busy[c] THEN Request(c) ELSE rs[c],
         r.rw # "none", NEW d \in Word, r.rw = "r" => d = Value(SharedEnv.mem, SharedInputs, r.addr),
         SharedPorts'[c] = Done(r, d),
         SharedEnv'.mem = Written(SharedEnv.mem, r),
         SharedEnv'.outputs = Shown(SharedEnv.outputs, r),
         SharedInputs' = Consumed(SharedInputs, r)
  PROVE  Shared!Serve(rs, c)
<1>1. r = Shared!Asked(c, rs[c])
  BY SharedAsked, Zenon
<1>2. SharedPorts' = [i \in Ports |-> SharedPorts'[i]]
  BY Zenon DEF SharedPorts
<1>3. ASSUME NEW i \in Ports
      PROVE  SharedPorts'[i] = IF i = c THEN Shared!Done(r, d)
                               ELSE Shared!Waiting(Shared!Asked(i, rs[i]))
  BY PortKept, SameOps, Zenon
<1>4. SharedPorts' = [i \in Shared!Ports |->
                        IF i = c THEN Shared!Done(r, d)
                        ELSE Shared!Waiting(Shared!Asked(i, rs[i]))]
  BY <1>2, <1>3, SameOps, Zenon
<1>5. d \in IF r.rw = "r" THEN {Shared!Value(SharedEnv.mem, SharedInputs, r.addr)} ELSE Shared!Word
  BY SameOps, Zenon
<1> QED
  BY <1>1, <1>4, <1>5, SameOps, Zenon DEF Shared!Serve

(* The queue of an edge that sends r, for the shared memory.               *)
LEMMA SendEffect ==
  ASSUME RInv, NEW r \in Access, requestq' = Append(requestq, r),
         UNCHANGED <<mem, outputs>>
  PROVE  /\ SharedEnv'.mem = Written(SharedEnv.mem, r)
         /\ SharedEnv'.outputs = Shown(SharedEnv.outputs, r)
         /\ r.rw = "r" => SharedEnv' = SharedEnv
<1>1. SharedEnv' = EnvStep(SharedEnv, r)
  BY PacketQueued DEF SharedEnv, RInv, OneReadUnderWay, TypeOK
<1>2. SharedEnv = [mem |-> SharedEnv.mem, outputs |-> SharedEnv.outputs]
  BY EnvIsRecord DEF SharedEnv, RInv, OneReadUnderWay, TypeOK
<1> QED
  BY <1>1, <1>2 DEF EnvStep, Written, Shown

(* Every client is kept waiting by an edge that neither sends nor receives,*)
(* and so are the others by one that does.                                 *)
LEMMA Bystander ==
  ASSUME RInv, NEW rs \in Inputs, NEW i \in Ports,
         busy'[i] = set_busy(rs, Ports)[i], pending'[i] = set_pending(rs, Ports)[i], ~done'[i],
         serv_port' = i <=> serv_port = i, serv_port = i => UnderWay' = UnderWay
  PROVE  Kept(rs, i)
<1>1. /\ busy[i] \in BOOLEAN
      /\ busy[i] <=> (pending[i].rw # "none" \/ serv_port = i)
      /\ rs[i].rw # "none" => ~busy[i]
  BY DEF Inputs, RInv, OneReadUnderWay, TypeOK
<1>2. busy'[i] = (busy[i] \/ rs[i].rw # "none")
  BY <1>1 DEF set_busy
<1>3. pending'[i] = IF rs[i].rw # "none" /\ ~busy[i] THEN rs[i] ELSE pending[i]
  BY DEF set_pending
<1> QED
  BY <1>1, <1>2, <1>3 DEF Kept, Request

LEMMA RefineHold ==
  ASSUME RInv, NEW rs \in Inputs, Hold(rs) \/ AwaitResponse(rs)
  PROVE  Shared!Quiet(rs)
<1>1. /\ UNCHANGED <<serv_port, requestq, responseq, mem, inputs, outputs>>
      /\ pending' = set_pending(rs, Ports) /\ busy' = set_busy(rs, Ports) /\ done' = NoneDone
  BY DEF Hold, AwaitResponse, channelVars, envVars
<1>2. UnderWay' = UnderWay /\ SharedEnv' = SharedEnv /\ SharedInputs' = SharedInputs
  BY <1>1 DEF UnderWay, SharedEnv, SharedInputs
<1>3. ASSUME NEW i \in Ports
      PROVE  Kept(rs, i)
  BY <1>1, <1>2, Bystander DEF NoneDone
<1> QED
  BY <1>2, <1>3, QuietEdge

(* What an edge that sends for port w finds: no read under way, and the    *)
(* request of w.                                                           *)
LEMMA Sender ==
  ASSUME RInv, NEW rs \in Inputs, SendWrite(rs) \/ SendRead(rs)
  PROVE  LET w == wait_port(rs)
             r == Asked(w, rs[w])
         IN  /\ w \in Ports /\ r \in Access /\ r.rw # "none"
             /\ r = IF busy[w] THEN Request(w) ELSE rs[w]
             /\ busy[w] => r = pending[w]
             /\ serv_port = NO_PORT /\ responseq = <<>> /\ responseq' = <<>>
             /\ requestq' = Append(requestq, r) /\ requestq \in Seq(Access)
             /\ UNCHANGED <<mem, inputs, outputs>>
             /\ SharedInputs = inputs /\ SharedInputs' = inputs
<1>1. PICK w : w = wait_port(rs)
  OBVIOUS
<1>2. PICK r : r = Asked(w, rs[w])
  OBVIOUS
<1>3. w \in Ports /\ r.rw # "none"
  BY <1>1, <1>2, WaitPort DEF SendWrite, SendRead
<1>4. r \in Access
  BY <1>2, <1>3, SetTypes DEF Asked, RInv, OneReadUnderWay, TypeOK
<1>5. serv_port = NO_PORT /\ responseq = <<>>
  BY DEF SendWrite, SendRead, RInv, OneReadUnderWay
<1>6. responseq' = <<>> /\ requestq' = Append(requestq, r) /\ requestq \in Seq(Access)
      /\ UNCHANGED <<mem, inputs, outputs>>
  BY <1>1, <1>2, <1>5 DEF SendWrite, SendRead, envVars, RInv, OneReadUnderWay, TypeOK
<1>7. r = (IF busy[w] THEN Request(w) ELSE rs[w]) /\ (busy[w] => r = pending[w])
  BY <1>2, <1>3, <1>5, ControllerAssumption DEF Asked, Request, RInv, OneReadUnderWay, Inputs
<1>8. SharedInputs = inputs /\ SharedInputs' = inputs
  BY <1>5, <1>6 DEF SharedInputs
<1> QED
  BY <1>1, <1>2, <1>3, <1>4, <1>5, <1>6, <1>7, <1>8

LEMMA RefineSendWrite ==
  ASSUME RInv, NEW rs \in Inputs, SendWrite(rs), Answered(rs), TypeOK'
  PROVE  \E c \in Ports : Shared!Serve(rs, c)
<1>1. PICK w : w = wait_port(rs)
  OBVIOUS
<1>2. PICK r : r = Asked(w, rs[w])
  OBVIOUS
<1>3. /\ w \in Ports /\ r \in Access /\ r.rw = "w"
      /\ r = IF busy[w] THEN Request(w) ELSE rs[w]
      /\ busy[w] => r = pending[w]
      /\ serv_port = NO_PORT
      /\ requestq' = Append(requestq, r)
      /\ UNCHANGED <<mem, inputs, outputs>> /\ SharedInputs = inputs /\ SharedInputs' = inputs
  BY <1>1, <1>2, Sender DEF SendWrite
<1>4. /\ SharedEnv'.mem = Written(SharedEnv.mem, r)
      /\ SharedEnv'.outputs = Shown(SharedEnv.outputs, r)
      /\ SharedInputs' = Consumed(SharedInputs, r)
  BY <1>3, SendEffect DEF Consumed
<1>5. /\ pending' = [set_pending(rs, Ports \ {w}) EXCEPT ![w] = NoRequest]
      /\ busy' = [set_busy(rs, Ports \ {w}) EXCEPT ![w] = FALSE]
      /\ done' = [NoneDone EXCEPT ![w] = TRUE]
      /\ serv_port' = serv_port /\ state = "IDLE" /\ read_data' = read_data
  BY <1>1 DEF SendWrite
<1>6. ASSUME NEW i \in Ports, i # w
      PROVE  Kept(rs, i)
  <2>1. /\ busy'[i] = set_busy(rs, Ports \ {w})[i]
        /\ pending'[i] = set_pending(rs, Ports \ {w})[i]
        /\ ~done'[i]
    BY <1>5, <1>6 DEF NoneDone, set_busy, set_pending
  <2>2. busy'[i] = set_busy(rs, Ports)[i] /\ pending'[i] = set_pending(rs, Ports)[i]
    BY <1>6, <2>1 DEF set_busy, set_pending
  <2>3. serv_port # i /\ serv_port' # i
    BY <1>3, <1>5, ControllerAssumption
  <2> QED
    BY <2>1, <2>2, <2>3, Bystander
<1>7. busy'[w] = FALSE /\ done'[w] = TRUE
  BY <1>3, <1>5 DEF NoneDone, set_busy
<1>8. answered' = r
  BY <1>1, <1>2, <1>3, <1>5, <1>7 DEF Answered
<1>9. SharedPorts'[w] = Done(r, read_data[w])
  BY <1>3, <1>5, <1>7, <1>8, Zenon DEF SharedPorts
<1>10. read_data[w] \in Word
  BY <1>3 DEF RInv, OneReadUnderWay, TypeOK
<1> QED
  BY <1>3, <1>4, <1>6, <1>9, <1>10, ServeEdge

LEMMA RefineSendRead ==
  ASSUME RInv, NEW rs \in Inputs, SendRead(rs)
  PROVE  Shared!Quiet(rs)
<1>1. PICK w : w = wait_port(rs)
  OBVIOUS
<1>2. PICK r : r = Asked(w, rs[w])
  OBVIOUS
<1>3. /\ w \in Ports /\ r \in Access /\ r.rw = "r"
      /\ r = IF busy[w] THEN Request(w) ELSE rs[w]
      /\ serv_port = NO_PORT /\ responseq' = <<>> /\ requestq \in Seq(Access)
      /\ requestq' = Append(requestq, r)
      /\ UNCHANGED <<mem, inputs, outputs>> /\ SharedInputs = inputs /\ SharedInputs' = inputs
  BY <1>1, <1>2, Sender DEF SendRead
<1>4. SharedEnv' = SharedEnv
  BY <1>3, SendEffect
<1>5. /\ pending' = set_pending(rs, Ports \ {w})
      /\ busy' = [set_busy(rs, Ports \ {w}) EXCEPT ![w] = TRUE]
      /\ done' = NoneDone /\ serv_port' = w
  BY <1>1 DEF SendRead
<1>6. UnderWay' = r
  <2>1. requestq'[Len(requestq')] = r
    BY <1>3
  <2> QED
    BY <1>3, <2>1 DEF UnderWay
<1>7. ASSUME NEW i \in Ports
      PROVE  Kept(rs, i)
  <2>1. CASE i = w
    <3>1. busy'[i] /\ ~done'[i] /\ Request(i)' = r
      BY <1>3, <1>5, <1>6, <2>1 DEF NoneDone, set_busy, Request
    <3>2. busy[i] \/ rs[i].rw # "none"
      BY <1>3, <2>1
    <3> QED
      BY <1>3, <2>1, <3>1, <3>2 DEF Kept
  <2>2. CASE i # w
    <3>1. /\ busy'[i] = set_busy(rs, Ports)[i] /\ pending'[i] = set_pending(rs, Ports)[i]
          /\ ~done'[i]
      BY <1>5, <2>2 DEF NoneDone, set_busy, set_pending
    <3>2. serv_port # i /\ serv_port' # i
      BY <1>3, <1>5, <2>2, ControllerAssumption
    <3> QED
      BY <3>1, <3>2, Bystander
  <2> QED
    BY <2>1, <2>2
<1> QED
  BY <1>3, <1>4, <1>7, QuietEdge

LEMMA RefineReceive ==
  ASSUME RInv, NEW rs \in Inputs, Receive(rs), Answered(rs)
  PROVE  \E c \in Ports : Shared!Serve(rs, c)
<1>1. PICK c : c = serv_port
  OBVIOUS
<1>2. PICK a : a = responseq[1] /\ a = Head(responseq)
  BY DEF Receive, receivable, RInv, OneReadUnderWay, TypeOK
<1>3. PICK r : r = a.req
  OBVIOUS
<1>4. /\ state = "WAIT" /\ responseq # <<>> /\ responseq' = Tail(responseq)
      /\ read_data' = [read_data EXCEPT ![c] = a.data]
      /\ pending' = [set_pending(rs, Ports) EXCEPT ![c] = NoRequest]
      /\ busy' = [set_busy(rs, Ports) EXCEPT ![c] = FALSE]
      /\ done' = [NoneDone EXCEPT ![c] = TRUE]
      /\ serv_port' = NO_PORT
      /\ UNCHANGED <<requestq, mem, inputs, outputs>>
  BY <1>1, <1>2 DEF Receive, receivable, envVars
<1>5. /\ c \in Ports /\ responseq \in Seq(Response) /\ Len(responseq) <= 1
      /\ \A i \in Ports : i = c => busy[i]
      /\ read_data \in [Ports -> Word]
  BY <1>1, <1>4 DEF RInv, OneReadUnderWay, TypeOK
<1>6. a.data \in Word
  <2>1. a \in Response
    BY <1>2, <1>4, <1>5
  <2> QED
    BY <2>1 DEF Response
<1>7. UnderWay = r /\ r.rw = "r"
  BY <1>2, <1>3, <1>4, BusyRequest DEF UnderWay
<1>8. Request(c) = r /\ busy[c]
  BY <1>1, <1>5, <1>7 DEF Request
<1>9. responseq' = <<>>
  BY <1>4, <1>5, Single
<1>10. SharedEnv' = SharedEnv /\ SharedEnv = [mem |-> mem, outputs |-> outputs]
  <2>1. requestq = <<>> /\ Len(requestq) = 0
    BY <1>4 DEF RInv, AnswerHolds
  <2>2. Folds(AfterPackets(mem, outputs, requestq), mem, outputs, requestq, 0)
    BY <2>1, AfterPacketsFolds
  <2> QED
    BY <1>4, <2>1, <2>2 DEF SharedEnv, Folds
<1>11. /\ a.data = Value(SharedEnv.mem, SharedInputs, r.addr)
       /\ SharedInputs' = Consumed(SharedInputs, r)
  <2>1. SharedInputs' = inputs
    BY <1>4, <1>9 DEF SharedInputs
  <2>2. CASE r.addr = IN_ADDR
    <3>1. SharedInputs = a.data[0]
      BY <1>2, <1>4, <1>7, <2>2 DEF SharedInputs
    <3> QED
      BY <1>2, <1>3, <1>4, <1>7, <2>1, <2>2, <3>1 DEF RInv, AnswerHolds, Value, Consumed
  <2>3. CASE r.addr # IN_ADDR
    <3>1. SharedInputs = inputs
      BY <1>7, <2>3 DEF SharedInputs
    <3>2. SharedEnv.mem = mem
      BY <1>10
    <3> QED
      BY <1>2, <1>3, <1>4, <2>1, <2>3, <3>1, <3>2 DEF RInv, AnswerHolds, Value, Consumed
  <2> QED
    BY <2>2, <2>3
<1>12. /\ SharedEnv'.mem = Written(SharedEnv.mem, r)
       /\ SharedEnv'.outputs = Shown(SharedEnv.outputs, r)
  BY <1>7, <1>10 DEF Written, Shown
<1>13. ASSUME NEW i \in Ports, i # c
       PROVE  Kept(rs, i)
  <2>1. /\ busy'[i] = set_busy(rs, Ports)[i] /\ pending'[i] = set_pending(rs, Ports)[i]
        /\ ~done'[i]
    BY <1>4, <1>13 DEF NoneDone, set_busy, set_pending
  <2>2. serv_port # i /\ serv_port' # i
    BY <1>1, <1>4, <1>13, ControllerAssumption
  <2> QED
    BY <2>1, <2>2, Bystander
<1>14. busy'[c] = FALSE /\ done'[c] = TRUE /\ read_data'[c] = a.data
  BY <1>4, <1>5 DEF NoneDone, set_busy
<1>15. answered' = r
  BY <1>4, <1>5, <1>7, <1>14 DEF Answered
<1>16. SharedPorts'[c] = Done(r, a.data)
  BY <1>5, <1>14, <1>15, Zenon DEF SharedPorts
<1> QED
  BY <1>5, <1>6, <1>7, <1>8, <1>11, <1>12, <1>13, <1>16, ServeEdge

(* The PC takes a packet: nobody sees it.                                  *)
LEMMA RefineAdapter ==
  ASSUME RInv, Adapter
  PROVE  UNCHANGED Shared!sharedVars
<1>1. PICK r : r = Head(requestq)
  OBVIOUS
<1>2. /\ requestq # <<>> /\ requestq' = Tail(requestq) /\ r \in Access /\ r = requestq[1]
      /\ 1 \in 1 .. Len(requestq) /\ requestq \in Seq(Access)
      /\ mem' = Written(mem, r) /\ inputs' = Consumed(inputs, r) /\ outputs' = Shown(outputs, r)
      /\ UNCHANGED <<busy, done, read_data, pending, state, serv_port, answered>>
  BY <1>1 DEF Adapter, clientVars, RInv, OneReadUnderWay, TypeOK
<1>3. responseq = <<>>
  BY <1>2 DEF RInv, AnswerHolds
<1>4. SharedEnv' = SharedEnv
  BY <1>1, <1>2, PacketTaken DEF SharedEnv
<1>5. CASE r.rw # "r"
  <2>1. responseq' = <<>> /\ inputs' = inputs
    BY <1>1, <1>2, <1>3, <1>5 DEF Adapter, Consumed
  <2>2. SharedInputs' = SharedInputs
    BY <1>3, <2>1 DEF SharedInputs
  <2>3. serv_port # NO_PORT => UnderWay' = UnderWay
    <3> SUFFICES ASSUME serv_port # NO_PORT
                 PROVE  UnderWay' = UnderWay
      OBVIOUS
    <3>1. PICK k \in 1 .. Len(requestq) : requestq[k].rw = "r"
      BY <1>3 DEF RInv, OneReadUnderWay
    <3>2. k # 1
      BY <1>2, <1>5, <3>1
    <3>3. PICK n \in Nat : n = Len(requestq)
      BY <1>2
    <3>4. n > 1
      BY <3>1, <3>2, <3>3
    <3>5. Len(requestq') = n - 1 /\ requestq'[n - 1] = requestq[n]
      BY <1>2, <3>3, <3>4
    <3> QED
      BY <1>3, <2>1, <3>3, <3>5 DEF UnderWay
  <2>4. SharedPorts' = SharedPorts
    <3>1. \A i \in Ports : serv_port = i => UnderWay' = UnderWay
      BY <2>3, ControllerAssumption
    <3> QED
      BY <1>2, <3>1, Zenon DEF SharedPorts
  <2> QED
    BY <1>4, <2>2, <2>4, Zenon DEF Shared!sharedVars
<1>6. CASE r.rw = "r"
  <2>1. PICK v : v = Value(mem, inputs, r.addr)
    OBVIOUS
  <2>2. responseq' = <<[data |-> v, req |-> r]>>
    BY <1>1, <1>3, <1>6, <2>1 DEF Adapter
  <2>3. responseq' # <<>> /\ Head(responseq').req = r /\ Head(responseq').data = v
    BY <2>2
  <2>4. Len(requestq) = 1
    BY <1>2, <1>6 DEF RInv, OneReadUnderWay
  <2>5. UnderWay' = r /\ UnderWay = r
    BY <1>2, <1>3, <2>3, <2>4 DEF UnderWay
  <2>6. SharedInputs' = SharedInputs
    <3>1. r.addr = IN_ADDR => v[0] = inputs
      BY <2>1, RequestTypes DEF Value, Char
    <3>2. r.addr # IN_ADDR => inputs' = inputs
      BY <1>2 DEF Consumed
    <3> QED
      BY <1>3, <2>3, <2>5, <3>1, <3>2 DEF SharedInputs
  <2>7. SharedPorts' = SharedPorts
    BY <1>2, <2>5, Zenon DEF SharedPorts
  <2> QED
    BY <1>4, <2>6, <2>7, Zenon DEF Shared!sharedVars
<1> QED
  BY <1>5, <1>6

(* Posted writes, priorities and the latency of the channel do not show:   *)
(* for every number of clients, every depth of the channel and every set of*)
(* addresses, the controller, the channel and the PC behave as one memory  *)
(* whose accesses take effect in one order, each when it is answered.      *)
THEOREM Refinement == Spec => ImplementsShared
<1>1. Init => Shared!Init
  <2> SUFFICES ASSUME Init
               PROVE  Shared!Init
    OBVIOUS
  <2>1. SharedPorts = [i \in Shared!Ports |-> Shared!Idle]
    <3>1. \A i \in Ports : ~busy[i] /\ ~done[i]
      BY DEF Init
    <3> QED
      BY <3>1, SameOps, Zenon DEF SharedPorts
  <2>2. requestq = <<>> /\ Len(requestq) = 0 /\ responseq = <<>>
    BY DEF Init
  <2>3. Folds(AfterPackets(mem, outputs, requestq), mem, outputs, requestq, 0)
    BY <2>2, AfterPacketsFolds
  <2>4. SharedEnv = [mem |-> mem, outputs |-> outputs]
    BY <2>2, <2>3 DEF SharedEnv, Folds
  <2>5. SharedEnv.mem = mem /\ SharedEnv.outputs = outputs
    BY <2>4
  <2>6. SharedInputs = inputs
    BY <2>2 DEF SharedInputs
  <2> QED
    BY <2>1, <2>5, <2>6 DEF Init, Shared!Init
<1>2. RInv /\ RInv' /\ [Next]_vars => [Shared!Next]_(Shared!sharedVars)
  <2> SUFFICES ASSUME RInv, RInv', [Next]_vars
               PROVE  [Shared!Next]_(Shared!sharedVars)
    OBVIOUS
  <2>1. CASE Clock
    <3>1. PICK rs \in Inputs : Acts(rs) /\ Answered(rs)
      BY <2>1, ClockIsActs
    <3>2. TypeOK'
      BY DEF RInv, OneReadUnderWay
    <3>3. Shared!Quiet(rs) \/ \E c \in Ports : Shared!Serve(rs, c)
      BY <3>1, <3>2, RefineHold, RefineSendWrite, RefineSendRead, RefineReceive DEF Acts
    <3>4. rs \in [Shared!Ports -> Requests \cup {Shared!NoRequest}]
      BY SameOps DEF Inputs
    <3> QED
      BY <3>3, <3>4, SameOps, Zenon DEF Shared!Next
  <2>2. CASE Adapter
    BY <2>2, RefineAdapter
  <2>3. CASE UNCHANGED vars
    BY <2>3 DEF vars, clientVars, channelVars, envVars, Shared!sharedVars, SharedPorts, SharedEnv,
                SharedInputs, UnderWay
  <2> QED
    BY <2>1, <2>2, <2>3 DEF Next
<1> QED
  BY <1>1, <1>2, RInvariance, PTL DEF Spec, ImplementsShared, Shared!Spec

-----------------------------------------------------------------------------
(* The PC behind the controller.                                           *)

(* The image is in memory as far as it has been read, with one octet behind*)
(* it once its end has been met.                                           *)
ImageIn(m) ==
    /\ pos \in 0 .. MEM_SIZE /\ pos <= Len(image) + 1 /\ (phase = "open" => pos = 0)
    /\ fin => pos <= Len(image)
    /\ phase = "load" /\ ~fin => pos = Len(image) + 1
    /\ \A i \in Octets : /\ i >= pos => m[i] = 0
                         /\ i < pos /\ i < Len(image) => m[i] = image[i + 1]

RunOK ==
    /\ phase \in {"open", "load", "run", "end"} /\ (phase # "end" => ret = 0)
    /\ fin \in BOOLEAN /\ is_running \in BOOLEAN
DataOK ==
    /\ image \in Images /\ ioIn \in [left : 0 .. INPUT, good : BOOLEAN]
    /\ memory \in [Octets -> Byte] /\ call \in Calls \cup {NoRequest}
EnvInv == RunOK /\ DataOK /\ (phase \in {"open", "load"} => ImageIn(memory))

LEMMA CallIs ==
  ASSUME NEW c \in Calls
  PROVE  c.rw \in {"r", "w"} /\ c.addr \in Nat /\ c.w_data \in Word /\ c.mask \in SUBSET Lanes
BY EnvironmentAssumption

(* What Devices calls by the names of MemoryOps is that.                   *)
LEMMA MachineOps ==
  /\ Machine!Byte = Byte /\ Machine!Lanes = Lanes /\ Machine!ZeroWord = ZeroWord
  /\ Machine!NoRequest = NoRequest /\ Machine!AllOnes = AllSet
  /\ \A k : Machine!Char(k) = Char(k) /\ Machine!Next1(k) = Next1(k)
  /\ \A m, k, a : Machine!Value(m, k, a) = Value(m, k, a)
  /\ \A k, r : Machine!Consumed(k, r) = Consumed(k, r)
  /\ \A m, r : Machine!Written(m, r) = Written(m, r)
  /\ \A o, r : Machine!Shown(o, r) = Shown(o, r)
<1>1. /\ Machine!Byte = Byte /\ Machine!Lanes = Lanes /\ Machine!ZeroWord = ZeroWord
      /\ Machine!NoRequest = NoRequest /\ Machine!AllOnes = AllSet
      /\ \A k : Machine!Char(k) = Char(k) /\ Machine!Next1(k) = Next1(k)
  BY DEF Machine!Byte, Machine!Lanes, Machine!ZeroWord, Machine!NoRequest, Machine!AllOnes, Machine!Char,
         Machine!Next1, Byte, Lanes, ZeroWord, NoRequest, AllSet, Char, Next1
<1>2. \A old, new, mask : Machine!Masked(old, new, mask) = Masked(old, new, mask)
  BY <1>1 DEF Machine!Masked, Masked
<1>3. \A m, k, a : Machine!Value(m, k, a) = Value(m, k, a)
  BY <1>1 DEF Machine!Value, Value
<1>4. \A k, r : Machine!Consumed(k, r) = Consumed(k, r)
  BY <1>1 DEF Machine!Consumed, Consumed
<1>5. \A m, r : Machine!Written(m, r) = Written(m, r)
  BY <1>2 DEF Machine!Written, Written
<1>6. \A o, r : Machine!Shown(o, r) = Shown(o, r)
  BY <1>1 DEF Machine!Shown, Shown
<1> QED
  BY <1>1, <1>3, <1>4, <1>5, <1>6

LEMMA SizeIs ==
  /\ LANES \in Nat \ {0} /\ BYTE \in Nat \ {0, 1} /\ MEM_SIZE \in Nat /\ HIGH_ADDR \in Nat /\ INPUT \in Nat
  /\ Lanes = 0 .. LANES - 1 /\ Octets = 0 .. MEM_SIZE - 1 /\ Byte = 0 .. BYTE - 1
BY EnvironmentAssumption DEF Lanes, Octets, Byte

LEMMA AddrIs ==
  /\ Addr \subseteq Nat
  /\ \A a \in Nat : a \in Addr <=> a + LANES <= MEM_SIZE /\ a % LANES = 0
  /\ \A a \in Addr, l \in Lanes : a + l \in Octets
  /\ IN_ADDR \in Addr /\ OUT_ADDR \in Addr /\ FINISH_ADDR \in Addr
<1>1. /\ IN_ADDR \in Addr /\ OUT_ADDR \in Addr /\ FINISH_ADDR \in Addr
      /\ Addr = {a \in 0 .. MEM_SIZE - LANES : a % LANES = 0}
  BY EnvironmentAssumption
<1>2. Addr \subseteq Nat /\ \A a \in Addr : a <= MEM_SIZE - LANES
  BY <1>1, SizeIs
<1>3. \A a \in Nat : a \in Addr <=> a + LANES <= MEM_SIZE /\ a % LANES = 0
  BY <1>1, SizeIs
<1>4. \A a \in Addr, l \in Lanes : a + l \in Octets
  BY <1>2, SizeIs
<1> QED
  BY <1>1, <1>2, <1>3, <1>4

(* Words do not overlap.                                                   *)
LEMMA WordsApart ==
  ASSUME NEW a \in Nat, NEW b \in Nat, a % LANES = 0, b % LANES = 0, a < b
  PROVE  a + LANES <= b
<1>1. LANES \in Nat /\ LANES > 0
  BY SizeIs
<1>2. a = LANES * (a \div LANES) /\ b = LANES * (b \div LANES) /\ a \div LANES \in Nat /\ b \div LANES \in Nat
  BY <1>1
<1>3. PICK i \in Nat, j \in Nat : a = LANES * i /\ b = LANES * j
  BY <1>2
<1>4. i < j
  BY <1>1, <1>3
<1>5. i + 1 <= j
  BY <1>4
<1>6. LANES * (i + 1) <= LANES * j
  BY <1>1, <1>5
<1>7. LANES * (i + 1) = LANES * i + LANES
  BY <1>1
<1> QED
  BY <1>3, <1>6, <1>7

LEMMA Division ==
  ASSUME NEW n \in Nat, NEW d \in Nat, d > 0
  PROVE  \E q \in Nat, r \in 0 .. d - 1 : n = d * q + r /\ n % d = r
OBVIOUS

(* Characters are counted modulo the width of an octet.                    *)
LEMMA NextChar ==
  ASSUME NEW k \in Nat
  PROVE  Next1(k % BYTE) = (k + 1) % BYTE /\ k % BYTE \in Byte
<1>1. BYTE \in Nat /\ BYTE > 1 /\ BYTE > 0
  BY SizeIs
<1>2. PICK q \in Nat, r \in 0 .. BYTE - 1 : k = BYTE * q + r /\ k % BYTE = r
  BY <1>1, Division, Zenon
<1>3. CASE r + 1 < BYTE
  BY <1>1, <1>2, <1>3 DEF Next1, Byte
<1>4. CASE r + 1 = BYTE
  <2>1. PICK m \in Nat : m = q + 1
    OBVIOUS
  <2>0. k + 1 = BYTE * m
    BY <1>1, <1>2, <1>4, <2>1
  <2>2. (k + 1) % BYTE = 0
    <3>1. PICK n \in Nat : n = k + 1
      OBVIOUS
    <3>2. PICK p \in Nat, z \in 0 .. BYTE - 1 : n = BYTE * p + z /\ n % BYTE = z
      BY <1>1, Division, Zenon
    <3>4. z = BYTE * (m - p)
      BY <1>1, <2>0, <3>1, <3>2
    <3>5. m - p = 0
      BY <1>1, <3>4
    <3> QED
      BY <1>1, <3>1, <3>2, <3>4, <3>5
  <2>3. (r + 1) % BYTE = 0
    BY <1>1, <1>4
  <2> QED
    BY <1>1, <1>2, <2>2, <2>3 DEF Next1, Byte
<1> QED
  BY <1>1, <1>2, <1>3, <1>4

-----------------------------------------------------------------------------

LEMMA EnvStarts ==
  ASSUME EnvironmentInit
  PROVE  EnvInv /\ Machine!Init
<1>1. /\ image \in Images /\ image \in Seq(Byte)
      /\ phase = "open" /\ ret = 0 /\ pos = 0 /\ fin = FALSE
      /\ ioIn \in [left : 0 .. INPUT, good : BOOLEAN] /\ (~ioIn.good => ioIn.left = 0)
      /\ memory = [i \in Octets |-> 0] /\ is_running = FALSE
      /\ ioOut = [count |-> 0, last |-> 0] /\ data = ZeroWord /\ call = NoRequest
  BY EnvironmentAssumption DEF EnvironmentInit
<1>2. 0 \in Byte /\ Len(image) \in Nat
  BY <1>1, SizeIs DEF Byte
<1>3. memory \in [Octets -> Byte] /\ ImageIn(memory)
  BY <1>1, <1>2, SizeIs DEF ImageIn
<1>40. RunOK
  BY <1>1 DEF RunOK
<1>41. DataOK
  BY <1>1, <1>3 DEF DataOK
<1>4. EnvInv
  BY <1>3, <1>40, <1>41 DEF EnvInv
<1>5. DevicesMem = InitMem /\ DevicesStatus = "loading"
  BY <1>1 DEF DevicesMem, DevicesStatus, loaded
<1>6. NoRequest.addr \in Addr
  BY AddrIs DEF NoRequest
<1>7. DevicesCall = NoRequest
  BY <1>1, <1>6 DEF DevicesCall
<1>8. INPUT - ioIn.left \in Nat /\ ioIn.left \in Nat /\ ioIn.good \in BOOLEAN
  BY <1>1, SizeIs
<1>9. DevicesInputs \in Byte
  BY <1>8, NextChar DEF DevicesInputs
<1> QED
  BY <1>1, <1>4, <1>5, <1>7, <1>8, <1>9, MachineOps DEF Machine!Init

LEMMA EnvInvKept ==
  ASSUME EnvInv, [EnvironmentNext]_environmentVars
  PROVE  EnvInv'
<1>0. RunOK /\ DataOK /\ (phase \in {"open", "load"} => ImageIn(memory))
  BY DEF EnvInv
<1>00. image \in Seq(Byte) /\ Len(image) \in Nat
  BY <1>0, EnvironmentAssumption DEF DataOK
<1>1. CASE UNCHANGED environmentVars
  <2>1. (ImageIn(memory)' <=> ImageIn(memory)) /\ (RunOK' <=> RunOK) /\ (DataOK' <=> DataOK) /\ phase' = phase
    BY <1>1 DEF environmentVars, runVars, ImageIn, RunOK, DataOK
  <2> QED
    BY <1>0, <2>1 DEF EnvInv
<1>2. CASE OpenFile
  <2>1. RunOK'
    BY <1>0, <1>2 DEF OpenFile, Return, RunOK
  <2>2. DataOK'
    BY <1>0, <1>2 DEF OpenFile, DataOK
  <2>3. phase' # "open" /\ (phase' = "load" => ImageIn(memory)')
    <3>1. ImageIn(memory) /\ pos' = pos /\ image' = image /\ memory' = memory /\ (phase' = "load" => fin')
          /\ phase = "open" /\ phase' # "open"
      BY <1>0, <1>2 DEF OpenFile, Return
    <3>2. pos = 0 => (phase' = "load" => ImageIn(memory)')
      BY <1>00, <3>1 DEF ImageIn
    <3> QED
      BY <3>1, <3>2 DEF ImageIn
  <2> QED
    BY <2>1, <2>2, <2>3 DEF EnvInv
<1>3. CASE LoadOctet
  <2>1. pos \in 0 .. MEM_SIZE - 1 /\ pos <= Len(image) /\ phase = "load" /\ ImageIn(memory)
        /\ memory \in [Octets -> Byte]
    BY <1>0, <1>3, SizeIs DEF LoadOctet, ImageIn, DataOK
  <2>2. PICK c \in IF pos < Len(image) THEN {image[pos + 1]} ELSE Byte :
              memory' = [memory EXCEPT ![pos] = c]
    BY <1>3 DEF LoadOctet
  <2>3. pos' = pos + 1 /\ fin' = (pos < Len(image)) /\ image' = image /\ phase' = phase /\ ret' = ret
        /\ is_running' = is_running /\ call' = call /\ ioIn' = ioIn
    BY <1>3 DEF LoadOctet
  <2>4. c \in Byte
    <3>1. CASE pos < Len(image)
      <4>1. pos + 1 \in 1 .. Len(image)
        BY <1>00, <2>1, <3>1, SizeIs
      <4> QED
        BY <1>00, <2>2, <3>1, <4>1, ElementOfSeq
    <3> QED
      BY <2>2, <3>1
  <2>5. pos \in Octets /\ memory' \in [Octets -> Byte]
    BY <2>1, <2>2, <2>4, SizeIs
  <2>6. \A i \in Octets : /\ i >= pos' => memory'[i] = 0
                          /\ i < pos' /\ i < Len(image) => memory'[i] = image[i + 1]
    <3> SUFFICES ASSUME NEW i \in Octets
                 PROVE  /\ i >= pos' => memory'[i] = 0
                        /\ i < pos' /\ i < Len(image) => memory'[i] = image[i + 1]
      OBVIOUS
    <3>1. CASE i = pos
      BY <1>00, <2>1, <2>2, <2>3, <3>1, SizeIs
    <3>2. CASE i # pos
      <4>1. memory'[i] = memory[i]
        BY <2>1, <2>2, <3>2
      <4>2. /\ i >= pos => memory[i] = 0
            /\ i < pos /\ i < Len(image) => memory[i] = image[i + 1]
        BY <2>1 DEF ImageIn
      <4>3. (i >= pos' => i >= pos) /\ (i < pos' => i < pos)
        BY <2>1, <2>3, <3>2, SizeIs
      <4> QED
        BY <4>1, <4>2, <4>3
    <3> QED
      BY <3>1, <3>2
  <2>7. pos' \in 0 .. MEM_SIZE /\ pos' <= Len(image) + 1 /\ (pos < Len(image) => pos' <= Len(image))
        /\ (~(pos < Len(image)) => pos' = Len(image) + 1)
    BY <1>00, <2>1, <2>3, SizeIs
  <2>70. (fin' => pos' <= Len(image)) /\ (~fin' => pos' = Len(image) + 1)
    BY <2>3, <2>7, Zenon
  <2>71. phase' # "open"
    BY <2>1, <2>3
  <2>8. ImageIn(memory)'
    BY <2>3, <2>6, <2>7, <2>70, <2>71, Zenon DEF ImageIn
  <2>9. RunOK' /\ DataOK'
    BY <1>0, <2>3, <2>5 DEF RunOK, DataOK
  <2> QED
    BY <2>8, <2>9 DEF EnvInv
<1>4. CASE LoadTooMuch \/ Start \/ Finish
  <2>1. RunOK'
    BY <1>0, <1>4 DEF LoadTooMuch, Start, Finish, Return, RunOK
  <2>2. DataOK' /\ phase' \in {"run", "end"}
    BY <1>0, <1>4 DEF LoadTooMuch, Start, Finish, Return, DataOK
  <2> QED
    BY <2>1, <2>2 DEF EnvInv
<1>5. ASSUME NEW c \in Calls, c.rw = "r", ReadMemory(c.addr), call' = c
      PROVE  EnvInv'
  <2>1. RunOK' /\ phase' \in {"run", "end"}
    BY <1>0, <1>5 DEF ReadMemory, Raise, Return, Running, runVars, RunOK
  <2>2. ioIn' \in [left : 0 .. INPUT, good : BOOLEAN]
    <3>1. ioIn \in [left : 0 .. INPUT, good : BOOLEAN]
      BY <1>0 DEF DataOK
    <3>2. CASE ioIn' = ioIn
      BY <3>1, <3>2
    <3>3. CASE ioIn.good /\ ioIn.left > 0 /\ ioIn' = [ioIn EXCEPT !.left = @ - 1]
      <4>1. ioIn.left - 1 \in 0 .. INPUT
        BY <3>1, <3>3, SizeIs
      <4> QED
        BY <3>1, <3>3, <4>1
    <3>4. CASE ioIn' = [ioIn EXCEPT !.good = FALSE]
      BY <3>1, <3>4
    <3> QED
      BY <1>5, <3>2, <3>3, <3>4 DEF ReadMemory, Raise, ReadInput
  <2>3. image' = image /\ memory' = memory
    BY <1>5 DEF ReadMemory, Raise
  <2>4. DataOK'
    BY <1>0, <1>5, <2>2, <2>3 DEF DataOK
  <2> QED
    BY <2>1, <2>4 DEF EnvInv
<1>6. ASSUME NEW c \in Calls, c.rw = "w", WriteMemory(c.addr, c.w_data, c.mask), call' = c
      PROVE  EnvInv'
  <2>1. RunOK' /\ phase' \in {"run", "end"}
    BY <1>0, <1>6 DEF WriteMemory, Raise, Return, Running, runVars, RunOK
  <2>2. image' = image /\ ioIn' = ioIn
    BY <1>6 DEF WriteMemory, Raise
  <2>3. memory' \in [Octets -> Byte]
    <3>1. CASE memory' = memory
      BY <1>0, <3>1 DEF DataOK
    <3>2. CASE Store(c.addr, c.w_data, c.mask)
      <4>1. ASSUME NEW i \in Octets, i - c.addr \in c.mask PROVE c.w_data[i - c.addr] \in Byte
        BY <4>1, CallIs DEF Word
      <4> QED
        BY <1>0, <3>2, <4>1 DEF Store, DataOK
    <3> QED
      BY <1>6, <3>1, <3>2 DEF WriteMemory
  <2>4. DataOK'
    BY <1>0, <1>6, <2>2, <2>3 DEF DataOK
  <2> QED
    BY <2>1, <2>4 DEF EnvInv
<1> QED
  BY <1>1, <1>2, <1>3, <1>4, <1>5, <1>6 DEF EnvironmentNext

-----------------------------------------------------------------------------

MachineRequests == {c \in Calls : c.addr \in Addr}
Protected == {a \in Addr : a < HIGH_ADDR} \cup {FINISH_ADDR}

(* What the memory of Devices is depends on the octets and on the phase.   *)
LEMMA MemStays ==
  ASSUME memory' = memory, loaded' = loaded
  PROVE  DevicesMem' = DevicesMem
<1>1. \A a : WordAt(a)' = WordAt(a)
  BY DEF WordAt
<1> QED
  BY <1>1 DEF DevicesMem

LEMMA CallShown ==
  ASSUME NEW c \in Calls, call' = c
  PROVE  /\ c.addr \in Addr => DevicesCall' = c /\ c \in MachineRequests
         /\ c.addr \notin Addr => DevicesCall' = NoRequest
         /\ DevicesCall' \in MachineRequests \cup {NoRequest}
BY DEF DevicesCall, MachineRequests

LEMMA CallStays ==
  ASSUME EnvInv, call' = call
  PROVE  DevicesCall' = DevicesCall /\ DevicesCall \in MachineRequests \cup {NoRequest}
BY DEF EnvInv, DataOK, DevicesCall, MachineRequests

(* A run that fails, before or after it has been loaded.                   *)
LEMMA FailStep ==
  ASSUME DevicesMem' = DevicesMem, image' = image, ioIn' = ioIn, ioOut' = ioOut, data' = data,
         DevicesStatus \in {"loading", "running"}, DevicesStatus' = "failed",
         DevicesCall' \in MachineRequests \cup {NoRequest}
  PROVE  Machine!Next
<1>1. DevicesInputs' = DevicesInputs
  BY DEF DevicesInputs
<1> QED
  BY <1>1, MachineOps DEF Machine!Next, Machine!Fail, MachineRequests

(* The octet behind the image is the only one that nobody knows.           *)
LEMMA LoadedImage ==
  ASSUME EnvInv, phase = "load", ~fin
  PROVE  \E junk \in Byte : [a \in Addr |-> WordAt(a)] = Machine!ImageWords(junk)
<1>1. ImageIn(memory) /\ memory \in [Octets -> Byte] /\ image \in Seq(Byte)
  BY EnvironmentAssumption DEF EnvInv, DataOK
<1>2. pos = Len(image) + 1 /\ pos \in 0 .. MEM_SIZE /\ Len(image) \in Nat
  BY <1>1 DEF ImageIn
<1>3. Len(image) \in Octets
  BY <1>2, SizeIs
<1>4. PICK junk \in Byte : junk = memory[Len(image)]
  BY <1>1, <1>3
<1>5. ASSUME NEW i \in Octets PROVE memory[i] = Machine!ImageOctet(i, junk)
  <2>1. CASE i < Len(image)
    BY <1>1, <1>2, <2>1, SizeIs DEF ImageIn, Machine!ImageOctet
  <2>2. CASE i = Len(image)
    BY <1>2, <1>4, <2>2 DEF Machine!ImageOctet
  <2>3. CASE i > Len(image)
    <3>1. i >= pos /\ ~(i < Len(image)) /\ i # Len(image)
      BY <1>2, <2>3, SizeIs
    <3> QED
      BY <1>1, <3>1 DEF ImageIn, Machine!ImageOctet
  <2> QED
    BY <1>2, <2>1, <2>2, <2>3, SizeIs
<1>6. ASSUME NEW a \in Addr PROVE WordAt(a) = [l \in Lanes |-> Machine!ImageOctet(a + l, junk)]
  BY <1>5, AddrIs DEF WordAt
<1>7. [a \in Addr |-> WordAt(a)] = Machine!ImageWords(junk)
  BY <1>6, MachineOps DEF Machine!ImageWords
<1> QED
  BY <1>7

LEMMA RunStep ==
  ASSUME EnvInv, OpenFile \/ LoadOctet \/ LoadTooMuch \/ Start \/ Finish
  PROVE  [Machine!Next]_(Machine!devicesVars)
<1>1. /\ image' = image /\ ioIn' = ioIn /\ ioOut' = ioOut /\ data' = data /\ call' = call
      /\ (phase # "end" => ret = 0)
  BY DEF OpenFile, LoadOctet, LoadTooMuch, Start, Finish, EnvInv, RunOK
<1>2. DevicesInputs' = DevicesInputs /\ DevicesCall' = DevicesCall
      /\ DevicesCall' \in MachineRequests \cup {NoRequest}
  BY <1>1, CallStays DEF DevicesInputs
<1>3. CASE DevicesMem' = DevicesMem /\ DevicesStatus' = DevicesStatus
  BY <1>1, <1>2, <1>3 DEF Machine!devicesVars
<1>4. CASE (OpenFile \/ LoadTooMuch \/ Start) /\ phase' = "end"
  <2>1. DevicesStatus = "loading" /\ ~loaded /\ memory' = memory /\ ret' \in {-1, -2, -3} /\ phase' = "end"
    BY <1>4 DEF OpenFile, LoadTooMuch, Start, Return, DevicesStatus, loaded
  <2>2. DevicesStatus' = "failed" /\ ~loaded'
    BY <2>1 DEF DevicesStatus, Running, loaded
  <2>3. DevicesMem' = DevicesMem
    BY <2>1, <2>2 DEF DevicesMem
  <2> QED
    BY <1>1, <1>2, <2>1, <2>2, <2>3, FailStep
<1>5. CASE OpenFile /\ phase' # "end"
  <2>1. DevicesStatus = "loading" /\ ~loaded /\ phase' = "load"
    BY <1>5 DEF OpenFile, Return, DevicesStatus, loaded
  <2>2. DevicesStatus' = DevicesStatus /\ ~loaded'
    BY <2>1 DEF DevicesStatus, loaded
  <2> QED
    BY <1>3, <2>1, <2>2 DEF DevicesMem
<1>6. CASE LoadOctet
  <2>1. DevicesStatus = "loading" /\ ~loaded /\ phase' = "load"
    BY <1>6 DEF LoadOctet, DevicesStatus, loaded
  <2>2. DevicesStatus' = DevicesStatus /\ ~loaded'
    BY <2>1 DEF DevicesStatus, loaded
  <2> QED
    BY <1>3, <2>1, <2>2 DEF DevicesMem
<1>7. CASE Start /\ phase' # "end"
  <2>1. /\ phase = "load" /\ ~fin /\ memory' = memory /\ phase' = "run" /\ is_running' = TRUE
    BY <1>7 DEF Start, Return
  <2>2. DevicesStatus = "loading" /\ DevicesStatus' = "running" /\ loaded'
    BY <2>1 DEF DevicesStatus, Running, loaded
  <2>3. DevicesMem' = [a \in Addr |-> WordAt(a)]
    BY <2>1, <2>2 DEF DevicesMem, WordAt
  <2>4. Machine!Load
    BY <1>1, <1>2, <2>1, <2>2, <2>3, LoadedImage, MachineOps DEF Machine!Load
  <2> QED
    BY <2>4 DEF Machine!Next
<1>8. CASE Finish
  <2>1. phase = "run" /\ ~is_running /\ phase' = "end" /\ ret' = 0 /\ ret = 0 /\ is_running' = is_running
        /\ memory' = memory
    BY <1>1, <1>8 DEF Finish, Return
  <2>2. DevicesStatus = "finished" /\ DevicesStatus' = "finished" /\ loaded /\ loaded'
    BY <2>1 DEF DevicesStatus, Running, loaded
  <2> QED
    BY <1>3, <2>1, <2>2, MemStays
<1> QED
  BY <1>4, <1>5, <1>6, <1>7, <1>8 DEF LoadTooMuch, Return

(* While the program runs the memory of Devices is the octets in words.    *)
LEMMA RunningIs ==
  ASSUME EnvInv, Running
  PROVE  /\ DevicesStatus = "running" /\ loaded /\ phase = "run" /\ ret = 0 /\ is_running = TRUE
         /\ DevicesMem = [a \in Addr |-> WordAt(a)]
<1>1. phase = "run" /\ ret = 0 /\ is_running = TRUE
  BY DEF EnvInv, RunOK, Running
<1> QED
  BY <1>1 DEF DevicesStatus, loaded, Running, DevicesMem

LEMMA RaiseStep ==
  ASSUME EnvInv, NEW c \in Calls, call' = c, Running, Raise,
         \A a \in Addr : WordAt(a)' = WordAt(a)
  PROVE  Machine!Next
<1>1. phase' = "end" /\ ret' = -4 /\ image' = image /\ ioIn' = ioIn /\ ioOut' = ioOut /\ data' = data
  BY DEF Raise, Return
<1>2. DevicesStatus' = "failed" /\ loaded'
  BY <1>1 DEF DevicesStatus, loaded, Running
<1>3. DevicesMem' = DevicesMem
  BY <1>2, RunningIs DEF DevicesMem
<1> QED
  BY <1>1, <1>2, <1>3, CallShown, RunningIs, FailStep

LEMMA RunsOn ==
  ASSUME EnvInv, Running, phase' = phase, ret' = ret, is_running' = TRUE
  PROVE  DevicesStatus' = "running" /\ DevicesMem' = [a \in Addr |-> WordAt(a)']
<1>1. phase' = "run"
  BY RunningIs
<1> QED
  BY <1>1 DEF DevicesStatus, loaded, Running, DevicesMem

LEMMA ReadStep ==
  ASSUME EnvInv, NEW c \in Calls, c.rw = "r", ReadMemory(c.addr), call' = c
  PROVE  Machine!Next
<1>0. Running /\ memory' = memory /\ \A a : WordAt(a)' = WordAt(a)
  BY DEF ReadMemory, WordAt
<1>1. CASE Raise
  BY <1>0, <1>1, RaiseStep
<1>2. ASSUME ~Throws(c.addr), ~Partial(c.addr),
             IF c.addr = IN_ADDR THEN ReadInput ELSE data' = WordAt(c.addr) /\ UNCHANGED ioIn,
             UNCHANGED <<image, runVars, is_running, ioOut>>
      PROVE  Machine!Next
  <2>1. c.addr \in Addr
    BY <1>2, AddrIs, SizeIs, CallIs DEF Throws, Partial
  <2>2. DevicesCall' = c /\ c \in MachineRequests
    BY <2>1, CallShown
  <2>3. image' = image /\ ioOut' = ioOut /\ phase' = phase /\ ret' = ret /\ is_running' = TRUE
    BY <1>0, <1>2, RunningIs DEF runVars
  <2>4. DevicesStatus = "running" /\ DevicesStatus' = "running"
    BY <1>0, <2>3, RunningIs, RunsOn
  <2>5. DevicesMem' = DevicesMem /\ DevicesMem[c.addr] = WordAt(c.addr)
    BY <1>0, <2>1, <2>3, RunningIs, RunsOn
  <2>6. ioIn \in [left : 0 .. INPUT, good : BOOLEAN]
    BY DEF EnvInv, DataOK
  <2>7. INPUT \in Nat /\ INPUT - ioIn.left \in Nat /\ ioIn.left \in Nat
    BY <2>6, SizeIs
  <2>8. CASE c.addr # IN_ADDR
    <3>1. data' = DevicesMem[c.addr] /\ ioIn' = ioIn /\ DevicesInputs' = DevicesInputs
      BY <1>2, <2>5, <2>8 DEF DevicesInputs
    <3>2. data' = Machine!Value(DevicesMem, DevicesInputs, c.addr)
          /\ DevicesInputs' = Machine!Consumed(DevicesInputs, c)
      BY <2>8, <3>1, MachineOps DEF Value, Consumed
    <3> QED
      BY <2>2, <2>3, <2>4, <2>5, <2>8, <3>1, <3>2 DEF Machine!Next, Machine!Read, MachineRequests
  <2>9. CASE c.addr = IN_ADDR /\ ~ioIn.good
    <3>1. data' = AllSet /\ ioIn' = ioIn /\ DevicesInputs' = DevicesInputs
      BY <1>2, <2>9 DEF ReadInput, DevicesInputs
    <3> QED
      BY <2>2, <2>3, <2>4, <2>5, <2>9, <3>1, MachineOps DEF Machine!Next, Machine!Read, MachineRequests
  <2>10. CASE c.addr = IN_ADDR /\ ioIn.good /\ ioIn.left > 0
    <3>1. data' = Char(DevicesInputs) /\ ioIn' = [ioIn EXCEPT !.left = @ - 1]
      BY <1>2, <2>7, <2>10 DEF ReadInput, DevicesInputs
    <3>2. ioIn'.left = ioIn.left - 1 /\ ioIn'.good = ioIn.good
      BY <2>6, <3>1
    <3>3. INPUT - ioIn'.left = (INPUT - ioIn.left) + 1
      BY <2>7, <3>2
    <3>4. DevicesInputs' = Next1(DevicesInputs)
      BY <2>7, <3>3, NextChar DEF DevicesInputs
    <3>5. data' = Machine!Value(DevicesMem, DevicesInputs, c.addr)
          /\ DevicesInputs' = Machine!Consumed(DevicesInputs, c)
      BY <2>10, <3>1, <3>4, MachineOps DEF Value, Consumed
    <3> QED
      BY <2>2, <2>3, <2>4, <2>5, <2>10, <3>2, <3>5 DEF Machine!Next, Machine!Read, MachineRequests
  <2>11. CASE c.addr = IN_ADDR /\ ioIn.good /\ ~(ioIn.left > 0)
    <3>1. /\ \E rbuf \in Byte : data' = Char(rbuf)
          /\ ioIn' = [ioIn EXCEPT !.good = FALSE] /\ ioIn.left = 0
      BY <1>2, <2>7, <2>11 DEF ReadInput
    <3>2. ioIn'.left = ioIn.left /\ ~ioIn'.good
      BY <2>6, <3>1
    <3>3. DevicesInputs' = DevicesInputs
      BY <3>2 DEF DevicesInputs
    <3>4. (~ioIn.good)' = TRUE /\ ~(~ioIn.good)
      BY <2>11, <3>2, Zenon
    <3> QED
      BY <2>2, <2>3, <2>4, <2>5, <2>11, <3>1, <3>2, <3>3, <3>4, MachineOps
      DEF Machine!Next, Machine!Read, MachineRequests
  <2> QED
    BY <2>8, <2>9, <2>10, <2>11
<1> QED
  BY <1>1, <1>2 DEF ReadMemory

(* A store changes the octets of its own word that the mask selects.       *)
LEMMA StoreOthers ==
  ASSUME NEW c \in Calls, c.addr % LANES = 0, Store(c.addr, c.w_data, c.mask),
         NEW b \in Addr, b # c.addr
  PROVE  WordAt(b)' = WordAt(b)
<1>1. ASSUME NEW l \in Lanes
      PROVE  memory'[b + l] = memory[b + l]
  <2>1. b \in Nat /\ c.addr \in Nat /\ b % LANES = 0 /\ b + l \in Octets /\ l \in 0 .. LANES - 1
    BY AddrIs, SizeIs, CallIs
  <2>2. c.mask \subseteq 0 .. LANES - 1 /\ LANES \in Nat
    BY SizeIs, CallIs
  <2>3. CASE b < c.addr
    <3>1. b + LANES <= c.addr
      BY <2>1, <2>3, WordsApart
    <3>2. ~((b + l) >= c.addr)
      BY <2>1, <2>2, <3>1
    <3> QED
      BY <2>1, <3>2 DEF Store
  <2>4. CASE c.addr < b
    <3>1. c.addr + LANES <= b
      BY <2>1, <2>4, WordsApart
    <3>2. (b + l) - c.addr \notin c.mask
      BY <2>1, <2>2, <3>1
    <3> QED
      BY <2>1, <3>2 DEF Store
  <2> QED
    BY <2>1, <2>3, <2>4
<1> QED
  BY <1>1 DEF WordAt

LEMMA StoreOwn ==
  ASSUME NEW c \in Calls, c.addr \in Addr, Store(c.addr, c.w_data, c.mask)
  PROVE  WordAt(c.addr)' = Masked(WordAt(c.addr), c.w_data, c.mask)
<1>1. ASSUME NEW l \in Lanes
      PROVE  memory'[c.addr + l] = IF l \in c.mask THEN c.w_data[l] ELSE memory[c.addr + l]
  <2>0. c.addr + l \in Octets /\ c.addr \in Nat
    BY AddrIs, Zenon
  <2>1. c.addr \in Nat /\ c.addr + l \in Octets /\ l \in Nat
    BY <2>0, SizeIs
  <2>2. (c.addr + l) - c.addr = l /\ c.addr + l >= c.addr
    BY <2>1
  <2> QED
    BY <2>1, <2>2 DEF Store
<1> QED
  BY <1>1 DEF WordAt, Masked

LEMMA WriteStep ==
  ASSUME EnvInv, NEW c \in Calls, c.rw = "w", WriteMemory(c.addr, c.w_data, c.mask), call' = c
  PROVE  Machine!Next
<1>0. Running
  BY DEF WriteMemory
<1>1. CASE Throws(c.addr) /\ Raise /\ UNCHANGED memory
  BY <1>0, <1>1, RaiseStep DEF WordAt
<1>2. CASE ~Throws(c.addr) /\ Stored(c.addr) /\ Store(c.addr, c.w_data, c.mask)
           /\ Raise /\ \E l \in c.mask : c.addr + l >= MEM_SIZE
  <2>1. c.addr \notin Addr /\ c.addr % LANES = 0
    BY <1>2, AddrIs, SizeIs, CallIs DEF Throws
  <2>2. \A b \in Addr : WordAt(b)' = WordAt(b)
    BY <1>2, <2>1, StoreOthers
  <2> QED
    BY <1>0, <1>2, <2>2, RaiseStep
<1>3. CASE ~Throws(c.addr) /\ Stored(c.addr) /\ Store(c.addr, c.w_data, c.mask)
           /\ UNCHANGED <<image, runVars, ioIn, is_running, ioOut, data>>
  <2>1. c.addr % LANES = 0 /\ c.addr \notin {IN_ADDR, OUT_ADDR, FINISH_ADDR} /\ c.addr >= HIGH_ADDR
    BY <1>3, SizeIs, CallIs DEF Throws, Stored
  <2>2. image' = image /\ ioIn' = ioIn /\ ioOut' = ioOut /\ data' = data /\ phase' = phase
        /\ ret' = ret /\ is_running' = TRUE
    BY <1>0, <1>3, RunningIs DEF runVars
  <2>3. DevicesStatus = "running" /\ DevicesStatus' = "running" /\ DevicesInputs' = DevicesInputs
    BY <1>0, <2>2, RunningIs, RunsOn DEF DevicesInputs
  <2>4. CASE c.addr \in Addr
    <3>1. DevicesCall' = c /\ c \in MachineRequests
      BY <2>4, CallShown
    <3>2. DevicesMem' = [DevicesMem EXCEPT ![c.addr] = Masked(@, c.w_data, c.mask)]
      <4>1. DevicesMem = [a \in Addr |-> WordAt(a)] /\ DevicesMem' = [a \in Addr |-> WordAt(a)']
        BY <1>0, <2>2, RunningIs, RunsOn
      <4>2. \A b \in Addr : b # c.addr => WordAt(b)' = WordAt(b)
        BY <1>3, <2>1, StoreOthers
      <4>3. WordAt(c.addr)' = Masked(WordAt(c.addr), c.w_data, c.mask)
        BY <1>3, <2>4, StoreOwn
      <4> QED
        BY <2>4, <4>1, <4>2, <4>3
    <3>3. DevicesMem' = Machine!Written(DevicesMem, c)
      BY <2>1, <3>2, MachineOps DEF Written
    <3>4. c.addr \notin Protected
      BY <2>1, SizeIs, CallIs DEF Protected
    <3>5. ioOut' = Machine!Shown(ioOut, c)
      BY <2>1, <2>2, MachineOps DEF Shown
    <3> QED
      BY <2>1, <2>2, <2>3, <3>1, <3>3, <3>4, <3>5
      DEF Machine!Next, Machine!Write, MachineRequests, Protected
  <2>5. CASE c.addr \notin Addr
    <3>1. DevicesCall' = NoRequest
      BY <2>5, CallShown
    <3>2. DevicesMem' = DevicesMem
      BY <1>0, <1>3, <2>1, <2>2, <2>5, StoreOthers, RunningIs, RunsOn
    <3> QED
      BY <2>2, <2>3, <3>1, <3>2, MachineOps DEF Machine!Next, Machine!StoreBehind
  <2> QED
    BY <2>4, <2>5
<1>4. ASSUME ~Throws(c.addr), ~Stored(c.addr),
             ioOut' = IF c.addr = OUT_ADDR /\ 0 \in c.mask
                      THEN [count |-> Next1(ioOut.count), last |-> c.w_data[0]] ELSE ioOut,
             is_running' = ~(c.addr = FINISH_ADDR /\ 0 \in c.mask /\ c.w_data[0] = BYTE - 1),
             UNCHANGED <<image, runVars, ioIn, memory, data>>
      PROVE  Machine!Next
  <2> DEFINE Ends == c.addr = FINISH_ADDR /\ 0 \in c.mask /\ c.w_data[0] = BYTE - 1
  <2>1. image' = image /\ ioIn' = ioIn /\ data' = data /\ phase' = "run" /\ ret' = 0 /\ memory' = memory
    BY <1>0, <1>4, RunningIs DEF runVars
  <2>2. DevicesStatus = "running" /\ DevicesInputs' = DevicesInputs
    BY <1>0, <2>1, RunningIs DEF DevicesInputs
  <2>3. loaded /\ loaded' /\ DevicesMem' = DevicesMem
    BY <1>0, <2>1, RunningIs, MemStays DEF loaded
  <2>4. DevicesStatus' = IF Ends THEN "finished" ELSE "running"
    <3>1. is_running' = ~Ends
      BY <1>4
    <3> QED
      BY <2>1, <3>1, Zenon DEF DevicesStatus, Running
  <2>5. CASE c.addr \in Addr
    <3>1. DevicesCall' = c /\ c \in MachineRequests
      BY <2>5, CallShown
    <3>2. ioOut' = Machine!Shown(ioOut, c)
      BY <1>4, MachineOps DEF Shown
    <3>3. c.addr \in Protected \/ c.addr \in {IN_ADDR, OUT_ADDR}
      BY <1>4, <2>5, SizeIs, CallIs DEF Protected, Stored
    <3>4. DevicesMem' = IF c.addr \in Protected THEN DevicesMem ELSE Machine!Written(DevicesMem, c)
      BY <2>3, <3>3, MachineOps DEF Written
    <3>5. Machine!Write(c)
      BY <2>1, <2>2, <2>4, <3>2, <3>4 DEF Machine!Write, Protected
    <3> QED
      BY <3>1, <3>5 DEF Machine!Next, MachineRequests
  <2>6. CASE c.addr \notin Addr
    <3>1. DevicesCall' = NoRequest /\ c.addr \notin {IN_ADDR, OUT_ADDR, FINISH_ADDR}
      BY <2>6, CallShown, AddrIs
    <3>2. ioOut' = ioOut /\ DevicesStatus' = "running"
      BY <1>4, <2>4, <3>1
    <3> QED
      BY <2>1, <2>2, <2>3, <3>1, <3>2, MachineOps DEF Machine!Next, Machine!StoreBehind
  <2> QED
    BY <2>5, <2>6
<1> QED
  BY <1>1, <1>2, <1>3, <1>4 DEF WriteMemory

(* Run, ReadMemory and WriteMemory (environment.cpp), octet by octet and   *)
(* with every refusal and exception, do what Devices says of words, for    *)
(* every size of memory, image, input and program.                         *)
THEOREM EnvironmentRefinement == EnvironmentSpec => ImplementsDevices
<1>1. EnvironmentInit => EnvInv /\ Machine!Init
  BY EnvStarts
<1>2. EnvInv /\ [EnvironmentNext]_environmentVars => EnvInv'
  BY EnvInvKept
<1>3. EnvInv /\ [EnvironmentNext]_environmentVars => [Machine!Next]_(Machine!devicesVars)
  <2> SUFFICES ASSUME EnvInv, [EnvironmentNext]_environmentVars
               PROVE  [Machine!Next]_(Machine!devicesVars)
    OBVIOUS
  <2>1. CASE UNCHANGED environmentVars
    <3>1. /\ image' = image /\ phase' = phase /\ ret' = ret /\ ioIn' = ioIn /\ memory' = memory
          /\ is_running' = is_running /\ ioOut' = ioOut /\ data' = data /\ call' = call
      BY <2>1 DEF environmentVars, runVars
    <3>2. DevicesStatus' = DevicesStatus /\ loaded' = loaded
      BY <3>1 DEF DevicesStatus, Running, loaded
    <3>3. DevicesMem' = DevicesMem /\ DevicesCall' = DevicesCall /\ DevicesInputs' = DevicesInputs
      BY <3>1, <3>2, MemStays DEF DevicesCall, DevicesInputs
    <3> QED
      BY <3>1, <3>2, <3>3 DEF Machine!devicesVars
  <2> QED
    BY <2>1, RunStep, ReadStep, WriteStep DEF EnvironmentNext
<1> QED
  BY <1>1, <1>2, <1>3, PTL DEF EnvironmentSpec, ImplementsDevices, Machine!Spec
=============================================================================
