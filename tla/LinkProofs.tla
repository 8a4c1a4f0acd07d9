----------------------------- MODULE LinkProofs -----------------------------
(***************************************************************************)
(* The link implements the pair of queues the memory controller takes it   *)
(* for (Link!ImplementsChannel), for every number of ids, size of buffers, *)
(* lengths of packets and response, and every number and place of lost     *)
(* bytes; and with the reset button too, as long as fewer than three bytes *)
(* are lost.                                                               *)
(*                                                                         *)
(* The inductive invariant LinkOK says of every byte on its way which one  *)
(* it is: the o-th of the packet of owed[k], whose id is k behind the last *)
(* one the Adapter accepted.  In step, the bytes come in that order, some  *)
(* missing, and the Adapter has met those of the first packet at most.     *)
(* Probing, from a reset to the answer to the first fetch, the line holds  *)
(* what is left of packets from before the reset and behind it the fetch.  *)
(***************************************************************************)
EXTENDS Link, Integers, SequenceTheorems, TLAPS

(* How many of the requests owed have been taken from the send buffer.     *)
Ix == Len(owed) - Len(send_buffer)

(* k behind i, modulo n. *)
Wrapped(i, k, n) == IF i + k >= n THEN i + k - n ELSE i + k

IdOf(k) == Wrapped(a_recv_id, k, IDS)

(* The o-th byte of the packet of owed[k].                                 *)
Last(m) == Parts(m) + 4
ByteOf(m, i, o) ==
    CASE o = 1 -> HeadByte(i)
      [] o = 2 -> ChannelByte
      [] o = 3 -> LengthByte(Parts(m))
      [] o > 3 /\ o < Last(m) -> DataByte(m, o - 3)
      [] o = Last(m) -> EndByte(i)

(* How much of the packet it is at the sender has sent.                    *)
SentOff == CASE send_status = "CHANNEL" -> 1
             [] send_status = "LENGTH" -> 2
             [] send_status = "DATA" -> 3 + send_bit
             [] OTHER -> 3 + Parts(send_buf)
Sent(k, o) == k < Ix \/ send_status = "IDLE" \/ o <= SentOff

Before(k, o, l, p) == k < l \/ (k = l /\ o < p)

DataBytes == [kind : {"data"}, of : Request, part : Nat]
Bytes == [kind : {"head", "end"}, id : Ids] \cup {ChannelByte, Stump}
            \cup [kind : {"length"}, parts : Nat] \cup DataBytes

(* data are parts of m, in their order, from among the first n - 3.        *)
Gathered(data, m, n) ==
    /\ Len(data) <= n - 3
    /\ \A j \in 1 .. Len(data) :
          /\ data[j] = DataByte(m, data[j].part)
          /\ j <= data[j].part /\ data[j].part <= n - 3 - (Len(data) - j)

(* A receiver whose last byte was the n-th of m's packet of so many parts, *)
(* and that has met no other packet.                                       *)
Halfway(state, data, length, m, parts, n) ==
    /\ state = "DATA" => length = parts /\ Len(data) < parts /\ Gathered(data, m, n)
    /\ state = "END" => Len(data) = parts /\ Gathered(data, m, n)

States == {"IDLE", "CHANNEL", "LENGTH", "DATA", "END"}

TypeOK ==
    /\ owed \in Seq(Request) /\ send_buffer \in Seq(Request)
    /\ up \in Seq(Bytes) /\ down \in Seq(Bytes)
    /\ Len(owed) <= WINDOW /\ Len(send_buffer) <= Len(owed)
    /\ tag \in 0 .. TAGS - 1 /\ a_recv_id \in Ids /\ a_send_id \in Ids /\ packet_id \in Ids
    /\ send_status \in States /\ a_state \in States /\ recv_status \in States
    /\ a_data \in Seq(DataBytes) /\ recv_data \in Seq(DataBytes)
    /\ waiting \in BOOLEAN /\ fresh \in BOOLEAN /\ stale \in 0 .. Len(owed) /\ losses \in Nat
    /\ a_state \in {"CHANNEL", "LENGTH"} => a_data = <<>>
    /\ recv_status \in {"CHANNEL", "LENGTH"} => recv_data = <<>>

(* The requests owed are told apart, and the client awaits the last.       *)
OwedOK ==
    /\ \A k \in 1 .. Len(owed) : Wrapped(owed[k].tag, Len(owed) + 1 - k, TAGS) = tag
    /\ \A i \in 1 .. Len(send_buffer) : send_buffer[i] = owed[Ix + i]
    /\ \A k \in 1 .. Len(owed) : owed[k].rw = "r" /\ k > stale => k = Len(owed) /\ waiting
    /\ waiting => IF owed = <<>> THEN performed \in Request ELSE owed[Len(owed)].rw = "r"

SenderOK ==
    send_status # "IDLE" =>
       /\ Ix >= 1 /\ send_buf = owed[Ix]
       /\ send_status \in {"CHANNEL", "LENGTH"} => send_bit = 0
       /\ send_status = "DATA" => send_bit \in 0 .. Parts(send_buf) - 1

(* The response that is on its way, and what has come of it.               *)
RespLast == RESPONSE_PARTS + 4
Gone == RespLast - Len(down)
RespByte(b, o) ==
    /\ b.kind = (CASE o = 1 -> "head" [] o = 2 -> "channel" [] o = 3 -> "length"
                   [] o > 3 /\ o < RespLast -> "data" [] o = RespLast -> "end")
    /\ o = 3 => b.parts = RESPONSE_PARTS
    /\ o > 3 /\ o < RespLast => b = DataByte(performed, o - 3)
DownOK ==
    /\ ~waiting \/ owed # <<>> => down = <<>> /\ recv_status = "IDLE" /\ read_buffer = <<>>
    /\ read_buffer # <<>> => /\ down = <<>> /\ recv_status = "IDLE"
                             /\ read_buffer = <<Whole(performed, RESPONSE_PARTS)>>
    /\ Len(down) <= RespLast
    /\ \A i \in 1 .. Len(down) : RespByte(down[i], Gone + i)
    /\ Halfway(recv_status, recv_data, recv_length, performed, RESPONSE_PARTS, Gone)

(* The bytes of up are those at off of the packets pk, in their order, and *)
(* behind the last one that the Adapter has taken, ao of ak.               *)
UpOK(pk, off, ak, ao) ==
    /\ pk \in Seq(Nat) /\ off \in Seq(Nat) /\ Len(pk) = Len(up) /\ Len(off) = Len(up)
    /\ ak \in 0 .. Ix /\ ao \in Nat /\ Sent(ak, ao)
    /\ \A i \in 1 .. Len(up) :
          /\ pk[i] \in 1 .. Ix /\ off[i] \in 1 .. Last(owed[pk[i]])
          /\ up[i] = ByteOf(owed[pk[i]], IdOf(pk[i]), off[i])
          /\ Sent(pk[i], off[i]) /\ Before(ak, ao, pk[i], off[i])
    /\ \A i, j \in 1 .. Len(up) : i < j => Before(pk[i], off[i], pk[j], off[j])
    /\ ak = 0 => a_state = "IDLE"
    /\ ak = 1 => Halfway(a_state, a_data, a_length, owed[1], Parts(owed[1]), ao)

InStep ==
    /\ stale = 0 /\ packet_id = IdOf(Ix)
    /\ \E pk, off \in Seq(Nat), ak, ao \in Nat : UpOK(pk, off, ak, ao)

(* After a reset: the packets pk from before it, of the s oldest owed, and *)
(* what is left of a byte that was cut off.  No read is among them, or the *)
(* button would not have been pressed.                                     *)
OldIs(pk, off, ak, ao, s) ==
    /\ Len(pk) <= Len(up) /\ Len(off) = Len(pk) /\ ak \in 0 .. s
    /\ \A i \in 1 .. Len(pk) : up[i] # Stump =>
          /\ pk[i] \in 1 .. s /\ off[i] \in 1 .. Last(owed[pk[i]]) /\ owed[pk[i]].rw = "w"
          /\ up[i] = ByteOf(owed[pk[i]], IdOf(pk[i]), off[i])
          /\ Before(ak, ao, pk[i], off[i])
    /\ \A i, j \in 1 .. Len(pk) :
          i < j /\ up[i] # Stump /\ up[j] # Stump => Before(pk[i], off[i], pk[j], off[j])
    /\ ak = 0 => a_state = "IDLE"
    /\ ak = 1 => Halfway(a_state, a_data, a_length, owed[1], Parts(owed[1]), ao)

(* Behind them come the bytes of the first fetch, sent with the id 1, but  *)
(* for the l that are gone.                                                *)
Fetched ==
    IF Ix = stale THEN 0 ELSE IF send_status = "IDLE" THEN Last(owed[stale + 1]) ELSE SentOff
NewIs(n, l) ==
    /\ n + Fetched = Len(up) + l
    /\ \A i \in 1 .. Len(up) - n : up[n + i] = ByteOf(owed[stale + 1], 1, l + i)

(* Either all that are gone are lost, or the Adapter has met the fetch.    *)
Met(l) ==
    /\ Len(owed) = stale + 1
    /\ Halfway(a_state, a_data, a_length, owed[stale + 1], Parts(owed[stale + 1]), l)

Phase ==
    \/ Len(owed) = stale /\ fresh = TRUE /\ waiting = FALSE
    \/ Len(owed) = stale + 1 /\ fresh = FALSE /\ waiting = TRUE

Line ==
    \E pk, off \in Seq(Nat), l, s \in Nat :
       /\ s = stale /\ NewIs(Len(pk), l)
       /\ \/ l <= losses /\ \E ak, ao \in Nat : OldIs(pk, off, ak, ao, s)
          \/ Len(pk) = 0 /\ Met(l)

Probing ==
    /\ Phase
    /\ Ix >= stale /\ packet_id = Ix - stale
    /\ send_status # "IDLE" => Ix = stale + 1
    /\ Line

Common == TypeOK /\ OwedOK /\ SenderOK /\ DownOK
LinkInv == Common /\ InStep

-----------------------------------------------------------------------------
LEMMA PartsIs ==
  ASSUME NEW m \in Request
  PROVE  /\ Parts(m) \in Nat \ {0} /\ Parts(m) \in {READ_PARTS, WRITE_PARTS}
         /\ Last(m) = Parts(m) + 4 /\ Last(m) \in Nat
BY LinkAssumption DEF Parts, Last

(* A byte of a packet says what it is by its kind.                         *)
LEMMA ByteIs ==
  ASSUME NEW m \in Request, NEW i, NEW o \in 1 .. Last(m), NEW b, b = ByteOf(m, i, o)
  PROVE  /\ b.kind = "length" => o = 3 /\ b.parts = Parts(m)
         /\ b.kind = "data" => o > 3 /\ o < Last(m) /\ b = DataByte(m, o - 3) /\ b \in DataBytes
         /\ b.kind = "end" => o = Last(m) /\ b.id = i
<1>0. Parts(m) \in Nat \ {0} /\ Last(m) = Parts(m) + 4
  BY PartsIs
<1>1. CASE o = 1
  <2>1. b = [kind |-> "head", id |-> i]
    BY <1>0, <1>1 DEF ByteOf, HeadByte
  <2> QED
    BY <2>1
<1>2. CASE o = 2
  <2>1. b = [kind |-> "channel"]
    BY <1>0, <1>2 DEF ByteOf, ChannelByte
  <2> QED
    BY <2>1
<1>3. CASE o = 3
  <2>1. b = [kind |-> "length", parts |-> Parts(m)]
    BY <1>0, <1>3 DEF ByteOf, LengthByte
  <2> QED
    BY <1>3, <2>1
<1>4. CASE o > 3 /\ o < Last(m)
  <2>1. b = [kind |-> "data", of |-> m, part |-> o - 3] /\ o - 3 \in Nat
    BY <1>0, <1>4 DEF ByteOf, DataByte
  <2> QED
    BY <1>4, <2>1 DEF DataByte, DataBytes
<1>5. CASE o = Last(m)
  <2>1. b = [kind |-> "end", id |-> i]
    BY <1>0, <1>5 DEF ByteOf, EndByte
  <2> QED
    BY <1>5, <2>1
<1> QED
  BY <1>0, <1>1, <1>2, <1>3, <1>4, <1>5

LEMMA GatherKeep ==
  ASSUME NEW data \in Seq(DataBytes), NEW m, NEW n \in Int, NEW o \in Int, o >= n, Gathered(data, m, n)
  PROVE  Gathered(data, m, o)
<1> SUFFICES ASSUME NEW j \in 1 .. Len(data)
             PROVE  data[j].part <= o - 3 - (Len(data) - j)
  BY DEF Gathered
<1>0. data[j] \in DataBytes
  BY ElementOfSeq
<1>1. data[j].part \in Nat /\ data[j].part <= n - 3 - (Len(data) - j)
  BY <1>0 DEF Gathered, DataBytes
<1> QED
  BY <1>1

LEMMA GatherMore ==
  ASSUME NEW data \in Seq(DataBytes), NEW m \in Request, NEW n \in Int, NEW o \in Int,
         o > n, o > 3, Gathered(data, m, n)
  PROVE  Gathered(Append(data, DataByte(m, o - 3)), m, o)
<1> DEFINE b == DataByte(m, o - 3)
           d == Append(data, b)
<1>1. Len(d) = Len(data) + 1 /\ Len(data) \in Nat /\ Len(data) <= n - 3
  BY DEF Gathered
<1>2. b.part = o - 3 /\ b = DataByte(m, b.part)
  BY DEF DataByte
<1>3. ASSUME NEW j \in 1 .. Len(data)
      PROVE  /\ d[j] = DataByte(m, d[j].part)
             /\ j <= d[j].part /\ d[j].part <= o - 3 - (Len(d) - j)
  <2>0. data[j] \in DataBytes
    BY ElementOfSeq
  <2>1. d[j] = data[j] /\ data[j].part \in Nat
    BY <2>0 DEF DataBytes
  <2>2. /\ data[j] = DataByte(m, data[j].part)
        /\ j <= data[j].part /\ data[j].part <= n - 3 - (Len(data) - j)
    BY DEF Gathered
  <2> QED
    BY <1>1, <2>1, <2>2
<1>4. d[Len(d)] = b
  BY <1>1
<1> QED
  BY <1>1, <1>2, <1>3, <1>4 DEF Gathered

LEMMA GatherWhole ==
  ASSUME NEW data \in Seq(DataBytes), NEW m, NEW n \in Int, NEW parts \in Nat, n <= 3 + parts,
         Len(data) = parts, Gathered(data, m, n)
  PROVE  data = Whole(m, parts)
<1>1. ASSUME NEW j \in 1 .. parts
      PROVE  data[j] = DataByte(m, j)
  <2>0. data[j] \in DataBytes
    BY ElementOfSeq
  <2>1. data[j].part \in Nat
    BY <2>0 DEF DataBytes
  <2>2. /\ data[j] = DataByte(m, data[j].part)
        /\ j <= data[j].part /\ data[j].part <= n - 3 - (parts - j)
    BY DEF Gathered
  <2>3. data[j].part = j
    BY <2>1, <2>2
  <2> QED
    BY <2>2, <2>3
<1> QED
  BY <1>1 DEF Whole

(* Both receivers, at any byte that is of the kind their state expects or  *)
(* of another.                                                             *)
LEMMA CollectedIs ==
  ASSUME NEW state \in States, NEW data \in Seq(DataBytes), NEW length, NEW b,
         state \in {"CHANNEL", "LENGTH"} => data = <<>>, b.kind = "data" => b \in DataBytes
  PROVE  /\ After(state, b, data, length) \in States
         /\ Collected(state, b, data) \in Seq(DataBytes)
         /\ After(state, b, data, length) \in {"CHANNEL", "LENGTH"} => Collected(state, b, data) = <<>>
<1>1. After(state, b, data, length) \in States
  BY DEF After, States
<1>2. Collected(state, b, data) \in Seq(DataBytes)
  BY DEF Collected
<1>3. After(state, b, data, length) \in {"CHANNEL", "LENGTH"} => state \in {"IDLE", "CHANNEL"}
  BY DEF After, States
<1>4. After(state, b, data, length) \in {"CHANNEL", "LENGTH"} => Collected(state, b, data) = <<>>
  BY <1>3 DEF Collected
<1> QED
  BY <1>1, <1>2, <1>4

LEMMA HalfwayStep ==
  ASSUME NEW m \in Request, NEW parts \in Nat \ {0}, NEW state \in States, NEW data \in Seq(DataBytes),
         NEW length, NEW n \in Int, NEW o \in Int, o > n, NEW b,
         state \in {"CHANNEL", "LENGTH"} => data = <<>>,
         Halfway(state, data, length, m, parts, n),
         b.kind = "length" => o = 3 /\ b.parts = parts,
         b.kind = "data" => o > 3 /\ b = DataByte(m, o - 3)
  PROVE  Halfway(After(state, b, data, length), Collected(state, b, data), LengthIn(state, b, length),
                 m, parts, o)
<1> DEFINE s == After(state, b, data, length)
           d == Collected(state, b, data)
           l == LengthIn(state, b, length)
<1>1. CASE ~Follows(state, b.kind) \/ state \in {"IDLE", "CHANNEL", "END"}
  <2>1. s \notin {"DATA", "END"}
    BY <1>1 DEF After
  <2> QED
    BY <2>1 DEF Halfway
<1>2. CASE state = "LENGTH" /\ Follows(state, b.kind)
  <2>1. s = "DATA" /\ d = <<>> /\ l = parts /\ o = 3
    BY <1>2 DEF After, Collected, LengthIn, Follows
  <2> QED
    BY <2>1 DEF Halfway, Gathered
<1>3. CASE state = "DATA" /\ Follows(state, b.kind)
  <2>1. b.kind = "data" /\ b = DataByte(m, o - 3) /\ o > 3
    BY <1>3 DEF Follows
  <2>2. d = Append(data, b) /\ l = length /\ s = IF Len(data) + 1 >= length THEN "END" ELSE "DATA"
    BY <1>3, <2>1 DEF After, Collected, LengthIn
  <2>3. length = parts /\ Len(data) < parts /\ Gathered(data, m, n)
    BY <1>3 DEF Halfway
  <2>4. Gathered(Append(data, DataByte(m, o - 3)), m, o)
    BY <2>1, <2>3, GatherMore
  <2>5. Len(d) = Len(data) + 1
    BY <2>2
  <2>6. Gathered(d, m, o)
    BY <2>1, <2>2, <2>4, Zenon
  <2> QED
    BY <2>2, <2>3, <2>5, <2>6 DEF Halfway
<1> QED
  BY <1>1, <1>2, <1>3 DEF States

LEMMA HalfwayKeep ==
  ASSUME NEW data \in Seq(DataBytes), NEW state, NEW length, NEW m, NEW parts, NEW n \in Int, NEW o \in Int,
         o >= n, Halfway(state, data, length, m, parts, n)
  PROVE  Halfway(state, data, length, m, parts, o)
BY GatherKeep DEF Halfway

-----------------------------------------------------------------------------
LEMMA TailType ==
  ASSUME NEW S, NEW s \in Seq(S), s # <<>>
  PROVE  Tail(s) \in Seq(S)
BY HeadTailProperties

LEMMA ConstantsAre ==
  /\ IDS \in Nat /\ IDS >= 2 /\ SIZE \in Nat /\ SIZE >= 1 /\ TAGS \in Nat /\ TAGS >= 1 /\ WINDOW \in Nat /\ WINDOW < TAGS
  /\ READ_PARTS \in Nat \ {0} /\ WRITE_PARTS \in Nat \ {0} /\ READ_PARTS # WRITE_PARTS
  /\ RESPONSE_PARTS \in Nat \ {0} /\ Ids = 0 .. IDS - 1
BY LinkAssumption DEF Ids

LEMMA NextOf ==
  ASSUME NEW n \in Nat, n >= 1, NEW i \in 0 .. n - 1
  PROVE  (i + 1) % n = (IF i + 1 = n THEN 0 ELSE i + 1)
OBVIOUS

LEMMA WrappedIs ==
  ASSUME NEW n \in Nat, n >= 1, NEW i \in 0 .. n - 1, NEW k \in 0 .. n
  PROVE  /\ Wrapped(i, k, n) \in 0 .. n - 1 /\ Wrapped(i, 0, n) = i
         /\ k + 1 <= n => /\ Wrapped(i, k + 1, n) = (Wrapped(i, k, n) + 1) % n
                          /\ Wrapped((i + 1) % n, k, n) = Wrapped(i, k + 1, n)
<1>1. Wrapped(i, k, n) \in 0 .. n - 1 /\ Wrapped(i, 0, n) = i
  BY DEF Wrapped
<1>2. (i + 1) % n = (IF i + 1 = n THEN 0 ELSE i + 1)
      /\ (Wrapped(i, k, n) + 1) % n = (IF Wrapped(i, k, n) + 1 = n THEN 0 ELSE Wrapped(i, k, n) + 1)
  BY <1>1, NextOf
<1> QED
  BY <1>1, <1>2 DEF Wrapped

LEMMA WrapOne ==
  ASSUME NEW n \in Nat, n >= 1, NEW i \in 0 .. n - 1, NEW k \in 1 .. n
  PROVE  /\ Wrapped(i, 1, n) = (i + 1) % n
         /\ Wrapped(i, k, n) = Wrapped(i, 1, n) => k = 1
BY NextOf DEF Wrapped

LEMMA WrapMore ==
  ASSUME NEW n \in Nat, n >= 1, NEW i \in 0 .. n - 1, NEW k \in 0 .. n, k + 1 <= n
  PROVE  Wrapped(i, k + 1, n) = (Wrapped(i, k, n) + 1) % n
BY WrappedIs

LEMMA ByteTypes ==
  ASSUME NEW m \in Request, NEW i \in Ids, NEW o \in 1 .. Last(m)
  PROVE  ByteOf(m, i, o) \in Bytes
<1>0. Parts(m) \in Nat \ {0} /\ Last(m) = Parts(m) + 4
  BY PartsIs
<1>1. CASE o = 1
  BY <1>0, <1>1 DEF ByteOf, HeadByte, Bytes
<1>2. CASE o = 2
  BY <1>0, <1>2 DEF ByteOf, ChannelByte, Bytes
<1>3. CASE o = 3
  BY <1>0, <1>3 DEF ByteOf, LengthByte, Bytes
<1>4. CASE o > 3 /\ o < Last(m)
  BY <1>0, <1>4 DEF ByteOf, DataByte, Bytes, DataBytes
<1>5. CASE o = Last(m)
  BY <1>0, <1>5 DEF ByteOf, EndByte, Bytes
<1> QED
  BY <1>0, <1>1, <1>2, <1>3, <1>4, <1>5

LEMMA ByteKinds ==
  ASSUME NEW b \in Bytes, b.kind = "data"
  PROVE  b \in DataBytes
BY DEF Bytes, ChannelByte, Stump

LEMMA InitInv == Init => LinkInv
<1> SUFFICES ASSUME Init PROVE LinkInv
  OBVIOUS
<1> USE ConstantsAre
<1>1. TypeOK
  <2>1. /\ owed = <<>> /\ send_buffer = <<>> /\ up = <<>> /\ down = <<>> /\ a_data = <<>> /\ recv_data = <<>>
        /\ waiting \in BOOLEAN /\ fresh \in BOOLEAN /\ send_status = "IDLE" /\ a_state = "IDLE" /\ recv_status = "IDLE"
        /\ a_recv_id = 0 /\ a_send_id = 1 /\ packet_id = 0 /\ tag = 0 /\ stale = 0 /\ losses = 0
    BY DEF Init
  <2>2. 0 \in Ids /\ 1 \in Ids /\ 0 \in 0 .. TAGS - 1
    OBVIOUS
  <2> QED
    BY <2>1, <2>2 DEF TypeOK, States
<1>2. OwedOK /\ SenderOK
  BY DEF Init, OwedOK, SenderOK
<1>3. DownOK
  BY DEF Init, DownOK, Halfway, RespLast
<1>4. InStep
  <2>1. UpOK(<<>>, <<>>, 0, 0)
    BY DEF Init, UpOK, Halfway, Sent, Ix
  <2>2. IdOf(Ix) = 0
    BY WrappedIs DEF Init, IdOf, Wrapped, Ix
  <2>3. <<>> \in Seq(Nat) /\ 0 \in Nat /\ stale = 0 /\ packet_id = 0
    BY DEF Init
  <2> QED
    BY <2>1, <2>2, <2>3 DEF InStep
<1> QED
  BY <1>1, <1>2, <1>3, <1>4 DEF LinkInv, Common

LEMMA PutCommon ==
  ASSUME Common, NEW rw \in {"r", "w"}, Put(rw)
  PROVE  /\ Common' /\ Ix' = Ix /\ \A k \in 1 .. Len(owed) : owed'[k] = owed[k]
<1> USE ConstantsAre
<1> DEFINE m == [rw |-> rw, tag |-> tag]
<1>0. TypeOK /\ OwedOK /\ SenderOK /\ DownOK
  BY DEF Common
<1>1. /\ m \in Request /\ owed' = Append(owed, m) /\ send_buffer' = Append(send_buffer, m)
      /\ ~waiting /\ Len(owed) < WINDOW /\ waiting' = (rw = "r") /\ fresh' = FALSE /\ tag' = (tag + 1) % TAGS
      /\ owed \in Seq(Request) /\ send_buffer \in Seq(Request) /\ Len(send_buffer) <= Len(owed)
      /\ tag \in 0 .. TAGS - 1
  BY <1>0 DEF Put, TypeOK, Request
<1>2. UNCHANGED <<sendVars, up, adapterVars, down, recvVars, read_buffer, stale, performed, faultVars>>
  BY DEF Put
<1>9. (waiting' <=> m.rw = "r") /\ waiting' \in BOOLEAN
  BY <1>1, Zenon
<1>3. tag' \in 0 .. TAGS - 1 /\ tag' = (tag + 1) % TAGS /\ tag' = Wrapped(tag, 1, TAGS)
  <2>1. tag \in 0 .. TAGS - 1 /\ tag' = (tag + 1) % TAGS
    BY <1>1
  <2>2. (tag + 1) % TAGS = IF tag + 1 = TAGS THEN 0 ELSE tag + 1
    BY <2>1, NextOf
  <2> QED
    BY <2>1, <2>2 DEF Wrapped
<1>4. /\ Len(owed') = Len(owed) + 1 /\ Len(send_buffer') = Len(send_buffer) + 1
      /\ owed' \in Seq(Request) /\ send_buffer' \in Seq(Request)
      /\ \A k \in 1 .. Len(owed) : owed'[k] = owed[k]
      /\ \A k \in 1 .. Len(send_buffer) : send_buffer'[k] = send_buffer[k]
      /\ owed'[Len(owed')] = m /\ send_buffer'[Len(send_buffer')] = m /\ Ix' = Ix
  BY <1>1 DEF Ix
<1>40. /\ Len(owed) \in Nat /\ Len(send_buffer) \in Nat
       /\ Len(owed') = Len(owed) + 1 /\ Len(send_buffer') = Len(send_buffer) + 1
  BY <1>1, <1>4
<1>5. TypeOK'
  <2>1. fresh' \in BOOLEAN /\ waiting' \in BOOLEAN
    BY <1>1, <1>9
  <2>2. Len(owed') <= WINDOW /\ Len(send_buffer') <= Len(owed')
    BY <1>1, <1>4
  <2>3. stale' \in 0 .. Len(owed') /\ losses' \in Nat
    BY <1>0, <1>2, <1>40 DEF TypeOK, faultVars
  <2> QED
    BY <1>0, <1>2, <1>3, <1>4, <2>1, <2>2, <2>3 DEF TypeOK, sendVars, adapterVars, recvVars
<1>6. OwedOK'
  <2>1. ASSUME NEW k \in 1 .. Len(owed')
        PROVE  Wrapped(owed'[k].tag, Len(owed') + 1 - k, TAGS) = tag'
    <3>1. CASE k = Len(owed')
      <4>1. owed'[k].tag = tag /\ Len(owed') + 1 - k = 1
        BY <1>4, <1>40, <3>1
      <4> QED
        BY <1>3, <4>1
    <3>2. CASE k # Len(owed')
      <4>0. k \in 1 .. Len(owed)
        BY <1>4, <3>2
      <4>1. k \in 1 .. Len(owed) /\ owed'[k] = owed[k] /\ owed[k] \in Request
        BY <1>1, <1>4, <4>0, ElementOfSeq
      <4>2. Wrapped(owed[k].tag, Len(owed) + 1 - k, TAGS) = tag /\ owed[k].tag \in 0 .. TAGS - 1
        BY <1>0, <4>1 DEF OwedOK, Request
      <4>3. PICK d \in 0 .. TAGS : d = Len(owed) + 1 - k /\ d + 1 <= TAGS /\ Len(owed') + 1 - k = d + 1
        <5>1. Len(owed) \in Nat /\ Len(owed) < WINDOW /\ Len(owed') = Len(owed) + 1
          BY <1>1, <1>4
        <5>2. Len(owed) + 1 - k \in 0 .. TAGS
          BY <5>1, <4>0
        <5> QED
          BY <5>1, <5>2, <4>0
      <4>4. Wrapped(owed[k].tag, d + 1, TAGS) = (Wrapped(owed[k].tag, d, TAGS) + 1) % TAGS
        <5>1. PICK t \in 0 .. TAGS - 1 : t = owed[k].tag
          BY <4>2
        <5>2. Wrapped(t, d + 1, TAGS) = (Wrapped(t, d, TAGS) + 1) % TAGS
          BY <4>3, WrapMore
        <5> QED
          BY <5>1, <5>2
      <4> QED
        BY <1>3, <4>1, <4>2, <4>3, <4>4
    <3> QED
      BY <3>1, <3>2
  <2>2. \A i \in 1 .. Len(send_buffer') : send_buffer'[i] = owed'[Ix' + i]
    <3> SUFFICES ASSUME NEW i \in 1 .. Len(send_buffer') PROVE send_buffer'[i] = owed'[Ix' + i]
      OBVIOUS
    <3>1. CASE i = Len(send_buffer')
      BY <1>1, <1>4, <3>1 DEF Ix
    <3>2. CASE i \in 1 .. Len(send_buffer)
      <4>1. Ix + i \in 1 .. Len(owed)
        BY <1>1, <3>2 DEF Ix
      <4> QED
        BY <1>0, <1>4, <3>2, <4>1 DEF OwedOK
    <3> QED
      BY <1>40, <3>1, <3>2
  <2>3. \A k \in 1 .. Len(owed') : owed'[k].rw = "r" /\ k > stale' => k = Len(owed') /\ waiting'
    <3> SUFFICES ASSUME NEW k \in 1 .. Len(owed'), owed'[k].rw = "r", k > stale' PROVE k = Len(owed') /\ waiting'
      OBVIOUS
    <3>1. CASE k = Len(owed')
      <4>1. m.rw = "r"
        BY <1>4, <3>1
      <4> QED
        BY <1>9, <3>1, <4>1, Zenon
    <3>2. CASE k \in 1 .. Len(owed)
      BY <1>0, <1>1, <1>2, <1>4, <3>2 DEF OwedOK
    <3> QED
      BY <1>40, <3>1, <3>2
  <2>4. waiting' => owed'[Len(owed')].rw = "r" /\ owed' # <<>>
    <3>1. owed'[Len(owed')] = m /\ owed' # <<>>
      BY <1>4
    <3> QED
      BY <1>9, <3>1, Zenon
  <2> QED
    BY <2>1, <2>2, <2>3, <2>4 DEF OwedOK
<1>7. SenderOK'
  <2>1. Ix >= 1 => Ix \in 1 .. Len(owed) /\ owed'[Ix] = owed[Ix]
    BY <1>1, <1>4 DEF Ix
  <2> QED
    BY <1>0, <1>2, <1>4, <2>1 DEF SenderOK, sendVars, Parts
<1>8. DownOK'
  <2>1. down = <<>> /\ recv_status = "IDLE" /\ read_buffer = <<>>
    BY <1>0, <1>1 DEF DownOK
  <2> QED
    BY <1>2, <2>1 DEF DownOK, Halfway, RespLast, recvVars
<1> QED
  BY <1>4, <1>5, <1>6, <1>7, <1>8 DEF Common

LEMMA IxIs ==
  ASSUME TypeOK
  PROVE  Ix \in Nat /\ Ix <= Len(owed) /\ Ix <= WINDOW /\ Len(owed) \in Nat /\ Len(send_buffer) \in Nat
BY ConstantsAre DEF TypeOK, Ix

(* What is on the line stays what it is while nothing moves there.         *)
LEMMA UpKept ==
  ASSUME TypeOK, NEW pk, NEW off, NEW ak, NEW ao, UpOK(pk, off, ak, ao),
         up' = up, Ix' = Ix, \A k \in 1 .. Ix : owed'[k] = owed[k],
         a_state' = a_state, a_data' = a_data, a_length' = a_length, a_recv_id' = a_recv_id,
         \A k, o : Sent(k, o) => Sent(k, o)'
  PROVE  UpOK(pk, off, ak, ao)'
<1>0. Ix \in Nat
  BY IxIs
<1>1. \A k : IdOf(k)' = IdOf(k)
  BY DEF IdOf
<1>2. ASSUME NEW i \in 1 .. Len(up')
      PROVE  /\ pk[i] \in 1 .. Ix' /\ off[i] \in 1 .. Last(owed'[pk[i]])
             /\ up'[i] = ByteOf(owed'[pk[i]], IdOf(pk[i])', off[i])
             /\ Sent(pk[i], off[i])' /\ Before(ak, ao, pk[i], off[i])
  BY <1>1 DEF UpOK
<1>3. ak = 1 => owed'[1] = owed[1]
  BY <1>0 DEF UpOK
<1> QED
  BY <1>2, <1>3 DEF UpOK

LEMMA InStepKept ==
  ASSUME TypeOK, InStep, up' = up, Ix' = Ix, \A k \in 1 .. Ix : owed'[k] = owed[k],
         UNCHANGED <<stale, sendVars, adapterVars>>
  PROVE  InStep'
<1>1. PICK pk \in Seq(Nat), off \in Seq(Nat), ak \in Nat, ao \in Nat : UpOK(pk, off, ak, ao)
  BY DEF InStep
<1>2. \A k, o : Sent(k, o)' = Sent(k, o)
  BY DEF Sent, SentOff, sendVars, Parts
<1>3. UpOK(pk, off, ak, ao)'
  BY <1>1, <1>2, UpKept DEF adapterVars
<1>4. IdOf(Ix)' = IdOf(Ix)
  BY DEF IdOf, adapterVars
<1> QED
  BY <1>3, <1>4 DEF InStep, sendVars

LEMMA PutInv ==
  ASSUME LinkInv, NEW rw \in {"r", "w"}, Put(rw)
  PROVE  LinkInv'
<1>1. Common' /\ Ix' = Ix /\ \A k \in 1 .. Len(owed) : owed'[k] = owed[k]
  BY PutCommon DEF LinkInv
<1>2. \A k \in 1 .. Ix : owed'[k] = owed[k]
  BY <1>1, IxIs DEF LinkInv, Common
<1>3. InStep'
  BY <1>1, <1>2, InStepKept DEF LinkInv, Common, Put
<1> QED
  BY <1>1, <1>3 DEF LinkInv

LEMMA DownKept ==
  ASSUME DownOK, UNCHANGED <<down, recv_status, recv_data, recv_length, read_buffer, waiting, owed, performed>>
  PROVE  DownOK'
<1>1. \A b, o : RespByte(b, o)' = RespByte(b, o)
  BY DEF RespByte
<1>2. Gone' = Gone
  BY DEF Gone
<1> QED
  BY <1>1, <1>2 DEF DownOK

LEMMA TakeCommon ==
  ASSUME Common, Take
  PROVE  Common' /\ owed = <<>> /\ read_buffer = <<Whole(performed, RESPONSE_PARTS)>>
<1>0. TypeOK /\ OwedOK /\ SenderOK /\ DownOK
  BY DEF Common
<1>1. /\ waiting /\ read_buffer # <<>> /\ read_buffer' = Tail(read_buffer) /\ waiting' = FALSE
      /\ UNCHANGED <<send_buffer, sendVars, up, adapterVars, down, recvVars,
                     fresh, owed, stale, tag, performed, faultVars>>
  BY DEF Take
<1>2. owed = <<>> /\ down = <<>> /\ recv_status = "IDLE" /\ read_buffer = <<Whole(performed, RESPONSE_PARTS)>>
  BY <1>0, <1>1 DEF DownOK
<1>3. TypeOK'
  BY <1>0, <1>1 DEF TypeOK, sendVars, adapterVars, recvVars, faultVars
<1>4. Ix' = Ix
  BY <1>1 DEF Ix
<1>5. OwedOK'
  <2>1. Len(owed') = 0 /\ 1 .. Len(owed') = {}
    BY <1>1, <1>2
  <2>2. \A i \in 1 .. Len(send_buffer') : send_buffer'[i] = owed'[Ix' + i]
    BY <1>0, <1>1, <1>4 DEF OwedOK
  <2> QED
    BY <1>1, <2>1, <2>2 DEF OwedOK
<1>6. SenderOK'
  BY <1>0, <1>1, <1>4 DEF SenderOK, sendVars, Parts
<1>7. DownOK'
  <2>1. read_buffer' = <<>>
    BY <1>1, <1>2
  <2> QED
    BY <1>1, <1>2, <2>1, ConstantsAre DEF DownOK, Halfway, RespLast, recvVars
<1> QED
  BY <1>2, <1>3, <1>5, <1>6, <1>7 DEF Common

LEMMA TakeInv ==
  ASSUME LinkInv, Take
  PROVE  LinkInv'
<1>1. Common'
  BY TakeCommon DEF LinkInv
<1>2. Ix' = Ix /\ \A k \in 1 .. Ix : owed'[k] = owed[k]
  BY DEF Take, Ix
<1>3. InStep'
  BY <1>2, InStepKept DEF LinkInv, Common, Take
<1> QED
  BY <1>1, <1>3 DEF LinkInv

-----------------------------------------------------------------------------
(* The sender.                                                             *)

(* The byte o of the packet it is at is sent.                              *)
LEMMA EmitInStep ==
  ASSUME TypeOK, TypeOK', InStep, NEW o \in Nat, NEW b,
         Ix' >= 1, o \in 1 .. Last(owed[Ix']), b = ByteOf(owed[Ix'], IdOf(Ix'), o), up' = Append(up, b),
         Ix' >= Ix, owed' = owed, stale' = stale, UNCHANGED adapterVars, packet_id' = IdOf(Ix'),
         \A k \in 0 .. Ix, l \in Nat : Sent(k, l) => Sent(k, l)' /\ Before(k, l, Ix', o),
         \A k : k = Ix' => Sent(k, o)'
  PROVE  InStep'
<1>1. PICK pk \in Seq(Nat), off \in Seq(Nat), ak \in Nat, ao \in Nat : UpOK(pk, off, ak, ao)
  BY DEF InStep
<1>2. Ix \in Nat /\ Ix' \in Nat /\ up \in Seq(Bytes) /\ up' \in Seq(Bytes)
  BY IxIs DEF TypeOK, Ix
<1>3. \A k : IdOf(k)' = IdOf(k)
  BY DEF IdOf, adapterVars
<1>4. /\ Len(pk) = Len(up) /\ Len(off) = Len(up) /\ ak \in 0 .. Ix /\ ao \in Nat /\ Sent(ak, ao)
      /\ \A i \in 1 .. Len(up) :
          /\ pk[i] \in 1 .. Ix /\ off[i] \in 1 .. Last(owed[pk[i]])
          /\ up[i] = ByteOf(owed[pk[i]], IdOf(pk[i]), off[i])
          /\ Sent(pk[i], off[i]) /\ Before(ak, ao, pk[i], off[i])
      /\ \A i, j \in 1 .. Len(up) : i < j => Before(pk[i], off[i], pk[j], off[j])
      /\ ak = 0 => a_state = "IDLE"
      /\ ak = 1 => Halfway(a_state, a_data, a_length, owed[1], Parts(owed[1]), ao)
  BY <1>1 DEF UpOK
<1>5. PICK pk1 \in Seq(Nat), off1 \in Seq(Nat) :
         /\ Len(up') = Len(up) + 1 /\ Len(up) \in Nat
         /\ Len(pk1) = Len(up') /\ Len(off1) = Len(up')
         /\ pk1[Len(up')] = Ix' /\ off1[Len(up')] = o /\ up'[Len(up')] = b
         /\ \A i \in 1 .. Len(up) : pk1[i] = pk[i] /\ off1[i] = off[i] /\ up'[i] = up[i]
  <2>1. PICK n \in Nat : n = Ix'
    BY <1>2
  <2>2. Append(pk, n) \in Seq(Nat) /\ Append(off, o) \in Seq(Nat)
    OBVIOUS
  <2>3. /\ Len(up') = Len(up) + 1 /\ Len(up) \in Nat /\ up'[Len(up')] = b
        /\ \A i \in 1 .. Len(up) : up'[i] = up[i]
    BY <1>2
  <2>4. /\ Len(Append(pk, n)) = Len(up') /\ Append(pk, n)[Len(up')] = n
        /\ \A i \in 1 .. Len(up) : Append(pk, n)[i] = pk[i]
    BY <1>4, <2>3
  <2>5. /\ Len(Append(off, o)) = Len(up') /\ Append(off, o)[Len(up')] = o
        /\ \A i \in 1 .. Len(up) : Append(off, o)[i] = off[i]
    BY <1>4, <2>3
  <2> QED
    BY <2>1, <2>2, <2>3, <2>4, <2>5
<1>6. ASSUME NEW i \in 1 .. Len(up)
      PROVE  Before(pk[i], off[i], Ix', o) /\ Sent(pk[i], off[i])'
  <2>0. off[i] \in Nat
    BY <1>4, ElementOfSeq
  <2>1. pk[i] \in 0 .. Ix /\ Sent(pk[i], off[i])
    BY <1>2, <1>4
  <2> QED
    BY <2>0, <2>1
<1>7. Before(ak, ao, Ix', o) /\ Sent(ak, ao)'
  BY <1>4
<1>8. ASSUME NEW i \in 1 .. Len(up')
      PROVE  /\ pk1[i] \in 1 .. Ix' /\ off1[i] \in 1 .. Last(owed'[pk1[i]])
             /\ up'[i] = ByteOf(owed'[pk1[i]], IdOf(pk1[i])', off1[i])
             /\ Sent(pk1[i], off1[i])' /\ Before(ak, ao, pk1[i], off1[i])
  <2>1. CASE i = Len(up')
    <3>1. pk1[i] = Ix' /\ off1[i] = o /\ up'[i] = b
      BY <1>5, <2>1
    <3>2. pk1[i] \in 1 .. Ix' /\ Before(ak, ao, pk1[i], off1[i])
      BY <1>2, <1>7, <3>1
    <3>3. IdOf(pk1[i])' = IdOf(Ix') /\ owed'[pk1[i]] = owed[Ix']
      BY <1>3, <3>1
    <3>4. up'[i] = ByteOf(owed'[pk1[i]], IdOf(pk1[i])', off1[i]) /\ off1[i] \in 1 .. Last(owed'[pk1[i]])
      BY <3>1, <3>3
    <3>5. Sent(pk1[i], off1[i])'
      BY <3>1
    <3> QED
      BY <3>2, <3>4, <3>5
  <2>2. CASE i \in 1 .. Len(up)
    <3>1. pk1[i] = pk[i] /\ off1[i] = off[i] /\ up'[i] = up[i]
      BY <1>5, <2>2
    <3>2. pk[i] \in 1 .. Ix'
      BY <1>2, <1>4, <2>2
    <3>3. /\ off[i] \in 1 .. Last(owed[pk[i]]) /\ up[i] = ByteOf(owed[pk[i]], IdOf(pk[i]), off[i])
          /\ Sent(pk[i], off[i])' /\ Before(ak, ao, pk[i], off[i])
      BY <1>4, <1>6, <2>2
    <3>4. Last(owed'[pk[i]]) = Last(owed[pk[i]])
      OBVIOUS
    <3> QED
      BY <1>3, <3>1, <3>2, <3>3, <3>4
  <2> QED
    BY <1>5, <2>1, <2>2
<1>9. ASSUME NEW i \in 1 .. Len(up'), NEW j \in 1 .. Len(up'), i < j
      PROVE  Before(pk1[i], off1[i], pk1[j], off1[j])
  <2>1. i \in 1 .. Len(up) /\ (j \in 1 .. Len(up) \/ j = Len(up'))
    BY <1>5, <1>9
  <2> QED
    BY <1>4, <1>5, <1>6, <1>9, <2>1
<1>10. UpOK(pk1, off1, ak, ao)'
  BY <1>2, <1>4, <1>5, <1>7, <1>8, <1>9 DEF UpOK, adapterVars
<1>11. stale' = 0 /\ packet_id' = IdOf(Ix)'
  BY <1>3 DEF InStep, IdOf, adapterVars
<1> QED
  BY <1>5, <1>10, <1>11 DEF InStep

(* A step of the sender that takes nothing from its buffer.                *)
LEMMA SendCommon ==
  ASSUME Common, UNCHANGED <<send_buffer, send_buf, packet_id, adapterVars, down, recvVars, read_buffer, clientVars,
                             performed, faultVars>>,
         up' \in Seq(Bytes), send_status # "IDLE", send_status' \in States,
         send_status' \in {"CHANNEL", "LENGTH"} => send_bit' = 0,
         send_status' = "DATA" => send_bit' \in 0 .. Parts(send_buf) - 1
  PROVE  Common' /\ Ix' = Ix
<1>0. TypeOK /\ OwedOK /\ SenderOK /\ DownOK
  BY DEF Common
<1>1. UNCHANGED <<send_buffer, send_buf, packet_id, adapterVars, down, recvVars, read_buffer, waiting, fresh, owed,
                  stale, tag, performed>> /\ Ix' = Ix
  BY DEF clientVars, Ix
<1>2. TypeOK'
  BY <1>0, <1>1 DEF TypeOK, adapterVars, recvVars, faultVars
<1>3. OwedOK'
  BY <1>0, <1>1 DEF OwedOK
<1>4. SenderOK'
  BY <1>0, <1>1 DEF SenderOK, Parts
<1>5. DownOK'
  BY <1>0, <1>1, DownKept DEF recvVars
<1> QED
  BY <1>1, <1>2, <1>3, <1>4, <1>5 DEF Common

(* What each step of the sender within a packet sends: the next byte of it.*)
LEMMA SendMoreIs ==
  ASSUME Common, SendChannel \/ SendLength \/ SendData \/ SendEnd,
         UNCHANGED <<adapterVars, down, recvVars, read_buffer, clientVars, performed, faultVars>>
  PROVE  /\ Common' /\ Ix' = Ix /\ Ix \in Nat /\ Ix >= 1 /\ Ix <= Len(owed) /\ owed[Ix] \in Request
         /\ send_status # "IDLE" /\ packet_id' = packet_id
         /\ \E o \in Nat : /\ o = SentOff + 1 /\ SentOff \in Nat /\ o \in 1 .. Last(owed[Ix])
                           /\ up' = Append(up, ByteOf(owed[Ix], packet_id, o))
                           /\ send_status' = "IDLE" => o = Last(owed[Ix])
                           /\ send_status' = "IDLE" \/ SentOff' = o
<1> DEFINE m == owed[Ix]
<1>0. TypeOK /\ OwedOK /\ SenderOK /\ DownOK
  BY DEF Common
<1>1. send_status # "IDLE" /\ UNCHANGED <<send_buffer, send_buf, packet_id>>
  BY DEF SendChannel, SendLength, SendData, SendEnd
<1>2. /\ Ix \in Nat /\ Ix >= 1 /\ Ix <= Len(owed) /\ send_buf = m /\ m \in Request
      /\ send_status \in {"CHANNEL", "LENGTH"} => send_bit = 0
      /\ send_status = "DATA" => send_bit \in 0 .. Parts(send_buf) - 1
  <2>1. /\ Ix >= 1 /\ send_buf = m
        /\ send_status \in {"CHANNEL", "LENGTH"} => send_bit = 0
        /\ send_status = "DATA" => send_bit \in 0 .. Parts(send_buf) - 1
    BY <1>0, <1>1 DEF SenderOK
  <2>2. Ix \in 1 .. Len(owed) /\ owed \in Seq(Request)
    BY <1>0, <2>1, IxIs DEF TypeOK
  <2> QED
    BY <2>1, <2>2, ElementOfSeq
<1>3. Parts(m) \in Nat \ {0} /\ Last(m) = Parts(m) + 4 /\ Parts(send_buf) = Parts(m)
  BY <1>2, PartsIs
<1>4. SentOff \in Nat
  BY <1>2, <1>3 DEF SentOff
<1>40. PICK o \in Nat : o = SentOff + 1
  BY <1>4
<1> HIDE DEF m
<1>5. PICK b : /\ up' = Append(up, b) /\ b = ByteOf(m, packet_id, o) /\ o \in 1 .. Last(m)
               /\ send_status' \in States
               /\ send_status' \in {"CHANNEL", "LENGTH"} => send_bit' = 0
               /\ send_status' = "DATA" => send_bit' \in 0 .. Parts(m) - 1
               /\ send_status' = "IDLE" => o = Last(m)
               /\ send_status' = "IDLE" \/ SentOff' = o
  <2>1. CASE SendChannel
    <3>1. SentOff = 1 /\ o = 2 /\ ByteOf(m, packet_id, o) = ChannelByte
      BY <1>3, <1>40, <2>1 DEF SendChannel, SentOff, ByteOf
    <3>2. up' = Append(up, ChannelByte) /\ send_status' = "LENGTH" /\ SentOff' = 2 /\ send_bit' = 0
      BY <1>2, <2>1 DEF SendChannel, SentOff, Emit
    <3> QED
      BY <1>3, <3>1, <3>2 DEF States
  <2>2. CASE SendLength
    <3>1. SentOff = 2 /\ o = 3 /\ ByteOf(m, packet_id, o) = LengthByte(Parts(m))
      BY <1>3, <1>40, <2>2 DEF SendLength, SentOff, ByteOf
    <3>2. up' = Append(up, LengthByte(Parts(m))) /\ send_status' = "DATA" /\ send_bit' = 0
      BY <1>2, <1>3, <2>2 DEF SendLength, Emit
    <3>3. SentOff' = 3
      BY <3>2 DEF SentOff
    <3> QED
      BY <1>3, <3>1, <3>2, <3>3 DEF States
  <2>3. CASE SendData
    <3>1. /\ send_bit \in 0 .. Parts(m) - 1 /\ up' = Append(up, DataByte(m, send_bit + 1))
          /\ send_bit' = send_bit + 1 /\ send_buf' = send_buf /\ send_status = "DATA"
          /\ send_status' = IF send_bit + 1 >= Parts(m) THEN "END" ELSE "DATA"
      BY <1>2, <1>3, <2>3 DEF SendData, Emit
    <3>2. SentOff = 3 + send_bit /\ o = 4 + send_bit
      BY <1>40, <3>1 DEF SentOff
    <3>3. ByteOf(m, packet_id, o) = DataByte(m, send_bit + 1) /\ o \in 1 .. Last(m)
      BY <1>3, <3>1, <3>2 DEF ByteOf
    <3>4. Parts(send_buf)' = Parts(m)
      BY <1>3, <3>1 DEF Parts
    <3>5. SentOff' = o
      <4>1. CASE send_bit + 1 >= Parts(m)
        BY <1>3, <3>1, <3>2, <3>4, <4>1 DEF SentOff
      <4>2. CASE ~(send_bit + 1 >= Parts(m))
        BY <1>3, <3>1, <3>2, <3>4, <4>2 DEF SentOff
      <4> QED
        BY <4>1, <4>2
    <3> QED
      BY <1>3, <3>1, <3>3, <3>5 DEF States
  <2>4. CASE SendEnd
    <3>1. SentOff = 3 + Parts(m) /\ o = Last(m) /\ up' = Append(up, EndByte(packet_id)) /\ send_status' = "IDLE"
      BY <1>3, <1>40, <2>4 DEF SendEnd, SentOff, Emit
    <3>2. ByteOf(m, packet_id, o) = EndByte(packet_id)
      BY <1>3, <3>1 DEF ByteOf
    <3> QED
      BY <1>3, <3>1, <3>2 DEF States
  <2> QED
    BY <2>1, <2>2, <2>3, <2>4
<1>6. up' \in Seq(Bytes)
  <2>1. packet_id \in Ids
    BY <1>0 DEF TypeOK
  <2>2. b \in Bytes
    BY <1>2, <1>5, <2>1, ByteTypes
  <2> QED
    BY <1>0, <1>5, <2>2 DEF TypeOK
<1>7. Common' /\ Ix' = Ix
  BY <1>1, <1>3, <1>5, <1>6, SendCommon
<1> QED
  BY <1>1, <1>2, <1>4, <1>40, <1>5, <1>7 DEF m

LEMMA SendMoreInv ==
  ASSUME LinkInv, SendChannel \/ SendLength \/ SendData \/ SendEnd,
         UNCHANGED <<adapterVars, down, recvVars, read_buffer, clientVars, performed, faultVars>>
  PROVE  LinkInv'
<1>0. TypeOK /\ InStep /\ Common
  BY DEF LinkInv, Common
<1>1. /\ Common' /\ Ix' = Ix /\ Ix \in Nat /\ Ix >= 1 /\ Ix <= Len(owed)
      /\ send_status # "IDLE" /\ packet_id' = packet_id
  BY <1>0, SendMoreIs
<1>2. PICK o \in Nat :
         /\ o = SentOff + 1 /\ SentOff \in Nat /\ o \in 1 .. Last(owed[Ix])
         /\ up' = Append(up, ByteOf(owed[Ix], packet_id, o))
         /\ send_status' = "IDLE" \/ SentOff' = o
  BY <1>0, SendMoreIs
<1>3. packet_id = IdOf(Ix)
  BY <1>0 DEF InStep
<1>4. \A k \in 0 .. Ix, l \in Nat : Sent(k, l) => Sent(k, l)' /\ Before(k, l, Ix', o)
  <2> SUFFICES ASSUME NEW k \in 0 .. Ix, NEW l \in Nat, Sent(k, l)
               PROVE  Sent(k, l)' /\ Before(k, l, Ix, o)
    BY <1>1
  <2>1. CASE k < Ix
    BY <1>1, <2>1 DEF Sent, Before
  <2>2. CASE k = Ix /\ l <= SentOff
    BY <1>1, <1>2, <2>2 DEF Sent, Before
  <2> QED
    BY <1>1, <2>1, <2>2 DEF Sent
<1>5. \A k : k = Ix' => Sent(k, o)'
  BY <1>2 DEF Sent
<1>6. packet_id' = IdOf(Ix')
  BY <1>1, <1>3
<1>7. TypeOK' /\ owed' = owed /\ stale' = stale
  BY <1>1 DEF Common, clientVars
<1>8. Ix' >= 1 /\ Ix' >= Ix /\ o \in 1 .. Last(owed[Ix']) /\ up' = Append(up, ByteOf(owed[Ix'], IdOf(Ix'), o))
  BY <1>1, <1>2, <1>3
<1>9. InStep'
  BY <1>0, <1>4, <1>5, <1>6, <1>7, <1>8, EmitInStep
<1> QED
  BY <1>1, <1>9 DEF LinkInv

LEMMA SendHeadIs ==
  ASSUME Common, SendHead,
         UNCHANGED <<adapterVars, down, recvVars, read_buffer, clientVars, performed, faultVars>>
  PROVE  /\ Common' /\ Ix' = Ix + 1 /\ Ix \in Nat /\ Ix + 1 \in 1 .. Len(owed) /\ owed[Ix + 1] \in Request
         /\ send_status = "IDLE" /\ send_status' = "CHANNEL" /\ packet_id' = (packet_id + 1) % IDS
         /\ up' = Append(up, ByteOf(owed[Ix + 1], packet_id', 1))
<1> USE ConstantsAre
<1>0. TypeOK /\ OwedOK /\ SenderOK /\ DownOK
  BY DEF Common
<1>1. /\ send_status = "IDLE" /\ send_buffer # <<>> /\ send_buf' = Head(send_buffer) /\ send_buffer' = Tail(send_buffer)
      /\ send_bit' = 0 /\ packet_id' = (packet_id + 1) % IDS /\ up' = Append(up, HeadByte(packet_id'))
      /\ send_status' = "CHANNEL"
  BY DEF SendHead, next_packet_id, Emit
<1>2. UNCHANGED <<adapterVars, down, recv_status, recv_data, recv_length, read_buffer, waiting, fresh, owed,
                  stale, tag, performed>>
  BY DEF recvVars, clientVars
<1>3. /\ Ix' = Ix + 1 /\ Ix \in Nat /\ Ix + 1 \in 1 .. Len(owed)
      /\ send_buffer \in Seq(Request) /\ owed \in Seq(Request) /\ up \in Seq(Bytes)
      /\ Len(send_buffer') = Len(send_buffer) - 1 /\ Len(send_buffer) \in Nat /\ Len(send_buffer) >= 1
      /\ send_buffer' \in Seq(Request) /\ \A i \in 1 .. Len(send_buffer') : send_buffer'[i] = send_buffer[i + 1]
  <2>1. /\ send_buffer \in Seq(Request) /\ owed \in Seq(Request) /\ Len(send_buffer) <= Len(owed)
        /\ Len(owed) <= WINDOW /\ up \in Seq(Bytes)
    BY <1>0 DEF TypeOK
  <2>2. /\ Len(send_buffer') = Len(send_buffer) - 1 /\ Len(send_buffer) \in Nat /\ Len(send_buffer) >= 1
        /\ send_buffer' \in Seq(Request) /\ \A i \in 1 .. Len(send_buffer') : send_buffer'[i] = send_buffer[i + 1]
    BY <1>1, <2>1
  <2> QED
    BY <1>2, <2>1, <2>2 DEF Ix
<1> DEFINE m == owed[Ix + 1]
<1>4. m \in Request /\ Head(send_buffer) = m
  <2>1. Head(send_buffer) = send_buffer[1] /\ send_buffer[1] = owed[Ix + 1]
    BY <1>0, <1>1, <1>3 DEF OwedOK
  <2> QED
    BY <1>3, <2>1, ElementOfSeq
<1>5. Parts(m) \in Nat \ {0} /\ Last(m) = Parts(m) + 4
  BY <1>4, PartsIs
<1>6. packet_id' \in Ids
  <2>1. packet_id \in 0 .. IDS - 1
    BY <1>0 DEF TypeOK
  <2>2. (packet_id + 1) % IDS \in Ids
    BY <2>1, NextOf
  <2> QED
    BY <1>1, <2>2
<1>7. HeadByte(packet_id') \in Bytes /\ up' = Append(up, ByteOf(m, packet_id', 1))
  <2>1. HeadByte(packet_id') \in Bytes
    BY <1>6 DEF HeadByte, Bytes
  <2>2. ASSUME NEW i PROVE ByteOf(m, i, 1) = HeadByte(i)
    BY <1>5 DEF ByteOf
  <2> QED
    BY <1>1, <2>1, <2>2, Zenon
<1>8. TypeOK'
  <2>1. up' \in Seq(Bytes) /\ Len(send_buffer') <= Len(owed')
    <3>1. Len(owed') \in Nat /\ Len(owed') >= Ix + Len(send_buffer)
      BY <1>2, <1>3 DEF Ix
    <3>2. up' \in Seq(Bytes)
      BY <1>1, <1>3, <1>7
    <3> QED
      BY <1>3, <3>1, <3>2
  <2> QED
    BY <1>0, <1>1, <1>2, <1>3, <1>6, <2>1 DEF TypeOK, States, adapterVars, faultVars
<1>9. OwedOK'
  <2>1. \A i \in 1 .. Len(send_buffer') : send_buffer'[i] = owed'[Ix' + i]
    <3> SUFFICES ASSUME NEW i \in 1 .. Len(send_buffer') PROVE send_buffer'[i] = owed'[Ix' + i]
      OBVIOUS
    <3>1. i + 1 \in 1 .. Len(send_buffer) /\ Ix' + i = Ix + (i + 1)
      BY <1>3
    <3> QED
      BY <1>0, <1>2, <1>3, <3>1 DEF OwedOK
  <2> QED
    BY <1>0, <1>2, <2>1 DEF OwedOK
<1>10. SenderOK'
  BY <1>1, <1>2, <1>3, <1>4 DEF SenderOK
<1>11. DownOK'
  BY <1>0, <1>2, DownKept
<1> QED
  BY <1>1, <1>3, <1>4, <1>7, <1>8, <1>9, <1>10, <1>11 DEF Common

LEMMA SendHeadInv ==
  ASSUME LinkInv, WINDOW <= IDS, SendHead,
         UNCHANGED <<adapterVars, down, recvVars, read_buffer, clientVars, performed, faultVars>>
  PROVE  LinkInv'
<1>0. TypeOK /\ InStep /\ Common
  BY DEF LinkInv, Common
<1>1. /\ Common' /\ Ix' = Ix + 1 /\ Ix \in Nat /\ Ix + 1 \in 1 .. Len(owed) /\ owed[Ix + 1] \in Request
      /\ send_status = "IDLE" /\ send_status' = "CHANNEL" /\ packet_id' = (packet_id + 1) % IDS
      /\ up' = Append(up, ByteOf(owed[Ix + 1], packet_id', 1))
  BY <1>0, SendHeadIs
<1>2. packet_id' = IdOf(Ix + 1)
  <2>1. packet_id = IdOf(Ix) /\ a_recv_id \in 0 .. IDS - 1 /\ IDS >= 1 /\ IDS \in Nat
    BY <1>0, ConstantsAre DEF InStep, TypeOK
  <2>2. Ix \in 0 .. IDS /\ Ix + 1 <= IDS
    <3>1. Len(owed) \in Nat /\ Len(owed) <= WINDOW /\ WINDOW \in Nat
      BY <1>0, ConstantsAre DEF TypeOK
    <3> QED
      BY <1>1, <2>1, <3>1
  <2>3. Wrapped(a_recv_id, Ix + 1, IDS) = (Wrapped(a_recv_id, Ix, IDS) + 1) % IDS
    BY <2>1, <2>2, WrapMore
  <2> QED
    BY <1>1, <2>1, <2>3 DEF IdOf
<1>3. \A k \in 0 .. Ix, l \in Nat : Sent(k, l) => Sent(k, l)' /\ Before(k, l, Ix', 1)
  BY <1>1 DEF Sent, Before
<1>4. SentOff' = 1
  BY <1>1 DEF SentOff
<1>5. \A k : k = Ix' => Sent(k, 1)'
  BY <1>4 DEF Sent
<1>6. Ix' >= 1 /\ Ix' >= Ix /\ 1 \in 1 .. Last(owed[Ix'])
  BY <1>1, PartsIs
<1>7. packet_id' = IdOf(Ix') /\ up' = Append(up, ByteOf(owed[Ix'], IdOf(Ix'), 1))
  BY <1>1, <1>2
<1>8. TypeOK' /\ owed' = owed /\ stale' = stale
  BY <1>1 DEF Common, clientVars
<1>9. InStep'
  BY <1>0, <1>3, <1>5, <1>6, <1>7, <1>8, EmitInStep
<1> QED
  BY <1>1, <1>9 DEF LinkInv

-----------------------------------------------------------------------------
(* The line.                                                               *)

(* The first byte of up is gone, lost or taken.                            *)
LEMMA UpTail ==
  ASSUME TypeOK, NEW pk, NEW off, NEW ak, NEW ao, UpOK(pk, off, ak, ao), up # <<>>, up' = Tail(up),
         UNCHANGED <<send_buffer, sendVars, owed, a_recv_id>>,
         NEW al \in 0 .. Ix, NEW ap \in Nat, Sent(al, ap),
         \A i \in 2 .. Len(up) : Before(al, ap, pk[i], off[i]),
         al = 0 => a_state' = "IDLE",
         al = 1 => Halfway(a_state', a_data', a_length', owed[1], Parts(owed[1]), ap)
  PROVE  UpOK(Tail(pk), Tail(off), al, ap)'
<1>1. Ix' = Ix /\ Ix \in Nat
  BY IxIs DEF Ix
<1>2. \A k, o : Sent(k, o)' = Sent(k, o)
  BY DEF Sent, SentOff, Ix, sendVars, Parts
<1>3. \A k : IdOf(k)' = IdOf(k)
  BY DEF IdOf
<1>4. /\ up \in Seq(Bytes) /\ pk \in Seq(Nat) /\ off \in Seq(Nat) /\ Len(pk) = Len(up) /\ Len(off) = Len(up)
  BY DEF UpOK, TypeOK
<1>5. /\ Len(up) \in Nat /\ Len(up) >= 1 /\ Len(up') = Len(up) - 1
      /\ \A i \in 1 .. Len(up') : i + 1 \in 2 .. Len(up) /\ up'[i] = up[i + 1]
  BY <1>4
<1>6. /\ Tail(pk) \in Seq(Nat) /\ Len(Tail(pk)) = Len(up')
      /\ \A i \in 1 .. Len(up') : Tail(pk)[i] = pk[i + 1]
  BY <1>4, <1>5
<1>7. /\ Tail(off) \in Seq(Nat) /\ Len(Tail(off)) = Len(up')
      /\ \A i \in 1 .. Len(up') : Tail(off)[i] = off[i + 1]
  BY <1>4, <1>5
<1> DEFINE tp == Tail(pk)
           tf == Tail(off)
<1> HIDE DEF tp, tf
<1>8. /\ tp \in Seq(Nat) /\ tf \in Seq(Nat) /\ Len(tp) = Len(up') /\ Len(tf) = Len(up')
      /\ \A i \in 1 .. Len(up') : tp[i] = pk[i + 1] /\ tf[i] = off[i + 1]
  BY <1>6, <1>7 DEF tp, tf
<1>9. /\ \A i \in 1 .. Len(up) :
          /\ pk[i] \in 1 .. Ix /\ off[i] \in 1 .. Last(owed[pk[i]])
          /\ up[i] = ByteOf(owed[pk[i]], IdOf(pk[i]), off[i])
          /\ Sent(pk[i], off[i])
      /\ \A i, j \in 1 .. Len(up) : i < j => Before(pk[i], off[i], pk[j], off[j])
  BY DEF UpOK
<1>10. ASSUME NEW i \in 1 .. Len(up')
       PROVE  /\ tp[i] \in 1 .. Ix' /\ tf[i] \in 1 .. Last(owed'[tp[i]])
              /\ up'[i] = ByteOf(owed'[tp[i]], IdOf(tp[i])', tf[i])
              /\ Sent(tp[i], tf[i])' /\ Before(al, ap, tp[i], tf[i])
  <2>1. i + 1 \in 1 .. Len(up) /\ i + 1 \in 2 .. Len(up)
    BY <1>5
  <2>2. /\ pk[i + 1] \in 1 .. Ix' /\ off[i + 1] \in 1 .. Last(owed'[pk[i + 1]])
        /\ up'[i] = ByteOf(owed'[pk[i + 1]], IdOf(pk[i + 1])', off[i + 1])
        /\ Sent(pk[i + 1], off[i + 1])' /\ Before(al, ap, pk[i + 1], off[i + 1])
    BY <1>1, <1>2, <1>3, <1>5, <1>9, <2>1
  <2> QED
    BY <1>8, <2>2
<1>11. ASSUME NEW i \in 1 .. Len(up'), NEW j \in 1 .. Len(up'), i < j
       PROVE  Before(tp[i], tf[i], tp[j], tf[j])
  <2>1. i + 1 \in 1 .. Len(up) /\ j + 1 \in 1 .. Len(up) /\ i + 1 < j + 1
    BY <1>5, <1>11
  <2> QED
    BY <1>8, <1>9, <2>1
<1>12. UpOK(tp, tf, al, ap)'
  BY <1>1, <1>2, <1>8, <1>10, <1>11 DEF UpOK
<1> QED
  BY <1>12 DEF tp, tf

LEMMA ResponseOf ==
  ASSUME Common, down # <<>> \/ read_buffer # <<>>
  PROVE  waiting /\ owed = <<>> /\ performed \in Request
BY DEF Common, DownOK, OwedOK

LEMMA RespKinds ==
  ASSUME NEW b, NEW o \in 1 .. RespLast, RespByte(b, o)
  PROVE  /\ b.kind = "length" => o = 3 /\ b.parts = RESPONSE_PARTS
         /\ b.kind = "data" => o > 3 /\ b = DataByte(performed, o - 3)
         /\ b.kind = "end" => o = RespLast
BY ConstantsAre DEF RespByte, RespLast

(* The first byte of down is gone, lost or taken.                          *)
LEMMA DownTail ==
  ASSUME Common, down # <<>>, down' = Tail(down), performed' = performed
  PROVE  /\ down \in Seq(Bytes) /\ Gone \in Nat /\ Gone' = Gone + 1 /\ Gone + 1 <= RespLast
         /\ Len(down') = Len(down) - 1 /\ down' \in Seq(Bytes) /\ Len(down') <= RespLast
         /\ RespByte(down[1], Gone + 1) /\ down[1] \in Bytes /\ RespLast = RESPONSE_PARTS + 4
         /\ \A i \in 1 .. Len(down') : RespByte(down[i], Gone + i)'
<1>1. /\ down \in Seq(Bytes) /\ Len(down) <= RespLast /\ RespLast = RESPONSE_PARTS + 4 /\ RESPONSE_PARTS \in Nat
      /\ \A i \in 1 .. Len(down) : RespByte(down[i], Gone + i)
  BY ConstantsAre DEF Common, TypeOK, DownOK, RespLast
<1>2. /\ Len(down) \in Nat /\ Len(down) >= 1 /\ Len(down') = Len(down) - 1 /\ down' \in Seq(Bytes)
      /\ \A i \in 1 .. Len(down') : i + 1 \in 1 .. Len(down) /\ down'[i] = down[i + 1]
  BY <1>1
<1>3. Gone \in Nat /\ Gone' = Gone + 1 /\ Gone + 1 <= RespLast
  BY <1>1, <1>2 DEF Gone, RespLast
<1>4. down[1] \in Bytes /\ RespByte(down[1], Gone + 1)
  BY <1>1, <1>2, ElementOfSeq
<1>5. \A b, o : RespByte(b, o)' = RespByte(b, o)
  BY DEF RespByte, RespLast
<1>6. PICK g \in Nat : g = Gone /\ Gone' = g + 1
  BY <1>3
<1>7. ASSUME NEW i \in 1 .. Len(down') PROVE RespByte(down'[i], (g + 1) + i)
  <2>1. i + 1 \in 1 .. Len(down) /\ down'[i] = down[i + 1] /\ g + (i + 1) = (g + 1) + i
    BY <1>2
  <2> QED
    BY <1>1, <1>6, <2>1
<1>8. \A i \in 1 .. Len(down') : RespByte(down[i], Gone + i)'
  BY <1>5, <1>6, <1>7
<1> QED
  BY <1>1, <1>2, <1>3, <1>4, <1>8

LEMMA LoseCommon ==
  ASSUME Common, Lose
  PROVE  Common' /\ Ix' = Ix
<1>0. TypeOK /\ OwedOK /\ SenderOK /\ DownOK
  BY DEF Common
<1>1. /\ UNCHANGED <<send_buffer, sendVars, adapterVars, recvVars, read_buffer, clientVars, performed>>
      /\ \/ up # <<>> /\ up' = Tail(up) /\ UNCHANGED down
         \/ down # <<>> /\ down' = Tail(down) /\ UNCHANGED up
  BY DEF Lose
<1>2. /\ UNCHANGED <<send_buffer, send_status, send_bit, send_buf, packet_id, recv_status, recv_data, recv_length,
                     read_buffer, waiting, fresh, owed, stale, tag, performed, a_recv_id>>
      /\ Ix' = Ix
  BY <1>1 DEF sendVars, recvVars, clientVars, adapterVars, Ix
<1>3. TypeOK'
  <2>1. up' \in Seq(Bytes) /\ down' \in Seq(Bytes)
    <3>1. up \in Seq(Bytes) /\ down \in Seq(Bytes)
      BY <1>0 DEF TypeOK
    <3>2. CASE up # <<>> /\ up' = Tail(up) /\ down' = down
      <4>1. Tail(up) \in Seq(Bytes)
        BY <3>1, <3>2, TailType
      <4> QED
        BY <3>1, <3>2, <4>1
    <3>3. CASE down # <<>> /\ down' = Tail(down) /\ up' = up
      <4>1. Tail(down) \in Seq(Bytes)
        BY <3>1, <3>3, TailType
      <4> QED
        BY <3>1, <3>3, <4>1
    <3> QED
      BY <1>1, <3>2, <3>3
  <2>2. losses' \in Nat
    BY <1>0 DEF Lose, TypeOK
  <2> QED
    BY <1>0, <1>1, <1>2, <2>1, <2>2 DEF TypeOK, adapterVars
<1>4. OwedOK' /\ SenderOK'
  BY <1>0, <1>2 DEF OwedOK, SenderOK, Parts
<1>5. CASE up' = Tail(up) /\ UNCHANGED down
  <2>1. DownOK'
    BY <1>0, <1>2, <1>5, DownKept
  <2> QED
    BY <1>2, <1>3, <1>4, <2>1 DEF Common
<1>6. CASE down # <<>> /\ down' = Tail(down) /\ UNCHANGED up
  <2>1. /\ Gone \in Nat /\ Gone' = Gone + 1 /\ Len(down') <= RespLast
        /\ \A i \in 1 .. Len(down') : RespByte(down[i], Gone + i)'
    BY <1>0, <1>2, <1>6, DownTail
  <2>2. waiting /\ owed = <<>> /\ read_buffer = <<>>
    BY <1>0, <1>6, ResponseOf DEF DownOK
  <2>3. Halfway(recv_status, recv_data, recv_length, performed, RESPONSE_PARTS, Gone')
    BY <1>0, <2>1, HalfwayKeep DEF DownOK, TypeOK
  <2>4. RespLast' = RespLast
    BY DEF RespLast
  <2>5. DownOK'
    BY <1>2, <2>1, <2>2, <2>3, <2>4 DEF DownOK
  <2> QED
    BY <1>2, <1>3, <1>4, <2>5 DEF Common
<1> QED
  BY <1>1, <1>5, <1>6

LEMMA LoseInv ==
  ASSUME LinkInv, Lose
  PROVE  LinkInv'
<1>0. TypeOK /\ InStep /\ Common
  BY DEF LinkInv, Common
<1>1. /\ UNCHANGED <<send_buffer, sendVars, adapterVars, clientVars>>
      /\ \/ up # <<>> /\ up' = Tail(up)
         \/ UNCHANGED up
  BY DEF Lose
<1>2. UNCHANGED <<packet_id, owed, stale, a_recv_id>> /\ Common' /\ Ix' = Ix
  BY <1>0, <1>1, LoseCommon DEF sendVars, clientVars, adapterVars
<1>3. CASE up # <<>> /\ up' = Tail(up)
  <2>2. PICK pk \in Seq(Nat), off \in Seq(Nat), ak \in Nat, ao \in Nat : UpOK(pk, off, ak, ao)
    BY <1>0 DEF InStep
  <2>3. /\ ak \in 0 .. Ix /\ Sent(ak, ao) /\ \A i \in 2 .. Len(up) : Before(ak, ao, pk[i], off[i])
        /\ ak = 0 => a_state' = "IDLE"
        /\ ak = 1 => Halfway(a_state', a_data', a_length', owed[1], Parts(owed[1]), ao)
    BY <1>1, <2>2 DEF UpOK, adapterVars
  <2>4. UpOK(Tail(pk), Tail(off), ak, ao)'
    BY <1>0, <1>1, <1>2, <1>3, <2>2, <2>3, UpTail
  <2>5. Tail(pk) \in Seq(Nat) /\ Tail(off) \in Seq(Nat)
    BY <2>4 DEF UpOK
  <2>6. stale' = 0 /\ packet_id' = IdOf(Ix)'
    BY <1>0, <1>2 DEF InStep, IdOf
  <2>7. InStep'
    BY <2>4, <2>5, <2>6 DEF InStep
  <2> QED
    BY <1>2, <2>7 DEF LinkInv
<1>4. CASE UNCHANGED up
  <2>1. InStep'
    BY <1>0, <1>1, <1>2, <1>4, InStepKept
  <2> QED
    BY <1>2, <2>1 DEF LinkInv
<1> QED
  BY <1>1, <1>3, <1>4

(* The receiver of the FPGA.                                               *)
LEMMA ReceiveCommon ==
  ASSUME Common, Receive
  PROVE  /\ Common'
         /\ waiting /\ owed = <<>> /\ performed \in Request /\ read_buffer = <<>>
         /\ read_buffer' = <<>> \/ read_buffer' = <<Whole(performed, RESPONSE_PARTS)>>
<1> DEFINE b == Head(down)
<1>0. TypeOK /\ OwedOK /\ SenderOK /\ DownOK
  BY DEF Common
<1>1. /\ down # <<>> /\ down' = Tail(down)
      /\ recv_status' = After(recv_status, b, recv_data, recv_length)
      /\ recv_data' = Collected(recv_status, b, recv_data)
      /\ recv_length' = LengthIn(recv_status, b, recv_length)
      /\ \/ read_buffer' = Append(read_buffer, recv_data) /\ recv_status = "END" /\ b.kind = "end"
         \/ read_buffer' = read_buffer
      /\ UNCHANGED <<send_buffer, sendVars, up, adapterVars, clientVars, performed, faultVars>>
  BY DEF Receive
<1>2. /\ UNCHANGED <<send_buffer, send_status, send_bit, send_buf, packet_id,
                     waiting, fresh, owed, stale, tag, performed>>
      /\ Ix' = Ix
  BY <1>1 DEF sendVars, clientVars, Ix
<1>3. waiting /\ owed = <<>> /\ performed \in Request /\ read_buffer = <<>>
  BY <1>0, <1>1, ResponseOf DEF DownOK
<1>4. /\ Gone \in Nat /\ Gone' = Gone + 1 /\ Gone + 1 <= RespLast /\ Len(down') <= RespLast
      /\ down \in Seq(Bytes) /\ down' \in Seq(Bytes) /\ Len(down') = Len(down) - 1
      /\ RespByte(down[1], Gone + 1) /\ down[1] \in Bytes /\ RespLast = RESPONSE_PARTS + 4
      /\ \A i \in 1 .. Len(down') : RespByte(down[i], Gone + i)'
  BY <1>1, <1>2, DownTail
<1>5. b = down[1]
  BY <1>1, <1>4
<1> HIDE DEF b
<1>50. Gone + 1 \in 1 .. RespLast /\ RESPONSE_PARTS \in Nat \ {0} /\ RespLast \in Nat
  BY <1>4, ConstantsAre
<1>6. /\ b \in Bytes
      /\ b.kind = "length" => Gone + 1 = 3 /\ b.parts = RESPONSE_PARTS
      /\ b.kind = "data" => Gone + 1 > 3 /\ b = DataByte(performed, (Gone + 1) - 3)
      /\ b.kind = "end" => Gone + 1 = RespLast
  BY <1>4, <1>5, <1>50, RespKinds
<1>7. /\ recv_status \in States /\ recv_data \in Seq(DataBytes)
      /\ recv_status \in {"CHANNEL", "LENGTH"} => recv_data = <<>>
  BY <1>0 DEF TypeOK
<1>8. Halfway(recv_status', recv_data', recv_length', performed, RESPONSE_PARTS, Gone + 1)
  <2>1. Halfway(recv_status, recv_data, recv_length, performed, RESPONSE_PARTS, Gone)
    BY <1>0 DEF DownOK
  <2> QED
    BY <1>1, <1>3, <1>4, <1>50, <1>6, <1>7, <2>1, HalfwayStep
<1>9. /\ recv_status' \in States /\ recv_data' \in Seq(DataBytes)
      /\ recv_status' \in {"CHANNEL", "LENGTH"} => recv_data' = <<>>
  BY <1>1, <1>6, <1>7, ByteKinds, CollectedIs
<1>10. TypeOK'
  BY <1>0, <1>1, <1>2, <1>4, <1>9 DEF TypeOK, adapterVars, faultVars
<1>11. OwedOK' /\ SenderOK'
  BY <1>0, <1>2 DEF OwedOK, SenderOK, Parts
<1>12. /\ read_buffer' = <<>> \/ read_buffer' = <<Whole(performed, RESPONSE_PARTS)>>
       /\ read_buffer' # <<>> => down' = <<>> /\ recv_status' = "IDLE"
  <2>1. CASE read_buffer' = read_buffer
    BY <1>3, <2>1
  <2>2. CASE read_buffer' = Append(read_buffer, recv_data) /\ recv_status = "END" /\ b.kind = "end"
    <3>1. Gone + 1 = RespLast /\ Len(recv_data) = RESPONSE_PARTS /\ Gathered(recv_data, performed, Gone)
      BY <1>0, <1>6, <2>2 DEF DownOK, Halfway
    <3>2. recv_data = Whole(performed, RESPONSE_PARTS)
      BY <1>4, <1>50, <1>7, <3>1, GatherWhole
    <3>3. Len(down') = 0
      BY <1>4, <3>1 DEF Gone
    <3>4. down' = <<>>
      BY <1>4, <3>3
    <3>5. recv_status' = "IDLE"
      BY <1>1, <2>2 DEF After, Follows
    <3>6. read_buffer' = <<recv_data>>
      BY <1>3, <1>7, <2>2
    <3> QED
      BY <3>2, <3>4, <3>5, <3>6
  <2> QED
    BY <1>1, <2>1, <2>2 DEF b
<1>13. DownOK'
  <2>1. RespLast' = RespLast
    BY DEF RespLast
  <2> QED
    BY <1>2, <1>3, <1>4, <1>8, <1>12, <2>1 DEF DownOK
<1> QED
  BY <1>3, <1>10, <1>11, <1>12, <1>13 DEF Common

LEMMA ReceiveInv ==
  ASSUME LinkInv, Receive
  PROVE  LinkInv'
<1>1. Common'
  BY ReceiveCommon DEF LinkInv
<1>2. Ix' = Ix /\ \A k \in 1 .. Ix : owed'[k] = owed[k]
  BY DEF Receive, Ix, clientVars
<1>3. InStep'
  BY <1>2, InStepKept DEF LinkInv, Common, Receive, clientVars
<1> QED
  BY <1>1, <1>3 DEF LinkInv

-----------------------------------------------------------------------------
(* The Adapter.                                                            *)

(* A byte that does not end the packet awaited.                            *)
LEMMA PassCommon ==
  ASSUME Common, onRecv, ~Accepts(Head(up))
  PROVE  /\ Common' /\ Ix' = Ix /\ up # <<>> /\ up' = Tail(up) /\ Head(up) = up[1] /\ up[1] \in Bytes
         /\ up \in Seq(Bytes) /\ Len(up) \in Nat /\ Len(up) >= 1
         /\ a_state' = After(a_state, up[1], a_data, a_length)
         /\ a_data' = Collected(a_state, up[1], a_data)
         /\ a_length' = LengthIn(a_state, up[1], a_length)
         /\ UNCHANGED <<a_recv_id, performed, owed, stale, waiting, fresh, losses, send_buffer, sendVars,
                        send_status, send_bit, send_buf, packet_id>>
<1> DEFINE b == Head(up)
<1>0. TypeOK /\ OwedOK /\ SenderOK /\ DownOK
  BY DEF Common
<1>1. /\ up # <<>> /\ up' = Tail(up)
      /\ a_state' = After(a_state, b, a_data, a_length)
      /\ a_data' = Collected(a_state, b, a_data)
      /\ a_length' = LengthIn(a_state, b, a_length)
      /\ UNCHANGED <<a_recv_id, a_send_id, down, performed, owed, stale>>
      /\ UNCHANGED <<send_buffer, sendVars, recvVars, read_buffer, waiting, fresh, tag, faultVars>>
  BY DEF onRecv
<1>2. /\ UNCHANGED <<send_status, send_bit, send_buf, packet_id, recv_status, recv_data, recv_length, losses>>
      /\ Ix' = Ix
  BY <1>1 DEF sendVars, recvVars, faultVars, Ix
<1>4. up \in Seq(Bytes) /\ up' \in Seq(Bytes) /\ b = up[1] /\ b \in Bytes /\ 1 \in 1 .. Len(up)
  <2>1. up \in Seq(Bytes)
    BY <1>0 DEF TypeOK
  <2>2. 1 \in 1 .. Len(up) /\ up' \in Seq(Bytes) /\ b = up[1]
    BY <1>1, <2>1
  <2> QED
    BY <2>1, <2>2, ElementOfSeq
<1> HIDE DEF b
<1>8. /\ a_state \in States /\ a_data \in Seq(DataBytes)
      /\ a_state \in {"CHANNEL", "LENGTH"} => a_data = <<>>
  BY <1>0 DEF TypeOK
<1>9. /\ a_state' \in States /\ a_data' \in Seq(DataBytes)
      /\ a_state' \in {"CHANNEL", "LENGTH"} => a_data' = <<>>
  BY <1>1, <1>4, <1>8, ByteKinds, CollectedIs
<1>10. TypeOK'
  BY <1>0, <1>1, <1>2, <1>4, <1>9 DEF TypeOK
<1>11. OwedOK' /\ SenderOK'
  BY <1>0, <1>1, <1>2 DEF OwedOK, SenderOK, Parts
<1>12. DownOK'
  BY <1>0, <1>1, <1>2, DownKept
<1>13. Len(up) \in Nat /\ Len(up) >= 1
  BY <1>1, <1>4
<1> QED
  BY <1>1, <1>2, <1>4, <1>10, <1>11, <1>12, <1>13 DEF Common, b

(* A byte of a packet, met by an Adapter that has met nothing of it, or    *)
(* what comes before.                                                      *)
LEMMA PassHalfway ==
  ASSUME TypeOK, NEW m \in Request, NEW i, NEW n \in Int, NEW o \in 1 .. Last(m), o > n, NEW b, b = ByteOf(m, i, o),
         Halfway(a_state, a_data, a_length, m, Parts(m), n),
         a_state' = After(a_state, b, a_data, a_length),
         a_data' = Collected(a_state, b, a_data),
         a_length' = LengthIn(a_state, b, a_length)
  PROVE  Halfway(a_state', a_data', a_length', m, Parts(m), o)
<1>1. /\ a_state \in States /\ a_data \in Seq(DataBytes)
      /\ a_state \in {"CHANNEL", "LENGTH"} => a_data = <<>>
  BY DEF TypeOK
<1>2. Parts(m) \in Nat \ {0}
  BY PartsIs
<1>3. /\ b.kind = "length" => o = 3 /\ b.parts = Parts(m)
      /\ b.kind = "data" => o > 3 /\ b = DataByte(m, o - 3)
  BY ByteIs
<1>4. o \in Int
  OBVIOUS
<1> QED
  BY <1>1, <1>2, <1>3, <1>4, HalfwayStep

LEMMA PassInv ==
  ASSUME LinkInv, onRecv, ~Accepts(Head(up))
  PROVE  LinkInv' /\ UNCHANGED <<performed, owed, stale>>
<1>0. TypeOK /\ InStep /\ Common
  BY DEF LinkInv, Common
<1>1. /\ Common' /\ Ix' = Ix /\ up # <<>> /\ up' = Tail(up) /\ 1 \in 1 .. Len(up)
      /\ a_state' = After(a_state, up[1], a_data, a_length)
      /\ a_data' = Collected(a_state, up[1], a_data)
      /\ a_length' = LengthIn(a_state, up[1], a_length)
      /\ UNCHANGED <<a_recv_id, performed, owed, stale, send_buffer, sendVars, packet_id>>
  BY <1>0, PassCommon
<1>3. PICK pk \in Seq(Nat), off \in Seq(Nat), ak \in Nat, ao \in Nat : UpOK(pk, off, ak, ao)
  BY <1>0 DEF InStep
<1>5. PICK k \in 1 .. Ix : k = pk[1] /\ k \in Nat
  <2>1. pk[1] \in 1 .. Ix
    BY <1>1, <1>3 DEF UpOK
  <2>2. Ix \in Nat
    BY <1>0, IxIs
  <2> QED
    BY <2>1, <2>2
<1>6. PICK o \in Nat : o = off[1] /\ o \in 1 .. Last(owed[k]) /\ up[1] = ByteOf(owed[k], IdOf(k), o)
                       /\ Sent(k, o) /\ Before(ak, ao, k, o)
  <2>1. off[1] \in Nat
    BY <1>1, <1>3, ElementOfSeq DEF UpOK
  <2> QED
    BY <1>1, <1>3, <1>5, <2>1 DEF UpOK
<1>7. owed[k] \in Request
  <2>1. k \in 1 .. Len(owed) /\ owed \in Seq(Request)
    BY <1>0, <1>5, IxIs DEF TypeOK
  <2> QED
    BY <2>1, ElementOfSeq
<1>13. k = 1 => Halfway(a_state', a_data', a_length', owed[1], Parts(owed[1]), o)
  <2> SUFFICES ASSUME k = 1 PROVE Halfway(a_state', a_data', a_length', owed[1], Parts(owed[1]), o)
    OBVIOUS
  <2>1. PICK n \in Nat : o > n /\ Halfway(a_state, a_data, a_length, owed[1], Parts(owed[1]), n)
    <3>1. CASE ak = 0
      <4>1. a_state = "IDLE"
        BY <1>3, <3>1 DEF UpOK
      <4> QED
        BY <1>6, <4>1 DEF Halfway
    <3>2. CASE ak # 0
      <4>1. ak = 1 /\ ao < o
        BY <1>6, <3>2 DEF Before
      <4> QED
        BY <1>3, <4>1 DEF UpOK
    <3> QED
      BY <3>1, <3>2
  <2> QED
    BY <1>0, <1>1, <1>6, <1>7, <2>1, PassHalfway
<1>14. UpOK(Tail(pk), Tail(off), k, o)'
  <2>1. \A i \in 2 .. Len(up) : Before(k, o, pk[i], off[i])
    BY <1>1, <1>3, <1>5, <1>6 DEF UpOK
  <2>2. k \in 0 .. Ix /\ k # 0
    BY <1>5
  <2> QED
    BY <1>0, <1>1, <1>3, <1>6, <1>13, <2>1, <2>2, UpTail
<1>15. Tail(pk) \in Seq(Nat) /\ Tail(off) \in Seq(Nat)
  BY <1>14 DEF UpOK
<1>16. stale' = 0 /\ packet_id' = IdOf(Ix)'
  BY <1>0, <1>1 DEF InStep, IdOf
<1>17. InStep'
  BY <1>5, <1>6, <1>14, <1>15, <1>16 DEF InStep
<1> QED
  BY <1>1, <1>17 DEF LinkInv

(* The byte that ends the packet awaited: it is the last of owed[1]'s, and *)
(* all of that packet has come.                                            *)
LEMMA AcceptIs ==
  ASSUME LinkInv, WINDOW <= IDS, onRecv, Accepts(Head(up)),
         NEW pk, NEW off, NEW ak, NEW ao, UpOK(pk, off, ak, ao)
  PROVE  /\ Len(owed) >= 1 /\ Ix >= 1 /\ owed[1] \in Request
         /\ pk[1] = 1 /\ off[1] = Last(owed[1]) /\ Sent(1, Last(owed[1]))
         /\ a_data = Whole(owed[1], Parts(owed[1])) /\ Len(a_data) = Parts(owed[1])
         /\ a_recv_id' = (a_recv_id + 1) % IDS /\ a_state' = "IDLE" /\ a_data' = a_data
<1> USE ConstantsAre
<1> DEFINE b == Head(up)
<1>0. TypeOK
  BY DEF LinkInv, Common
<1>1. /\ up # <<>> /\ a_state = "END" /\ b.kind = "end" /\ b.id = expected_id
      /\ a_state' = After(a_state, b, a_data, a_length) /\ a_data' = Collected(a_state, b, a_data)
      /\ a_recv_id' = b.id
  BY DEF onRecv, Accepts
<1>2. up \in Seq(Bytes) /\ b = up[1] /\ 1 \in 1 .. Len(up)
  <2>1. up \in Seq(Bytes)
    BY <1>0 DEF TypeOK
  <2> QED
    BY <1>1, <2>1
<1> HIDE DEF b
<1>3. /\ pk[1] \in 1 .. Ix /\ off[1] \in 1 .. Last(owed[pk[1]])
      /\ b = ByteOf(owed[pk[1]], IdOf(pk[1]), off[1])
      /\ Sent(pk[1], off[1]) /\ Before(ak, ao, pk[1], off[1])
      /\ ak \in 0 .. Ix /\ ao \in Nat /\ ak # 0
  BY <1>1, <1>2 DEF UpOK
<1>4. /\ Ix \in Nat /\ Ix <= Len(owed) /\ Ix <= IDS /\ Len(owed) \in Nat
      /\ a_recv_id \in 0 .. IDS - 1 /\ owed \in Seq(Request) /\ a_data \in Seq(DataBytes)
  <2>1. Ix \in Nat /\ Ix <= Len(owed) /\ Ix <= WINDOW /\ Len(owed) \in Nat
    BY <1>0, IxIs
  <2>2. Ix <= IDS
    BY <2>1
  <2> QED
    BY <1>0, <2>1, <2>2 DEF TypeOK
<1>5. pk[1] \in 1 .. Len(owed) /\ owed[pk[1]] \in Request
  <2>1. pk[1] \in 1 .. Len(owed)
    BY <1>3, <1>4
  <2> QED
    BY <1>4, <2>1, ElementOfSeq
<1>6. off[1] = Last(owed[pk[1]]) /\ b.id = IdOf(pk[1])
  BY <1>1, <1>3, <1>5, ByteIs
<1>8. pk[1] = 1
  <2>1. Wrapped(a_recv_id, pk[1], IDS) = (a_recv_id + 1) % IDS
    BY <1>1, <1>6 DEF IdOf, expected_id
  <2>2. PICK k \in 1 .. IDS : k = pk[1]
    BY <1>3, <1>4
  <2>3. a_recv_id \in 0 .. IDS - 1 /\ IDS \in Nat /\ IDS >= 1
    BY <1>4
  <2> QED
    BY <2>1, <2>2, <2>3, WrapOne
<1>9. Parts(owed[1]) \in Nat \ {0} /\ Last(owed[1]) = Parts(owed[1]) + 4 /\ owed[1] \in Request
  BY <1>5, <1>8, PartsIs
<1>10. ak = 1 /\ ao < Last(owed[1])
  BY <1>3, <1>6, <1>8, <1>9 DEF Before
<1>11. Len(a_data) = Parts(owed[1]) /\ Gathered(a_data, owed[1], ao)
  BY <1>1, <1>10 DEF UpOK, Halfway
<1>12. a_data = Whole(owed[1], Parts(owed[1]))
  BY <1>3, <1>4, <1>9, <1>10, <1>11, GatherWhole
<1>13. a_recv_id' = (a_recv_id + 1) % IDS
  BY <1>1 DEF expected_id
<1>14. a_state' = "IDLE" /\ a_data' = a_data
  BY <1>1 DEF After, Follows, Collected
<1> QED
  BY <1>3, <1>4, <1>6, <1>8, <1>9, <1>11, <1>12, <1>13, <1>14

(* What data_handler does with a whole packet: of owed[k], which is not among the ones before.*)
LEMMA AcceptDoes ==
  ASSUME onRecv, Accepts(Head(up)), Len(owed) \in Nat, NEW k \in 1 .. Len(owed), owed[k] \in Request,
         \A j \in 1 .. k - 1 : owed[j] # owed[k],
         a_data = Whole(owed[k], Parts(owed[k])), Len(a_data) = Parts(owed[k])
  PROVE  /\ performed' = owed[k] /\ owed' = SubSeq(owed, k + 1, Len(owed))
         /\ stale' = IF stale > k THEN stale - k ELSE 0
         /\ owed[k].rw = "r" => /\ down' = down \o Response(owed[k])
                                /\ a_send_id' = (a_send_id + 1) % IDS
         /\ owed[k].rw # "r" => UNCHANGED <<down, a_send_id>>
<1> DEFINE m == owed[k]
<1>1. Handle(a_data) /\ owed' = SubSeq(owed, Place + 1, Len(owed)) /\ stale' = IF stale > Place THEN stale - Place ELSE 0
  BY DEF onRecv
<1>2. a_data[1].of = m
  <2>1. Parts(m) \in Nat \ {0}
    BY PartsIs
  <2>2. a_data[1] = DataByte(m, 1)
    BY <2>1 DEF Whole
  <2> QED
    BY <2>2 DEF DataByte
<1>3. /\ Len(a_data) = READ_PARTS =>
          /\ down' = down \o Response(m) /\ a_send_id' = (a_send_id + 1) % IDS
          /\ performed' = IF a_data = Whole(m, READ_PARTS) THEN m ELSE NoPacket
      /\ Len(a_data) # READ_PARTS /\ Len(a_data) = WRITE_PARTS =>
          /\ performed' = IF a_data = Whole(m, WRITE_PARTS) THEN m ELSE NoPacket
          /\ UNCHANGED <<down, a_send_id>>
  <2>1. READ_PARTS # WRITE_PARTS
    BY ConstantsAre
  <2>2. CASE Len(a_data) = READ_PARTS
    <3>1. Len(a_data) # WRITE_PARTS
      BY <2>1, <2>2
    <3> QED
      BY <1>1, <1>2, <2>2, <3>1 DEF Handle
  <2>3. CASE Len(a_data) # READ_PARTS
    BY <1>1, <1>2, <2>3 DEF Handle
  <2> QED
    BY <2>2, <2>3
<1>4. /\ m.rw = "r" => Parts(m) = READ_PARTS
      /\ m.rw # "r" => Parts(m) = WRITE_PARTS
  BY DEF Parts
<1>5. performed' = m
  BY <1>3, <1>4, Zenon
<1>6. /\ m.rw = "r" => down' = down \o Response(m) /\ a_send_id' = (a_send_id + 1) % IDS
      /\ m.rw # "r" => UNCHANGED <<down, a_send_id>>
  <2>1. READ_PARTS # WRITE_PARTS
    BY ConstantsAre
  <2> QED
    BY <1>3, <1>4, <2>1, Zenon
<1>7. Place = k
  <2> DEFINE places == {l \in 1 .. Len(owed) : owed[l] = performed'}
  <2>1. k \in places /\ places # {}
    BY <1>5
  <2>2. \A j \in places : k <= j
    BY <1>5
  <2>3. PICK p : p = CHOOSE l \in places : \A j \in places : l <= j
    OBVIOUS
  <2>4. p \in places /\ \A j \in places : p <= j
    BY <2>1, <2>2, <2>3
  <2>5. p = k
    BY <2>1, <2>2, <2>4
  <2> QED
    BY <2>1, <2>3, <2>5 DEF Place
<1> QED
  BY <1>1, <1>5, <1>6, <1>7

(* The bytes of a response, whatever performed was before it.              *)
LEMMA ResponseIs ==
  ASSUME NEW m \in Request, a_send_id \in Ids
  PROVE  /\ Response(m) \in Seq(Bytes) /\ Len(Response(m)) = RespLast
         /\ \A o \in 1 .. RespLast :
              /\ Response(m)[o].kind =
                    (CASE o = 1 -> "head" [] o = 2 -> "channel" [] o = 3 -> "length"
                       [] o > 3 /\ o < RespLast -> "data" [] o = RespLast -> "end")
              /\ o = 3 => Response(m)[o].parts = RESPONSE_PARTS
              /\ o > 3 /\ o < RespLast => Response(m)[o] = DataByte(m, o - 3)
<1> DEFINE h == <<HeadByte(a_send_id), ChannelByte, LengthByte(RESPONSE_PARTS)>>
           w == Whole(m, RESPONSE_PARTS)
           e == <<EndByte(a_send_id)>>
           r == h \o w \o e
<1>0. RESPONSE_PARTS \in Nat \ {0} /\ RespLast = RESPONSE_PARTS + 4 /\ RespLast \in Nat
  BY ConstantsAre DEF RespLast
<1>1. /\ HeadByte(a_send_id) \in Bytes /\ ChannelByte \in Bytes /\ LengthByte(RESPONSE_PARTS) \in Bytes
      /\ EndByte(a_send_id) \in Bytes
  BY <1>0 DEF Bytes, HeadByte, LengthByte, EndByte
<1>2. \A j \in 1 .. RESPONSE_PARTS : DataByte(m, j) \in Bytes
  BY <1>0 DEF Bytes, DataBytes, DataByte
<1>3. h \in Seq(Bytes) /\ Len(h) = 3 /\ e \in Seq(Bytes) /\ Len(e) = 1
  BY <1>1
<1>4. w \in Seq(Bytes) /\ Len(w) = RESPONSE_PARTS
  <2>1. w \in [1 .. RESPONSE_PARTS -> Bytes]
    BY <1>2 DEF Whole
  <2> QED
    BY <1>0, <2>1
<1>5. \A o \in 1 .. RESPONSE_PARTS : w[o] = DataByte(m, o)
  BY DEF Whole
<1>6. Response(m) = r
  BY DEF Response
<1>7. h[1] = HeadByte(a_send_id) /\ h[2] = ChannelByte /\ h[3] = LengthByte(RESPONSE_PARTS) /\ e[1] = EndByte(a_send_id)
  OBVIOUS
<1> HIDE DEF h, w, e
<1>8. /\ h \o w \in Seq(Bytes) /\ Len(h \o w) = RESPONSE_PARTS + 3
      /\ \A o \in 1 .. 3 : (h \o w)[o] = h[o]
      /\ \A o \in 4 .. RESPONSE_PARTS + 3 : (h \o w)[o] = w[o - 3]
  <2>1. /\ h \o w \in Seq(Bytes) /\ Len(h \o w) = 3 + RESPONSE_PARTS
        /\ \A i \in 1 .. 3 + RESPONSE_PARTS : (h \o w)[i] = IF i <= 3 THEN h[i] ELSE w[i - 3]
    <3>1. /\ h \o w \in Seq(Bytes) /\ Len(h \o w) = Len(h) + Len(w)
          /\ \A i \in 1 .. Len(h) + Len(w) : (h \o w)[i] = IF i <= Len(h) THEN h[i] ELSE w[i - Len(h)]
      BY <1>3, <1>4, ConcatProperties
    <3> QED
      BY <1>3, <1>4, <3>1
  <2> QED
    BY <1>0, <2>1
<1>9. /\ r \in Seq(Bytes) /\ Len(r) = RespLast
      /\ \A o \in 1 .. RESPONSE_PARTS + 3 : r[o] = (h \o w)[o]
      /\ r[RespLast] = e[1]
  <2> DEFINE t == h \o w
  <2> HIDE DEF t
  <2>1. t \in Seq(Bytes) /\ Len(t) = RESPONSE_PARTS + 3
    BY <1>8 DEF t
  <2>2. /\ t \o e \in Seq(Bytes) /\ Len(t \o e) = (RESPONSE_PARTS + 3) + 1
        /\ \A i \in 1 .. (RESPONSE_PARTS + 3) + 1 :
              (t \o e)[i] = IF i <= RESPONSE_PARTS + 3 THEN t[i] ELSE e[i - (RESPONSE_PARTS + 3)]
    BY <1>3, <2>1, ConcatProperties
  <2>3. RespLast - (RESPONSE_PARTS + 3) = 1 /\ RespLast = (RESPONSE_PARTS + 3) + 1
    BY <1>0
  <2>4. /\ t \o e \in Seq(Bytes) /\ Len(t \o e) = RespLast /\ (t \o e)[RespLast] = e[1]
        /\ \A i \in 1 .. RESPONSE_PARTS + 3 : (t \o e)[i] = t[i]
    BY <1>0, <2>2, <2>3
  <2> QED
    BY <2>4 DEF t
<1> HIDE DEF r
<1>10. /\ r[1] = HeadByte(a_send_id) /\ r[2] = ChannelByte /\ r[3] = LengthByte(RESPONSE_PARTS)
       /\ r[RespLast] = EndByte(a_send_id)
       /\ \A o \in 1 .. RespLast : o > 3 /\ o < RespLast => r[o] = DataByte(m, o - 3)
  <2>1. 1 \in 1 .. RESPONSE_PARTS + 3 /\ 2 \in 1 .. RESPONSE_PARTS + 3 /\ 3 \in 1 .. RESPONSE_PARTS + 3
    BY <1>0
  <2>2. ASSUME NEW o \in 1 .. RespLast, o > 3, o < RespLast PROVE r[o] = DataByte(m, o - 3)
    <3>1. o \in 4 .. RESPONSE_PARTS + 3 /\ o \in 1 .. RESPONSE_PARTS + 3 /\ o - 3 \in 1 .. RESPONSE_PARTS
      BY <1>0, <2>2
    <3> QED
      BY <1>5, <1>8, <1>9, <3>1
  <2> QED
    BY <1>7, <1>8, <1>9, <2>1, <2>2
<1>11. ASSUME NEW o \in 1 .. RespLast
       PROVE  /\ r[o].kind = (CASE o = 1 -> "head" [] o = 2 -> "channel" [] o = 3 -> "length"
                                [] o > 3 /\ o < RespLast -> "data" [] o = RespLast -> "end")
              /\ o = 3 => r[o].parts = RESPONSE_PARTS
              /\ o > 3 /\ o < RespLast => r[o] = DataByte(m, o - 3)
  <2>1. r[1].kind = "head" /\ r[2].kind = "channel" /\ r[3].kind = "length" /\ r[3].parts = RESPONSE_PARTS
        /\ r[RespLast].kind = "end"
    BY <1>10 DEF HeadByte, ChannelByte, LengthByte, EndByte
  <2>2. o > 3 /\ o < RespLast => r[o].kind = "data" /\ r[o] = DataByte(m, o - 3)
    BY <1>10 DEF DataByte
  <2> QED
    BY <1>0, <2>1, <2>2
<1> QED
  BY <1>6, <1>9, <1>11

(* The sender is past the first packet when its end is taken.              *)
LEMMA SentFirst ==
  ASSUME TypeOK, SenderOK, Ix = 1, owed[1] \in Request, Sent(1, Last(owed[1]))
  PROVE  send_status = "IDLE"
<1> SUFFICES ASSUME send_status # "IDLE" PROVE FALSE
  OBVIOUS
<1>1. /\ send_buf = owed[1]
      /\ send_status = "DATA" => send_bit \in 0 .. Parts(send_buf) - 1
  BY DEF SenderOK
<1>2. Last(owed[1]) <= SentOff
  BY DEF Sent
<1>3. Parts(owed[1]) \in Nat \ {0} /\ Last(owed[1]) = Parts(owed[1]) + 4
  BY PartsIs
<1>4. send_status \in {"CHANNEL", "LENGTH", "DATA", "END"}
  BY DEF TypeOK, States
<1>5. Parts(send_buf) = Parts(owed[1])
  BY <1>1
<1>6. SentOff \in Nat /\ SentOff <= 3 + Parts(owed[1])
  BY <1>1, <1>3, <1>4, <1>5 DEF SentOff
<1> QED
  BY <1>2, <1>3, <1>6

LEMMA FunIsSeq ==
  ASSUME NEW S, NEW n \in Nat, NEW f \in [1 .. n -> S]
  PROVE  f \in Seq(S) /\ Len(f) = n
OBVIOUS

LEMMA BehindFirst ==
  ASSUME NEW S, NEW s \in Seq(S), Len(s) >= 1
  PROVE  /\ SubSeq(s, 2, Len(s)) \in Seq(S) /\ Len(SubSeq(s, 2, Len(s))) = Len(s) - 1
         /\ \A k \in 1 .. Len(s) - 1 : k + 1 \in 1 .. Len(s) /\ SubSeq(s, 2, Len(s))[k] = s[k + 1]
<1>1. PICK n \in Nat : n = Len(s) /\ n >= 1
  OBVIOUS
<1>2. \A i \in 2 .. n : s[i] \in S
  BY <1>1
<1>3. /\ SubSeq(s, 2, n) \in Seq(S)
      /\ Len(SubSeq(s, 2, n)) = IF 2 <= n THEN n - 2 + 1 ELSE 0
      /\ \A i \in 1 .. n - 2 + 1 : SubSeq(s, 2, n)[i] = s[2 + i - 1]
  BY <1>1, <1>2, SubSeqProperties
<1> QED
  BY <1>1, <1>3

(* The first of the packets owed is performed.                             *)
LEMMA AcceptFirst ==
  ASSUME Common, onRecv, Accepts(Head(up)), Len(owed) >= 1, Ix >= 1, owed[1] \in Request,
         Ix = 1 => send_status = "IDLE", stale = 0 \/ owed[1].rw = "w",
         a_data = Whole(owed[1], Parts(owed[1])), Len(a_data) = Parts(owed[1]),
         a_recv_id' = (a_recv_id + 1) % IDS, a_state' = "IDLE", a_data' = a_data
  PROVE  /\ Common' /\ performed' = owed[1] /\ owed' = SubSeq(owed, 2, Len(owed))
         /\ stale' = (IF stale > 1 THEN stale - 1 ELSE 0) /\ Ix' = Ix - 1
         /\ owed[1].rw = "r" => waiting /\ Len(owed) = 1
         /\ read_buffer = <<>>
<1> USE ConstantsAre
<1>0. TypeOK /\ OwedOK /\ SenderOK /\ DownOK
  BY DEF Common
<1>2. /\ Len(owed) >= 1 /\ Ix >= 1 /\ owed[1] \in Request
      /\ a_data = Whole(owed[1], Parts(owed[1])) /\ Len(a_data) = Parts(owed[1])
      /\ a_recv_id' = (a_recv_id + 1) % IDS /\ a_state' = "IDLE" /\ a_data' = a_data
  OBVIOUS
<1>3. /\ Ix \in Nat /\ Ix <= Len(owed) /\ Len(owed) \in Nat /\ Len(send_buffer) \in Nat
      /\ owed \in Seq(Request) /\ up \in Seq(Bytes) /\ down \in Seq(Bytes) /\ Len(owed) <= WINDOW
      /\ send_buffer \in Seq(Request)
  BY <1>0, IxIs DEF TypeOK
<1>4. /\ performed' = owed[1] /\ owed' = SubSeq(owed, 2, Len(owed))
      /\ stale' = IF stale > 1 THEN stale - 1 ELSE 0
      /\ owed[1].rw = "r" => down' = down \o Response(owed[1]) /\ a_send_id' = (a_send_id + 1) % IDS
      /\ owed[1].rw # "r" => UNCHANGED <<down, a_send_id>>
  <2>1. 1 \in 1 .. Len(owed) /\ \A j \in 1 .. 1 - 1 : owed[j] # owed[1]
    BY <1>2, <1>3
  <2>2. PICK k \in 1 .. Len(owed) : k = 1
    BY <2>1
  <2>3. /\ performed' = owed[k] /\ owed' = SubSeq(owed, k + 1, Len(owed))
        /\ stale' = IF stale > k THEN stale - k ELSE 0
        /\ owed[k].rw = "r" => down' = down \o Response(owed[k]) /\ a_send_id' = (a_send_id + 1) % IDS
        /\ owed[k].rw # "r" => UNCHANGED <<down, a_send_id>>
    BY <1>2, <1>3, <2>1, <2>2, AcceptDoes
  <2> QED
    BY <2>2, <2>3
<1>5. /\ up # <<>> /\ up' = Tail(up)
      /\ UNCHANGED <<send_buffer, send_status, send_bit, send_buf, packet_id, recv_status, recv_data, recv_length,
                     read_buffer, waiting, fresh, tag>>
  BY DEF onRecv, sendVars, recvVars
<1>6. /\ owed' \in Seq(Request) /\ Len(owed') = Len(owed) - 1
      /\ \A k \in 1 .. Len(owed') : k + 1 \in 1 .. Len(owed) /\ owed'[k] = owed[k + 1]
  BY <1>2, <1>3, <1>4, BehindFirst
<1>60. Len(owed) \in Nat /\ Len(owed') = Len(owed) - 1 /\ Len(owed) >= 1
  BY <1>2, <1>3, <1>6
<1>7. Ix' = Ix - 1
  BY <1>3, <1>5, <1>6 DEF Ix
<1>8. Ix = 1 => send_status = "IDLE"
  OBVIOUS
<1>80. stale \in Nat /\ stale <= Len(owed) /\ stale' \in Nat /\ stale' <= Len(owed) - 1
       /\ \A k \in Nat : k > stale' => k + 1 > stale
  BY <1>0, <1>2, <1>3, <1>4 DEF TypeOK
<1>9. owed[1].rw = "r" => waiting /\ Len(owed) = 1
  <2> SUFFICES ASSUME owed[1].rw = "r" PROVE waiting /\ 1 = Len(owed)
    OBVIOUS
  <2>1. 1 \in 1 .. Len(owed) /\ 1 > stale
    BY <1>2, <1>3
  <2> QED
    BY <1>0, <2>1 DEF OwedOK
<1>10. down = <<>> /\ recv_status = "IDLE" /\ read_buffer = <<>>
  BY <1>0, <1>2 DEF DownOK
<1>11. /\ a_send_id \in Ids
       /\ owed[1].rw = "r" => down' = Response(owed[1])
       /\ owed[1].rw # "r" => down' = <<>>
  <2>1. a_send_id \in Ids
    BY <1>0 DEF TypeOK
  <2>2. Response(owed[1]) \in Seq(Bytes)
    BY <1>2, <2>1, ResponseIs
  <2> QED
    BY <1>4, <1>10, <2>1, <2>2
<1>110. Response(owed[1]) \in Seq(Bytes) /\ Len(Response(owed[1])) = RespLast /\ RespLast \in Nat /\ RespLast' = RespLast
  BY <1>2, <1>11, ResponseIs DEF RespLast
<1>12. TypeOK'
  <2>1. down' \in Seq(Bytes)
    <3>1. CASE owed[1].rw = "r"
      BY <1>11, <1>110, <3>1
    <3>2. CASE owed[1].rw # "r"
      <4>1. down' = <<>>
        BY <1>11, <3>2
      <4>2. <<>> \in Seq(Bytes)
        OBVIOUS
      <4> QED
        BY <4>1, <4>2, Zenon
    <3> QED
      BY <3>1, <3>2
  <2>2. a_send_id' \in Ids /\ a_recv_id' \in Ids
    <3>1. (a_send_id + 1) % IDS \in Ids /\ (a_recv_id + 1) % IDS \in Ids /\ a_send_id \in Ids
      BY <1>0, NextOf DEF TypeOK
    <3> QED
      BY <1>2, <1>4, <3>1
  <2>3. Len(owed') <= WINDOW /\ Len(send_buffer') <= Len(owed')
    BY <1>2, <1>3, <1>5, <1>6 DEF Ix
  <2>4. up' \in Seq(Bytes)
    BY <1>3, <1>5
  <2>5. stale' \in 0 .. Len(owed') /\ losses' \in Nat
    <3>1. losses' = losses
      BY DEF onRecv, faultVars
    <3> QED
      BY <1>0, <1>60, <1>80, <3>1 DEF TypeOK
  <2> QED
    BY <1>0, <1>2, <1>5, <1>6, <2>1, <2>2, <2>3, <2>4, <2>5 DEF TypeOK, States
<1>13. OwedOK'
  <2>1. ASSUME NEW k \in 1 .. Len(owed')
        PROVE  Wrapped(owed'[k].tag, Len(owed') + 1 - k, TAGS) = tag'
    <3>0. PICK n \in Nat, l \in Nat : n = Len(owed) /\ l = Len(owed') /\ k \in 1 .. l /\ l = n - 1
      BY <1>60
    <3>1. Len(owed') + 1 - k = Len(owed) + 1 - (k + 1)
      BY <3>0
    <3> QED
      BY <1>0, <1>5, <1>6, <3>1 DEF OwedOK
  <2>2. ASSUME NEW i \in 1 .. Len(send_buffer')
        PROVE  send_buffer'[i] = owed'[Ix' + i]
    <3>1. Ix' + i \in 1 .. Len(owed') /\ (Ix' + i) + 1 = Ix + i
      BY <1>2, <1>3, <1>5, <1>6, <1>7 DEF Ix
    <3>2. owed'[Ix' + i] = owed[Ix + i]
      BY <1>6, <3>1
    <3> QED
      BY <1>0, <1>5, <3>2 DEF OwedOK
  <2>3. ASSUME NEW k \in 1 .. Len(owed'), owed'[k].rw = "r", k > stale'
        PROVE  k = Len(owed') /\ waiting'
    <3>0. k + 1 \in 1 .. Len(owed) /\ owed[k + 1].rw = "r" /\ k + 1 > stale
      <4>1. k + 1 \in 1 .. Len(owed) /\ owed[k + 1].rw = "r"
        BY <1>6, <2>3
      <4>2. k \in Nat
        OBVIOUS
      <4>3. k + 1 > stale
        BY <1>80, <2>3, <4>2
      <4> QED
        BY <4>1, <4>3
    <3>1. k + 1 = Len(owed) /\ waiting
      BY <1>0, <3>0 DEF OwedOK
    <3> QED
      BY <1>5, <1>60, <3>1
  <2>4. waiting' => IF owed' = <<>> THEN performed' \in Request ELSE owed'[Len(owed')].rw = "r"
    <3>1. CASE owed' = <<>>
      BY <1>2, <1>4, <3>1
    <3>2. CASE owed' # <<>>
      <4>1. Len(owed') \in 1 .. Len(owed') /\ Len(owed') + 1 = Len(owed)
        BY <1>3, <1>6, <3>2
      <4>2. owed'[Len(owed')] = owed[Len(owed)]
        BY <1>6, <4>1
      <4> QED
        BY <1>0, <1>2, <1>5, <3>2, <4>2 DEF OwedOK
    <3> QED
      BY <3>1, <3>2
  <2> QED
    BY <2>1, <2>2, <2>3, <2>4 DEF OwedOK
<1>14. SenderOK'
  <2> SUFFICES ASSUME send_status # "IDLE" PROVE Ix' >= 1 /\ send_buf = owed'[Ix']
    BY <1>0, <1>5 DEF SenderOK, Parts
  <2>1. Ix' >= 1 /\ Ix' \in 1 .. Len(owed') /\ Ix' + 1 = Ix
    <3>1. Ix # 1
      BY <1>8
    <3> QED
      BY <1>2, <1>3, <1>60, <1>7, <3>1
  <2> QED
    BY <1>0, <1>6, <2>1 DEF SenderOK
<1>15. DownOK'
  <2>1. ~waiting' \/ owed' # <<>> => down' = <<>>
    BY <1>5, <1>6, <1>9, <1>11
  <2>2. Len(down') <= RespLast'
    BY <1>2, <1>11, ResponseIs DEF RespLast
  <2>3. \A i \in 1 .. Len(down') : RespByte(down[i], Gone + i)'
    <3>1. CASE owed[1].rw = "r"
      <4>1. Gone' = 0 /\ down' = Response(owed[1]) /\ Len(down') = RespLast /\ RespLast' = RespLast /\ RespLast \in Nat
        BY <1>11, <1>110, <3>1 DEF Gone
      <4>2. ASSUME NEW i \in 1 .. Len(down') PROVE RespByte(down[i], i)'
        BY <1>2, <1>4, <1>11, <4>1, ResponseIs DEF RespByte
      <4>3. \A i \in 1 .. Len(down') : (Gone + i)' = i
        BY <4>1
      <4> QED
        BY <4>2, <4>3
    <3>2. CASE owed[1].rw # "r"
      BY <1>11, <3>2
    <3> QED
      BY <3>1, <3>2
  <2> QED
    BY <1>5, <1>10, <2>1, <2>2, <2>3 DEF DownOK, Halfway
<1> QED
  BY <1>2, <1>4, <1>7, <1>8, <1>9, <1>10, <1>12, <1>13, <1>14, <1>15 DEF Common

LEMMA AcceptCommon ==
  ASSUME LinkInv, WINDOW <= IDS, onRecv, Accepts(Head(up))
  PROVE  /\ Common' /\ Len(owed) >= 1 /\ performed' = owed[1] /\ owed' = SubSeq(owed, 2, Len(owed)) /\ stale' = 0
         /\ Ix' = Ix - 1
         /\ Ix = 1 => send_status = "IDLE"
         /\ owed[1].rw = "r" => waiting /\ Len(owed) = 1
         /\ read_buffer = <<>>
<1>0. TypeOK /\ SenderOK /\ Common /\ stale = 0
  BY DEF LinkInv, Common, InStep
<1>1. PICK pk \in Seq(Nat), off \in Seq(Nat), ak \in Nat, ao \in Nat : UpOK(pk, off, ak, ao)
  BY DEF LinkInv, InStep
<1>2. /\ Len(owed) >= 1 /\ Ix >= 1 /\ owed[1] \in Request /\ Sent(1, Last(owed[1]))
      /\ a_data = Whole(owed[1], Parts(owed[1])) /\ Len(a_data) = Parts(owed[1])
      /\ a_recv_id' = (a_recv_id + 1) % IDS /\ a_state' = "IDLE" /\ a_data' = a_data
  BY <1>1, AcceptIs
<1>3. Ix = 1 => send_status = "IDLE"
  BY <1>0, <1>2, SentFirst
<1> QED
  BY <1>0, <1>2, <1>3, AcceptFirst

(* The packets behind the one accepted move up, and so does the id awaited.*)
LEMMA AcceptInv ==
  ASSUME LinkInv, WINDOW <= IDS, onRecv, Accepts(Head(up))
  PROVE  LinkInv'
<1> USE ConstantsAre
<1>0. TypeOK /\ OwedOK /\ SenderOK /\ DownOK /\ InStep
  BY DEF LinkInv, Common
<1>1. PICK pk \in Seq(Nat), off \in Seq(Nat), ak \in Nat, ao \in Nat : UpOK(pk, off, ak, ao)
  BY <1>0 DEF InStep
<1>2. /\ Common' /\ Len(owed) >= 1 /\ owed' = SubSeq(owed, 2, Len(owed)) /\ stale' = 0 /\ Ix' = Ix - 1
      /\ Ix = 1 => send_status = "IDLE"
  BY AcceptCommon
<1>3. /\ Ix >= 1 /\ owed[1] \in Request /\ pk[1] = 1 /\ off[1] = Last(owed[1])
      /\ a_recv_id' = (a_recv_id + 1) % IDS /\ a_state' = "IDLE"
  BY <1>1, AcceptIs
<1>4. /\ up # <<>> /\ up' = Tail(up)
      /\ UNCHANGED <<send_status, send_bit, send_buf, packet_id>>
  BY DEF onRecv, sendVars
<1>5. /\ Ix \in Nat /\ Ix <= Len(owed) /\ Ix <= IDS /\ Len(owed) \in Nat
      /\ owed \in Seq(Request) /\ up \in Seq(Bytes) /\ a_recv_id \in 0 .. IDS - 1
  <2>1. Ix <= WINDOW
    BY <1>0, IxIs
  <2>2. Ix \in Nat /\ Ix <= Len(owed) /\ Len(owed) \in Nat
    BY <1>0, IxIs
  <2>3. Ix <= IDS
    BY <2>1, <2>2
  <2> QED
    BY <1>0, <2>2, <2>3 DEF TypeOK
<1>6. /\ Len(owed') = Len(owed) - 1
      /\ \A k \in 1 .. Len(owed) - 1 : owed'[k] = owed[k + 1]
  BY <1>2, <1>5, BehindFirst
<1>7. /\ Len(up) \in Nat /\ Len(up) >= 1 /\ Len(up') = Len(up) - 1
      /\ \A i \in 1 .. Len(up') : i + 1 \in 2 .. Len(up) /\ i + 1 \in 1 .. Len(up) /\ up'[i] = up[i + 1]
  BY <1>4, <1>5
<1>8. /\ pk \in Seq(Nat) /\ off \in Seq(Nat) /\ Len(pk) = Len(up) /\ Len(off) = Len(up)
      /\ \A i \in 1 .. Len(up) :
          /\ pk[i] \in 1 .. Ix /\ off[i] \in 1 .. Last(owed[pk[i]])
          /\ up[i] = ByteOf(owed[pk[i]], IdOf(pk[i]), off[i])
          /\ Sent(pk[i], off[i])
      /\ \A i, j \in 1 .. Len(up) : i < j => Before(pk[i], off[i], pk[j], off[j])
  BY <1>1 DEF UpOK
<1>9. \A i \in 2 .. Len(up) : pk[i] \in 2 .. Ix
  <2> SUFFICES ASSUME NEW i \in 2 .. Len(up) PROVE pk[i] \in 2 .. Ix
    OBVIOUS
  <2>1. i \in 1 .. Len(up) /\ 1 \in 1 .. Len(up) /\ 1 < i
    BY <1>7
  <2>2. Before(1, Last(owed[1]), pk[i], off[i]) /\ off[i] \in 1 .. Last(owed[pk[i]])
    BY <1>3, <1>8, <2>1
  <2>3. Last(owed[1]) \in Nat
    BY <1>3, PartsIs
  <2>4. PICK k \in 1 .. Ix : k = pk[i]
    BY <1>8, <2>1
  <2>5. k # 1
    BY <2>2, <2>3, <2>4 DEF Before
  <2> QED
    BY <1>5, <2>4, <2>5
<1>10. PICK pk1 \in Seq(Nat), off1 \in Seq(Nat) :
         /\ Len(pk1) = Len(up') /\ Len(off1) = Len(up')
         /\ \A i \in 1 .. Len(up') : pk1[i] = pk[i + 1] - 1 /\ off1[i] = off[i + 1]
  <2> DEFINE n == Len(up) - 1
             p == [i \in 1 .. n |-> pk[i + 1] - 1]
             f == [i \in 1 .. n |-> off[i + 1]]
  <2>1. n \in Nat /\ n = Len(up')
    BY <1>7
  <2>2. ASSUME NEW i \in 1 .. n PROVE pk[i + 1] - 1 \in Nat /\ off[i + 1] \in Nat
    <3>1. i + 1 \in 2 .. Len(up) /\ i + 1 \in 1 .. Len(off)
      BY <1>7, <1>8, <2>1
    <3>2. off[i + 1] \in Nat
      BY <1>8, <3>1, ElementOfSeq
    <3>3. pk[i + 1] \in 2 .. Ix
      BY <1>9, <3>1
    <3> QED
      BY <1>5, <3>2, <3>3
  <2>3. p \in [1 .. n -> Nat] /\ f \in [1 .. n -> Nat]
    BY <2>2
  <2>4. p \in Seq(Nat) /\ f \in Seq(Nat) /\ Len(p) = n /\ Len(f) = n
    BY <2>1, <2>3, FunIsSeq
  <2>5. \A i \in 1 .. n : p[i] = pk[i + 1] - 1 /\ f[i] = off[i + 1]
    OBVIOUS
  <2> HIDE DEF n, p, f
  <2> QED
    BY <2>1, <2>4, <2>5
<1>11. SentOff' = SentOff
  BY <1>4 DEF SentOff, Parts
<1>12. ASSUME NEW k \in 2 .. Ix
       PROVE  /\ owed'[k - 1] = owed[k] /\ IdOf(k - 1)' = IdOf(k)
              /\ k - 1 \in 1 .. Ix' /\ \A o : Sent(k, o) => Sent(k - 1, o)'
  <2>1. k - 1 \in 1 .. Len(owed) - 1 /\ (k - 1) + 1 = k
    BY <1>5
  <2>2. owed'[k - 1] = owed[k]
    BY <1>6, <2>1
  <2>3. Wrapped((a_recv_id + 1) % IDS, k - 1, IDS) = Wrapped(a_recv_id, k, IDS)
    <3>1. PICK j \in 0 .. IDS : j = k - 1 /\ j + 1 = k /\ j + 1 <= IDS
      BY <1>5
    <3>2. Wrapped((a_recv_id + 1) % IDS, j, IDS) = Wrapped(a_recv_id, j + 1, IDS)
      BY <1>5, <3>1, WrappedIs
    <3> QED
      BY <3>1, <3>2
  <2>4. k - 1 \in 1 .. Ix'
    BY <1>2, <1>5
  <2>5. \A o : Sent(k, o) => Sent(k - 1, o)'
    BY <1>2, <1>4, <1>5, <1>11 DEF Sent
  <2> QED
    BY <1>3, <2>2, <2>3, <2>4, <2>5 DEF IdOf
<1>13. ASSUME NEW i \in 1 .. Len(up')
       PROVE  /\ pk1[i] \in 1 .. Ix' /\ off1[i] \in 1 .. Last(owed'[pk1[i]])
              /\ up'[i] = ByteOf(owed'[pk1[i]], IdOf(pk1[i])', off1[i])
              /\ Sent(pk1[i], off1[i])' /\ Before(0, 0, pk1[i], off1[i])
  <2>1. i + 1 \in 2 .. Len(up) /\ i + 1 \in 1 .. Len(up) /\ up'[i] = up[i + 1]
    BY <1>7
  <2>2. PICK k \in 2 .. Ix : k = pk[i + 1]
    BY <1>9, <2>1
  <2>3. PICK o \in Nat : o = off[i + 1] /\ off1[i] = o /\ pk1[i] = k - 1
    BY <1>8, <1>10, <2>1, <2>2, ElementOfSeq
  <2>4. /\ o \in 1 .. Last(owed[k]) /\ up[i + 1] = ByteOf(owed[k], IdOf(k), o) /\ Sent(k, o)
    BY <1>8, <2>1, <2>2, <2>3
  <2>5. /\ owed'[k - 1] = owed[k] /\ IdOf(k - 1)' = IdOf(k) /\ k - 1 \in 1 .. Ix' /\ Sent(k - 1, o)'
    BY <1>12, <2>4
  <2>6. 0 < k - 1
    OBVIOUS
  <2> QED
    BY <2>1, <2>3, <2>4, <2>5, <2>6 DEF Before
<1>14. ASSUME NEW i \in 1 .. Len(up'), NEW j \in 1 .. Len(up'), i < j
       PROVE  Before(pk1[i], off1[i], pk1[j], off1[j])
  <2>1. i + 1 \in 2 .. Len(up) /\ j + 1 \in 2 .. Len(up) /\ i + 1 \in 1 .. Len(up) /\ j + 1 \in 1 .. Len(up)
        /\ i + 1 < j + 1
    BY <1>7, <1>14
  <2>2. Before(pk[i + 1], off[i + 1], pk[j + 1], off[j + 1])
    BY <1>8, <2>1
  <2>3. PICK k \in 2 .. Ix, l \in 2 .. Ix : k = pk[i + 1] /\ l = pk[j + 1]
    BY <1>9, <2>1
  <2>4. pk1[i] = k - 1 /\ pk1[j] = l - 1 /\ off1[i] = off[i + 1] /\ off1[j] = off[j + 1]
    BY <1>10, <2>3
  <2>5. Before(k, off[i + 1], l, off[j + 1])
    BY <2>2, <2>3
  <2> QED
    BY <2>4, <2>5 DEF Before
<1>15. Sent(0, 0)' /\ 0 \in 0 .. Ix'
  <2>1. 0 < Ix' \/ send_status' = "IDLE"
    BY <1>2, <1>3, <1>4, <1>5
  <2> QED
    BY <1>2, <1>3, <1>5, <2>1 DEF Sent
<1>16. UpOK(pk1, off1, 0, 0)'
  BY <1>3, <1>10, <1>13, <1>14, <1>15 DEF UpOK
<1>17. packet_id' = IdOf(Ix)'
  <2>1. packet_id' = Wrapped(a_recv_id, Ix, IDS)
    BY <1>0, <1>4 DEF InStep, IdOf
  <2>2. PICK j \in 0 .. IDS : j = Ix - 1 /\ j + 1 = Ix /\ j + 1 <= IDS
    BY <1>3, <1>5
  <2>3. Wrapped((a_recv_id + 1) % IDS, j, IDS) = Wrapped(a_recv_id, j + 1, IDS)
    BY <1>5, <2>2, WrappedIs
  <2> QED
    BY <1>2, <1>3, <2>1, <2>2, <2>3 DEF IdOf
<1>18. InStep'
  BY <1>2, <1>10, <1>16, <1>17 DEF InStep
<1> QED
  BY <1>2, <1>18 DEF LinkInv

-----------------------------------------------------------------------------
(* From a reset to the answer to the first fetch.                          *)

LEMMA PhaseIs ==
  ASSUME Common, Probing
  PROVE  /\ Ix \in Nat /\ stale \in Nat /\ Len(owed) \in Nat /\ stale <= Ix /\ Ix <= Len(owed) /\ Len(owed) <= stale + 1
         /\ owed \in Seq(Request) /\ \A k \in 1 .. Len(owed) : owed[k] \in Request
         /\ up \in Seq(Bytes) /\ Len(up) \in Nat
         /\ down = <<>> /\ read_buffer = <<>> /\ recv_status = "IDLE" /\ ~(waiting /\ owed = <<>>)
<1>1. /\ Ix \in Nat /\ Ix <= Len(owed) /\ Len(owed) \in Nat /\ stale \in Nat /\ owed \in Seq(Request)
      /\ up \in Seq(Bytes)
  BY IxIs DEF Common, TypeOK
<1>2. Len(owed) = stale \/ Len(owed) = stale + 1
  BY DEF Probing, Phase
<1>3. waiting => owed # <<>>
  <2> SUFFICES ASSUME waiting, owed = <<>> PROVE FALSE
    OBVIOUS
  <2>1. Len(owed) = stale + 1
    BY DEF Probing, Phase
  <2> QED
    BY <1>1, <2>1
<1>4. down = <<>> /\ read_buffer = <<>> /\ recv_status = "IDLE"
  BY <1>3 DEF Common, DownOK
<1>5. \A k \in 1 .. Len(owed) : owed[k] \in Request
  BY <1>1, ElementOfSeq
<1>6. Len(up) \in Nat
  BY <1>1
<1>7. Ix >= stale
  BY DEF Probing
<1> QED
  BY <1>1, <1>2, <1>3, <1>4, <1>5, <1>6, <1>7

(* What is on the line from before the reset stays as it is.               *)
LEMMA OldKept ==
  ASSUME NEW pk, NEW off, NEW ak, NEW ao, NEW s \in Nat, OldIs(pk, off, ak, ao, s),
         Len(up) \in Nat, Len(up') \in Nat, Len(up) <= Len(up'), Len(pk) \in Nat,
         \A i \in 1 .. Len(pk) : up'[i] = up[i], \A k \in 1 .. s : owed'[k] = owed[k],
         UNCHANGED <<a_state, a_data, a_length, a_recv_id>>
  PROVE  OldIs(pk, off, ak, ao, s)'
<1>1. \A k : IdOf(k)' = IdOf(k)
  BY DEF IdOf
<1>2. ASSUME NEW i \in 1 .. Len(pk), up'[i] # Stump
      PROVE  /\ pk[i] \in 1 .. s /\ off[i] \in 1 .. Last(owed'[pk[i]]) /\ owed'[pk[i]].rw = "w"
             /\ up'[i] = ByteOf(owed'[pk[i]], IdOf(pk[i])', off[i])
             /\ Before(ak, ao, pk[i], off[i])
  <2>1. /\ pk[i] \in 1 .. s /\ off[i] \in 1 .. Last(owed[pk[i]]) /\ owed[pk[i]].rw = "w"
        /\ up[i] = ByteOf(owed[pk[i]], IdOf(pk[i]), off[i])
        /\ Before(ak, ao, pk[i], off[i])
    BY <1>2 DEF OldIs
  <2>2. owed'[pk[i]] = owed[pk[i]]
    BY <2>1
  <2> QED
    BY <1>1, <2>1, <2>2
<1>3. \A i, j \in 1 .. Len(pk) :
          i < j /\ up'[i] # Stump /\ up'[j] # Stump => Before(pk[i], off[i], pk[j], off[j])
  BY DEF OldIs
<1>4. Len(pk) <= Len(up') /\ Len(off) = Len(pk) /\ ak \in 0 .. s
  BY DEF OldIs
<1>5. /\ ak = 0 => a_state' = "IDLE"
      /\ ak = 1 => Halfway(a_state', a_data', a_length', owed'[1], Parts(owed'[1]), ao)
  <2>1. ak = 1 => 1 \in 1 .. s
    BY <1>4
  <2>2. ak = 1 => owed'[1] = owed[1]
    BY <2>1
  <2> QED
    BY <2>2 DEF OldIs
<1> QED
  BY <1>2, <1>3, <1>4, <1>5 DEF OldIs

LEMMA ProbePut ==
  ASSUME Common, Probing, NEW rw \in {"r", "w"}, Put(rw)
  PROVE  Probing'
<1>1. Common' /\ Ix' = Ix /\ \A k \in 1 .. Len(owed) : owed'[k] = owed[k]
  BY PutCommon
<1>2. /\ Ix \in Nat /\ stale \in Nat /\ Len(owed) \in Nat /\ stale <= Ix /\ Ix <= Len(owed)
      /\ owed \in Seq(Request) /\ up \in Seq(Bytes) /\ Len(up) \in Nat
  BY PhaseIs
<1>3. /\ ~waiting /\ (fresh => rw = "r") /\ (waiting' <=> rw = "r") /\ waiting' \in BOOLEAN /\ fresh' = FALSE
      /\ owed' = Append(owed, [rw |-> rw, tag |-> tag])
      /\ UNCHANGED <<sendVars, up, adapterVars, stale, losses>>
  BY <1>1 DEF Put, faultVars, Common, TypeOK
<1>30. UNCHANGED <<send_status, send_bit, send_buf, packet_id, a_state, a_data, a_length, a_recv_id>>
  BY <1>3 DEF sendVars, adapterVars
<1>4. Len(owed) = stale /\ fresh = TRUE
  BY <1>3, Zenon DEF Probing, Phase
<1>5. waiting' = TRUE
  BY <1>3, <1>4, Zenon
<1>6. Len(owed') = Len(owed) + 1 /\ Ix = stale
  BY <1>2, <1>3, <1>4
<1>7. Phase'
  <2>1. Len(owed') = stale' + 1
    BY <1>3, <1>4, <1>6
  <2> QED
    BY <1>3, <1>5, <2>1, Zenon DEF Phase
<1>8. PICK pk \in Seq(Nat), off \in Seq(Nat), l \in Nat, s \in Nat :
         /\ s = stale /\ NewIs(Len(pk), l)
         /\ \/ l <= losses /\ \E ak, ao \in Nat : OldIs(pk, off, ak, ao, s)
            \/ Len(pk) = 0 /\ Met(l)
  BY DEF Probing, Line
<1>9. ~Met(l)
  BY <1>2, <1>4 DEF Met
<1>10. PICK ak \in Nat, ao \in Nat : OldIs(pk, off, ak, ao, s)
  BY <1>8, <1>9
<1>11. l = 0 /\ Len(pk) = Len(up)
  <2>1. Len(pk) + 0 = Len(up) + l /\ Len(pk) \in Nat /\ Len(pk) <= Len(up)
    BY <1>6, <1>8, <1>10 DEF NewIs, Fetched, OldIs
  <2> QED
    BY <1>2, <2>1
<1>12. NewIs(Len(pk), l)'
  <2>1. Fetched' = 0
    BY <1>1, <1>3, <1>6 DEF Fetched
  <2>2. 1 .. Len(up') - Len(pk) = {} /\ Len(pk) + 0 = Len(up') + l
    BY <1>2, <1>3, <1>11
  <2> QED
    BY <2>1, <2>2 DEF NewIs
<1>13. OldIs(pk, off, ak, ao, s)'
  <2>1. \A k \in 1 .. s : owed'[k] = owed[k]
    BY <1>1, <1>4, <1>8
  <2> QED
    <3>1. /\ Len(up') \in Nat /\ Len(up) <= Len(up') /\ Len(pk) \in Nat
          /\ \A i \in 1 .. Len(pk) : up'[i] = up[i]
      BY <1>2, <1>3, <1>11
    <3> QED
      BY <1>2, <1>30, <1>10, <2>1, <3>1, OldKept
<1>14. s = stale' /\ l <= losses'
  BY <1>3, <1>8, <1>9
<1>15. Line'
  BY <1>12, <1>13, <1>14 DEF Line
<1>16. Ix' >= stale' /\ packet_id' = Ix' - stale' /\ (send_status' # "IDLE" => Ix' = stale' + 1)
  BY <1>1, <1>3, <1>30 DEF Probing
<1> QED
  BY <1>7, <1>15, <1>16 DEF Probing

(* The next byte of the fetch is sent.                                     *)
LEMMA ProbeEmit ==
  ASSUME Common, Probing, NEW o \in Nat, o = Fetched + 1, Fetched \in Nat, Fetched' = o,
         up' = Append(up, ByteOf(owed[stale + 1], 1, o)),
         Len(owed) = stale + 1, Ix' = stale + 1, packet_id' = 1, adapterVars' = adapterVars,
         UNCHANGED <<waiting, fresh, owed, stale, losses>>
  PROVE  Probing'
<1>1. /\ stale \in Nat /\ up \in Seq(Bytes) /\ Len(up) \in Nat
      /\ UNCHANGED <<a_state, a_data, a_length, a_recv_id>>
  BY PhaseIs DEF adapterVars
<1>2. PICK pk \in Seq(Nat), off \in Seq(Nat), l \in Nat, s \in Nat :
         /\ s = stale /\ NewIs(Len(pk), l)
         /\ \/ l <= losses /\ \E ak, ao \in Nat : OldIs(pk, off, ak, ao, s)
            \/ Len(pk) = 0 /\ Met(l)
  BY DEF Probing, Line
<1>3. PICK n \in Nat : n = Len(pk) /\ n <= Len(up)
  <2>1. Len(pk) \in Nat /\ Len(pk) <= Len(up)
    BY <1>1, <1>2 DEF OldIs
  <2> QED
    BY <2>1
<1>4. /\ n + Fetched = Len(up) + l
      /\ \A i \in 1 .. Len(up) - n : up[n + i] = ByteOf(owed[stale + 1], 1, l + i)
  BY <1>2, <1>3 DEF NewIs
<1>5. /\ Len(up') = Len(up) + 1 /\ \A i \in 1 .. Len(up) : up'[i] = up[i]
      /\ up'[Len(up) + 1] = ByteOf(owed[stale + 1], 1, o)
  BY <1>1
<1>6. ASSUME NEW i \in 1 .. Len(up') - n
      PROVE  up'[n + i] = ByteOf(owed[stale + 1], 1, l + i)
  <2>1. CASE i \in 1 .. Len(up) - n
    <3>1. n + i \in 1 .. Len(up)
      BY <1>1, <1>3, <2>1
    <3> QED
      BY <1>4, <1>5, <2>1, <3>1
  <2>2. CASE i = Len(up) + 1 - n
    <3>1. n + i = Len(up) + 1 /\ l + i = o
      BY <1>1, <1>4, <2>2
    <3> QED
      BY <1>5, <3>1
  <2> QED
    BY <1>1, <1>3, <1>5, <2>1, <2>2
<1>7. NewIs(Len(pk), l)'
  <2>1. n + o = Len(up') + l
    <3>1. PICK f \in Nat : f = Fetched /\ o = f + 1
      OBVIOUS
    <3>2. PICK x \in Nat : x = Len(up) /\ Len(up') = x + 1 /\ n + f = x + l
      BY <1>1, <1>4, <1>5, <3>1
    <3>3. n + o = (x + 1) + l
      BY <3>1, <3>2
    <3> QED
      BY <3>2, <3>3
  <2> QED
    BY <1>3, <1>6, <2>1 DEF NewIs
<1>8. ASSUME NEW ak, NEW ao, OldIs(pk, off, ak, ao, s) PROVE OldIs(pk, off, ak, ao, s)'
  <2>1. Len(up') \in Nat /\ Len(up) <= Len(up') /\ Len(pk) \in Nat /\ \A i \in 1 .. Len(pk) : up'[i] = up[i]
    BY <1>1, <1>3, <1>5
  <2> QED
    BY <1>1, <1>8, <2>1, OldKept
<1>9. Met(l) => Met(l)'
  BY <1>1 DEF Met, Parts
<1>10. Line'
  <2>1. s = stale' /\ (l <= losses => l <= losses')
    BY <1>2
  <2>2. \/ l <= losses' /\ \E ak, ao \in Nat : OldIs(pk, off, ak, ao, s)'
        \/ Len(pk) = 0 /\ Met(l)'
    BY <1>2, <1>8, <1>9, <2>1
  <2> QED
    BY <1>7, <2>1, <2>2 DEF Line
<1>11. Ix' >= stale' /\ packet_id' = Ix' - stale' /\ Ix' = stale' + 1
  BY <1>1
<1>12. Phase'
  BY DEF Probing, Phase
<1> QED
  BY <1>10, <1>11, <1>12 DEF Probing

LEMMA ProbeSend ==
  ASSUME Common, Probing, Send
  PROVE  Common' /\ Probing'
<1>0. /\ Ix \in Nat /\ stale \in Nat /\ Len(owed) \in Nat /\ stale <= Ix /\ Ix <= Len(owed) /\ Len(owed) <= stale + 1
      /\ packet_id = Ix - stale
  BY PhaseIs DEF Probing
<1>1. /\ UNCHANGED <<adapterVars, down, recvVars, read_buffer, clientVars, performed, faultVars>>
      /\ UNCHANGED <<waiting, fresh, owed, stale, losses>> /\ adapterVars' = adapterVars
  BY DEF Send, clientVars, faultVars
<1>2. CASE SendHead
  <2>1. /\ Common' /\ Ix' = Ix + 1 /\ Ix + 1 \in 1 .. Len(owed)
        /\ send_status = "IDLE" /\ send_status' = "CHANNEL" /\ packet_id' = (packet_id + 1) % IDS
        /\ up' = Append(up, ByteOf(owed[Ix + 1], packet_id', 1))
    BY <1>1, <1>2, SendHeadIs
  <2>2. Ix = stale /\ Len(owed) = stale + 1 /\ packet_id = 0
    BY <1>0, <2>1
  <2>3. packet_id' = 1
    <3>1. (0 + 1) % IDS = 1
      BY ConstantsAre
    <3> QED
      BY <2>1, <2>2, <3>1
  <2>4. Fetched = 0
    BY <2>2 DEF Fetched
  <2>5. Fetched' = 1
    <3>1. Ix' # stale' /\ send_status' = "CHANNEL"
      BY <1>0, <1>1, <2>1, <2>2
    <3> QED
      BY <3>1 DEF Fetched, SentOff
  <2>6. up' = Append(up, ByteOf(owed[stale + 1], 1, 1)) /\ Ix' = stale + 1
    BY <2>1, <2>2, <2>3
  <2> QED
    BY <1>1, <2>1, <2>2, <2>3, <2>4, <2>5, <2>6, ProbeEmit
<1>3. CASE SendChannel \/ SendLength \/ SendData \/ SendEnd
  <2>1. Common' /\ Ix' = Ix /\ send_status # "IDLE" /\ packet_id' = packet_id
    BY <1>1, <1>3, SendMoreIs
  <2>2. PICK o \in Nat : /\ o = SentOff + 1 /\ SentOff \in Nat /\ o \in 1 .. Last(owed[Ix])
                         /\ up' = Append(up, ByteOf(owed[Ix], packet_id, o))
                         /\ send_status' = "IDLE" => o = Last(owed[Ix])
                         /\ send_status' = "IDLE" \/ SentOff' = o
    BY <1>1, <1>3, SendMoreIs
  <2>3. Ix = stale + 1 /\ Len(owed) = stale + 1 /\ packet_id = 1
    BY <1>0, <2>1 DEF Probing
  <2>4. Fetched = SentOff
    BY <1>0, <2>1, <2>3 DEF Fetched
  <2>5. Fetched' = o
    <3>1. Ix' # stale' /\ owed'[stale' + 1] = owed[Ix]
      BY <1>0, <1>1, <2>1, <2>3
    <3>2. Last(owed'[stale' + 1]) = Last(owed[Ix])
      BY <3>1
    <3> QED
      BY <2>2, <3>1, <3>2 DEF Fetched
  <2>6. up' = Append(up, ByteOf(owed[stale + 1], 1, o)) /\ Ix' = stale + 1 /\ packet_id' = 1
    BY <2>1, <2>2, <2>3
  <2> QED
    BY <1>1, <2>1, <2>2, <2>3, <2>4, <2>5, <2>6, ProbeEmit
<1> QED
  BY <1>2, <1>3 DEF Send

(* The first byte of up is gone, one from before the reset.                *)
LEMMA OldTail ==
  ASSUME NEW pk \in Seq(Nat), NEW off \in Seq(Nat), NEW ak, NEW ao, NEW s \in Nat, OldIs(pk, off, ak, ao, s),
         Len(pk) >= 1, up \in Seq(Bytes), up # <<>>, up' = Tail(up), UNCHANGED <<owed, a_recv_id>>,
         NEW al \in 0 .. s, NEW ap,
         \A i \in 2 .. Len(pk) : up[i] # Stump => Before(al, ap, pk[i], off[i]),
         al = 0 => a_state' = "IDLE",
         al = 1 => Halfway(a_state', a_data', a_length', owed[1], Parts(owed[1]), ap)
  PROVE  /\ OldIs(Tail(pk), Tail(off), al, ap, s)' /\ Len(Tail(pk)) = Len(pk) - 1
         /\ Tail(pk) \in Seq(Nat) /\ Tail(off) \in Seq(Nat)
<1>1. \A k : IdOf(k)' = IdOf(k)
  BY DEF IdOf
<1>2. Len(pk) \in Nat /\ Len(pk) <= Len(up) /\ Len(off) = Len(pk)
  BY DEF OldIs
<1>3. /\ Len(up) \in Nat /\ Len(up') = Len(up) - 1
      /\ \A i \in 1 .. Len(up) - 1 : up'[i] = up[i + 1]
  BY <1>2
<1>4. /\ Tail(pk) \in Seq(Nat) /\ Len(Tail(pk)) = Len(pk) - 1
      /\ \A i \in 1 .. Len(pk) - 1 : Tail(pk)[i] = pk[i + 1]
  BY <1>2
<1>5. /\ Tail(off) \in Seq(Nat) /\ Len(Tail(off)) = Len(pk) - 1
      /\ \A i \in 1 .. Len(pk) - 1 : Tail(off)[i] = off[i + 1]
  BY <1>2
<1> DEFINE tp == Tail(pk)
           tf == Tail(off)
<1> HIDE DEF tp, tf
<1>6. /\ tp \in Seq(Nat) /\ tf \in Seq(Nat) /\ Len(tp) = Len(pk) - 1 /\ Len(tf) = Len(tp) /\ Len(tp) <= Len(up')
      /\ \A i \in 1 .. Len(tp) : /\ tp[i] = pk[i + 1] /\ tf[i] = off[i + 1] /\ up'[i] = up[i + 1]
                                 /\ i + 1 \in 1 .. Len(pk) /\ i + 1 \in 2 .. Len(pk)
  BY <1>2, <1>3, <1>4, <1>5 DEF tp, tf
<1>7. ASSUME NEW i \in 1 .. Len(tp), up'[i] # Stump
      PROVE  /\ tp[i] \in 1 .. s /\ tf[i] \in 1 .. Last(owed'[tp[i]]) /\ owed'[tp[i]].rw = "w"
             /\ up'[i] = ByteOf(owed'[tp[i]], IdOf(tp[i])', tf[i])
             /\ Before(al, ap, tp[i], tf[i])
  <2>1. /\ i + 1 \in 1 .. Len(pk) /\ up'[i] = up[i + 1] /\ tp[i] = pk[i + 1] /\ tf[i] = off[i + 1]
        /\ up[i + 1] # Stump /\ Before(al, ap, pk[i + 1], off[i + 1])
    BY <1>6, <1>7
  <2>2. /\ pk[i + 1] \in 1 .. s /\ off[i + 1] \in 1 .. Last(owed[pk[i + 1]]) /\ owed[pk[i + 1]].rw = "w"
        /\ up[i + 1] = ByteOf(owed[pk[i + 1]], IdOf(pk[i + 1]), off[i + 1])
    BY <2>1 DEF OldIs
  <2> QED
    BY <1>1, <2>1, <2>2
<1>8. ASSUME NEW i \in 1 .. Len(tp), NEW j \in 1 .. Len(tp), i < j, up'[i] # Stump, up'[j] # Stump
      PROVE  Before(tp[i], tf[i], tp[j], tf[j])
  <2>1. /\ i + 1 \in 1 .. Len(pk) /\ j + 1 \in 1 .. Len(pk) /\ i + 1 < j + 1
        /\ up[i + 1] # Stump /\ up[j + 1] # Stump
    <3>1. i + 1 \in 1 .. Len(pk) /\ j + 1 \in 1 .. Len(pk) /\ up'[i] = up[i + 1] /\ up'[j] = up[j + 1]
      BY <1>6
    <3>2. i + 1 < j + 1
      BY <1>6, <1>8
    <3> QED
      BY <1>8, <3>1, <3>2
  <2>2. Before(pk[i + 1], off[i + 1], pk[j + 1], off[j + 1])
    BY <2>1 DEF OldIs
  <2> QED
    BY <1>6, <2>2
<1>9. OldIs(tp, tf, al, ap, s)'
  BY <1>6, <1>7, <1>8 DEF OldIs
<1> QED
  BY <1>6, <1>9 DEF tp, tf

LEMMA NewTail ==
  ASSUME NEW n \in Nat, NEW l \in Nat, NewIs(n, l), up \in Seq(Bytes), up # <<>>, up' = Tail(up), n <= Len(up),
         Fetched \in Nat, Fetched' = Fetched, Len(up) > n => owed'[stale' + 1] = owed[stale + 1]
  PROVE  /\ n >= 1 => NewIs(n - 1, l)'
         /\ n = 0 => NewIs(0, l + 1)' /\ l + 1 <= Fetched /\ up[1] = ByteOf(owed[stale + 1], 1, l + 1)
<1>1. /\ Len(up) \in Nat /\ Len(up) >= 1 /\ Len(up') = Len(up) - 1
      /\ \A i \in 1 .. Len(up) - 1 : up'[i] = up[i + 1]
  OBVIOUS
<1>2. /\ n + Fetched = Len(up) + l
      /\ \A i \in 1 .. Len(up) - n : up[n + i] = ByteOf(owed[stale + 1], 1, l + i)
  BY DEF NewIs
<1>3. ASSUME n >= 1 PROVE NewIs(n - 1, l)'
  <2>1. ASSUME NEW i \in 1 .. Len(up') - (n - 1)
        PROVE  up'[(n - 1) + i] = ByteOf(owed'[stale' + 1], 1, l + i)
    <3>1. i \in 1 .. Len(up) - n /\ (n - 1) + i \in 1 .. Len(up) - 1 /\ ((n - 1) + i) + 1 = n + i /\ Len(up) > n
      BY <1>1, <1>3
    <3>2. up'[(n - 1) + i] = up[n + i]
      BY <1>1, <3>1
    <3>3. owed'[stale' + 1] = owed[stale + 1]
      BY <3>1
    <3> QED
      BY <1>2, <3>1, <3>2, <3>3
  <2>2. (n - 1) + Fetched' = Len(up') + l
    BY <1>1, <1>2
  <2> QED
    BY <2>1, <2>2 DEF NewIs
<1>4. ASSUME n = 0 PROVE NewIs(0, l + 1)' /\ l + 1 <= Fetched /\ up[1] = ByteOf(owed[stale + 1], 1, l + 1)
  <2>1. ASSUME NEW i \in 1 .. Len(up') - 0
        PROVE  up'[0 + i] = ByteOf(owed'[stale' + 1], 1, (l + 1) + i)
    <3>1. i + 1 \in 1 .. Len(up) - n /\ i \in 1 .. Len(up) - 1 /\ l + (i + 1) = (l + 1) + i /\ n + (i + 1) = i + 1 /\ 0 + i = i
      BY <1>1, <1>4
    <3>2. up[n + (i + 1)] = ByteOf(owed[stale + 1], 1, l + (i + 1))
      BY <1>2, <3>1
    <3>3. owed'[stale' + 1] = owed[stale + 1]
      BY <1>1, <1>4
    <3> QED
      BY <1>1, <3>1, <3>2, <3>3
  <2>2. 0 + Fetched' = Len(up') + (l + 1) /\ l + 1 <= Fetched
    BY <1>1, <1>2, <1>4
  <2>3. up[1] = ByteOf(owed[stale + 1], 1, l + 1)
    <3>1. 1 \in 1 .. Len(up) - n /\ n + 1 = 1
      BY <1>1, <1>4
    <3> QED
      BY <1>2, <3>1
  <2> QED
    BY <2>1, <2>2, <2>3 DEF NewIs
<1> QED
  BY <1>3, <1>4

LEMMA LineOld ==
  ASSUME NEW pk \in Seq(Nat), NEW off \in Seq(Nat), NEW l \in Nat, NEW s \in Nat, NEW ak \in Nat, NEW ao \in Nat,
         s = stale', NewIs(Len(pk), l)', l <= losses', OldIs(pk, off, ak, ao, s)'
  PROVE  Line'
BY DEF Line

LEMMA LineMet ==
  ASSUME NEW pk \in Seq(Nat), Len(pk) = 0, NEW l \in Nat, NEW s \in Nat,
         s = stale', NewIs(Len(pk), l)', Met(l)'
  PROVE  Line'
BY DEF Line

LEMMA FetchedIs ==
  ASSUME Common, Probing
  PROVE  /\ Fetched \in Nat
         /\ Fetched >= 1 => /\ Ix = stale + 1 /\ Len(owed) = stale + 1 /\ owed[stale + 1] \in Request
                            /\ Fetched <= Last(owed[stale + 1])
                            /\ Fetched = Last(owed[stale + 1]) => send_status = "IDLE"
<1>1. /\ Ix \in Nat /\ stale \in Nat /\ Len(owed) \in Nat /\ stale <= Ix /\ Ix <= Len(owed) /\ Len(owed) <= stale + 1
      /\ \A k \in 1 .. Len(owed) : owed[k] \in Request
  BY PhaseIs
<1>2. CASE Ix = stale
  BY <1>2 DEF Fetched
<1>3. CASE Ix # stale
  <2>1. Ix = stale + 1 /\ Len(owed) = stale + 1
    BY <1>1, <1>3
  <2>2. owed[stale + 1] \in Request
    BY <1>1, <2>1
  <2>3. /\ Parts(owed[stale + 1]) \in Nat \ {0} /\ Last(owed[stale + 1]) = Parts(owed[stale + 1]) + 4
    BY <2>2, PartsIs
  <2>4. CASE send_status = "IDLE"
    BY <1>3, <2>1, <2>2, <2>3, <2>4 DEF Fetched
  <2>5. CASE send_status # "IDLE"
    <3>1. send_buf = owed[stale + 1]
      BY <2>1, <2>5 DEF Common, SenderOK
    <3>2. send_status = "DATA" => send_bit \in 0 .. Parts(owed[stale + 1]) - 1
      BY <2>5, <3>1 DEF Common, SenderOK
    <3>3. send_status \in {"CHANNEL", "LENGTH", "DATA", "END"}
      BY <2>5 DEF Common, TypeOK, States
    <3>4. SentOff \in Nat /\ SentOff < Last(owed[stale + 1])
      BY <2>3, <3>1, <3>2, <3>3 DEF SentOff
    <3>5. Fetched = SentOff
      BY <1>3, <2>5 DEF Fetched
    <3> QED
      BY <2>1, <2>2, <2>3, <3>4, <3>5
  <2> QED
    BY <2>4, <2>5
<1> QED
  BY <1>2, <1>3

LEMMA ProbeLose ==
  ASSUME Common, Probing, Lose
  PROVE  Common' /\ Probing'
<1>0. Common' /\ Ix' = Ix
  BY LoseCommon
<1>1. down = <<>> /\ up \in Seq(Bytes) /\ stale \in Nat /\ Len(up) \in Nat
  BY PhaseIs
<1>2. /\ UNCHANGED <<send_buffer, sendVars, adapterVars, clientVars>> /\ up # <<>> /\ up' = Tail(up)
      /\ losses' = losses + 1 /\ losses \in Nat
  BY <1>1 DEF Lose, Common, TypeOK
<1>3. UNCHANGED <<send_status, send_bit, send_buf, packet_id, owed, stale, waiting, fresh,
                  a_state, a_data, a_length, a_recv_id>>
  BY <1>2 DEF sendVars, clientVars, adapterVars
<1>4. Fetched' = Fetched
  BY <1>0, <1>3 DEF Fetched, Last, Parts, SentOff
<1>5. PICK pk \in Seq(Nat), off \in Seq(Nat), l \in Nat, s \in Nat :
         /\ s = stale /\ NewIs(Len(pk), l)
         /\ \/ l <= losses /\ \E ak, ao \in Nat : OldIs(pk, off, ak, ao, s)
            \/ Len(pk) = 0 /\ Met(l)
  BY DEF Probing, Line
<1>6. PICK n \in Nat : n = Len(pk) /\ n <= Len(up)
  <2>1. Len(pk) \in Nat /\ Len(pk) <= Len(up)
    BY <1>1, <1>5 DEF OldIs
  <2> QED
    BY <2>1
<1>7. Fetched \in Nat
  BY FetchedIs
<1>8. /\ n >= 1 => NewIs(n - 1, l)'
      /\ n = 0 => NewIs(0, l + 1)'
  BY <1>1, <1>2, <1>3, <1>4, <1>5, <1>6, <1>7, NewTail
<1>9. ASSUME n >= 1 PROVE Line'
  <2>1. PICK ak \in Nat, ao \in Nat : OldIs(pk, off, ak, ao, s)
    BY <1>5, <1>6, <1>9
  <2>2. /\ ak \in 0 .. s /\ \A i \in 2 .. Len(pk) : up[i] # Stump => Before(ak, ao, pk[i], off[i])
        /\ ak = 0 => a_state' = "IDLE"
        /\ ak = 1 => Halfway(a_state', a_data', a_length', owed[1], Parts(owed[1]), ao)
    BY <1>3, <2>1 DEF OldIs
  <2>3. /\ OldIs(Tail(pk), Tail(off), ak, ao, s)' /\ Len(Tail(pk)) = Len(pk) - 1
        /\ Tail(pk) \in Seq(Nat) /\ Tail(off) \in Seq(Nat)
    BY <1>1, <1>2, <1>3, <1>6, <1>9, <2>1, <2>2, OldTail
  <2>4. l <= losses' /\ s = stale'
    <3>1. l <= losses
      BY <1>5, <1>6, <1>9
    <3> QED
      BY <1>2, <1>3, <1>5, <3>1
  <2>5. NewIs(Len(Tail(pk)), l)'
    BY <1>6, <1>8, <1>9, <2>3
  <2> QED
    BY <2>3, <2>4, <2>5, LineOld
<1>10. ASSUME n = 0 PROVE Line'
  <2>1. ASSUME NEW ak, NEW ao, OldIs(pk, off, ak, ao, s) PROVE OldIs(pk, off, ak, ao, s)'
    <3>1. \A k : IdOf(k)' = IdOf(k)
      BY <1>3 DEF IdOf
    <3>2. 1 .. Len(pk) = {} /\ Len(pk) <= Len(up')
      BY <1>1, <1>2, <1>6, <1>10
    <3> QED
      BY <1>3, <2>1, <3>2 DEF OldIs
  <2>2. Met(l) => Met(l + 1)'
    <3>1. a_data \in Seq(DataBytes)
      BY DEF Common, TypeOK
    <3>2. Met(l) => Halfway(a_state, a_data, a_length, owed[stale + 1], Parts(owed[stale + 1]), l + 1)
      BY <3>1, HalfwayKeep DEF Met
    <3> QED
      BY <1>3, <3>2 DEF Met
  <2>3. l + 1 \in Nat /\ NewIs(Len(pk), l + 1)' /\ s = stale' /\ Len(pk) = 0
    BY <1>3, <1>5, <1>6, <1>8, <1>10
  <2>4. CASE l <= losses /\ \E ak, ao \in Nat : OldIs(pk, off, ak, ao, s)
    <3>1. PICK ak \in Nat, ao \in Nat : OldIs(pk, off, ak, ao, s)'
      BY <2>1, <2>4
    <3>2. l + 1 <= losses'
      BY <1>2, <2>4
    <3> QED
      BY <2>3, <3>1, <3>2, LineOld
  <2>5. CASE Met(l)
    BY <2>2, <2>3, <2>5, LineMet
  <2> QED
    BY <1>5, <2>4, <2>5
<1>11. Line'
  <2>1. n >= 1 \/ n = 0
    OBVIOUS
  <2> QED
    BY <1>9, <1>10, <2>1, Zenon
<1> QED
  BY <1>0, <1>3, <1>11 DEF Probing, Phase

LEMMA ProbePass ==
  ASSUME Common, Probing, losses <= 2, onRecv, ~Accepts(Head(up))
  PROVE  Common' /\ Probing'
<1>0. /\ Common' /\ Ix' = Ix /\ up # <<>> /\ up' = Tail(up) /\ up[1] \in Bytes
      /\ up \in Seq(Bytes) /\ Len(up) \in Nat /\ Len(up) >= 1
      /\ a_state' = After(a_state, up[1], a_data, a_length)
      /\ a_data' = Collected(a_state, up[1], a_data)
      /\ a_length' = LengthIn(a_state, up[1], a_length)
      /\ UNCHANGED <<a_recv_id, owed, stale, waiting, fresh, losses, send_buffer,
                     send_status, send_bit, send_buf, packet_id>>
  BY PassCommon
<1>1. /\ TypeOK /\ stale \in Nat /\ losses \in Nat /\ Len(owed) \in Nat /\ stale <= Len(owed)
      /\ \A k \in 1 .. Len(owed) : owed[k] \in Request
  <2>1. losses \in Nat /\ TypeOK
    BY DEF Common, TypeOK
  <2>2. stale \in Nat /\ Len(owed) \in Nat /\ Ix \in Nat /\ stale <= Ix /\ Ix <= Len(owed)
        /\ \A k \in 1 .. Len(owed) : owed[k] \in Request
    BY PhaseIs
  <2> QED
    BY <2>1, <2>2
<1>4. Fetched' = Fetched /\ Fetched \in Nat
  BY <1>0, FetchedIs DEF Fetched, Last, Parts, SentOff
<1>5. PICK pk \in Seq(Nat), off \in Seq(Nat), l \in Nat, s \in Nat :
         /\ s = stale /\ NewIs(Len(pk), l)
         /\ \/ l <= losses /\ \E ak, ao \in Nat : OldIs(pk, off, ak, ao, s)
            \/ Len(pk) = 0 /\ Met(l)
  BY DEF Probing, Line
<1>6. PICK n \in Nat : n = Len(pk) /\ n <= Len(up)
  <2>1. Len(pk) \in Nat /\ Len(pk) <= Len(up)
    BY <1>0, <1>5 DEF OldIs
  <2> QED
    BY <2>1
<1>8. /\ n >= 1 => NewIs(n - 1, l)'
      /\ n = 0 => NewIs(0, l + 1)' /\ l + 1 <= Fetched /\ up[1] = ByteOf(owed[stale + 1], 1, l + 1)
  BY <1>0, <1>4, <1>5, <1>6, NewTail
<1>9. ASSUME n >= 1 PROVE Line'
  <2>0. l <= losses
    BY <1>5, <1>6, <1>9
  <2>1. PICK ak \in Nat, ao \in Nat : OldIs(pk, off, ak, ao, s)
    BY <1>5, <1>6, <1>9
  <2>2. PICK al \in Nat, ap \in Nat :
          /\ al \in 0 .. s
          /\ \A i \in 2 .. Len(pk) : up[i] # Stump => Before(al, ap, pk[i], off[i])
          /\ al = 0 => a_state' = "IDLE"
          /\ al = 1 => Halfway(a_state', a_data', a_length', owed[1], Parts(owed[1]), ap)
    <3>1. CASE up[1] = Stump
      <4>1. a_state' = "IDLE"
        BY <1>0, <3>1 DEF After, Follows, Stump
      <4>2. ak \in 0 .. s /\ \A i \in 2 .. Len(pk) : up[i] # Stump => Before(ak, ao, pk[i], off[i])
        BY <2>1 DEF OldIs
      <4> QED
        BY <4>1, <4>2 DEF Halfway
    <3>2. CASE up[1] # Stump
      <4>1. 1 \in 1 .. Len(pk) /\ Len(off) = Len(pk)
        BY <1>6, <1>9, <2>1 DEF OldIs
      <4>2. PICK k \in Nat, o \in Nat : k = pk[1] /\ o = off[1]
        BY <4>1, ElementOfSeq
      <4>3. /\ k \in 1 .. s /\ o \in 1 .. Last(owed[k]) /\ up[1] = ByteOf(owed[k], IdOf(k), o)
            /\ Before(ak, ao, k, o)
        BY <2>1, <3>2, <4>1, <4>2 DEF OldIs
      <4>4. \A i \in 2 .. Len(pk) : up[i] # Stump => Before(k, o, pk[i], off[i])
        <5> SUFFICES ASSUME NEW i \in 2 .. Len(pk), up[i] # Stump PROVE Before(k, o, pk[i], off[i])
          OBVIOUS
        <5>1. i \in 1 .. Len(pk) /\ 1 < i
          BY <1>6
        <5> QED
          BY <2>1, <3>2, <4>1, <4>2, <5>1 DEF OldIs
      <4>5. k = 1 => Halfway(a_state', a_data', a_length', owed[1], Parts(owed[1]), o)
        <5> SUFFICES ASSUME k = 1 PROVE Halfway(a_state', a_data', a_length', owed[1], Parts(owed[1]), o)
          OBVIOUS
        <5>1. PICK m \in Nat : o > m /\ Halfway(a_state, a_data, a_length, owed[1], Parts(owed[1]), m)
          <6>1. CASE ak = 0
            <7>1. a_state = "IDLE"
              BY <2>1, <6>1 DEF OldIs
            <7> QED
              BY <4>3, <7>1 DEF Halfway
          <6>2. CASE ak # 0
            <7>1. ak = 1 /\ ao < o
              BY <4>3, <6>2 DEF Before
            <7> QED
              BY <2>1, <7>1 DEF OldIs
          <6> QED
            BY <6>1, <6>2
        <5>2. owed[1] \in Request
          BY <1>1, <1>5, <4>3
        <5> QED
          BY <1>0, <1>1, <4>3, <5>1, <5>2, PassHalfway
      <4>6. k \in 0 .. s /\ k # 0
        BY <4>3
      <4> QED
        BY <4>2, <4>4, <4>5, <4>6
    <3> QED
      BY <3>1, <3>2
  <2>3. /\ OldIs(Tail(pk), Tail(off), al, ap, s)' /\ Len(Tail(pk)) = Len(pk) - 1
        /\ Tail(pk) \in Seq(Nat) /\ Tail(off) \in Seq(Nat)
    BY <1>0, <1>6, <1>9, <2>1, <2>2, OldTail
  <2>4. l <= losses' /\ s = stale'
    BY <1>0, <1>5, <2>0
  <2>5. NewIs(Len(Tail(pk)), l)'
    BY <1>6, <1>8, <1>9, <2>3
  <2> QED
    BY <2>3, <2>4, <2>5, LineOld
<1>10. ASSUME n = 0 PROVE Line'
  <2> DEFINE m == owed[stale + 1]
             b == up[1]
  <2>1. NewIs(0, l + 1)' /\ l + 1 <= Fetched /\ b = ByteOf(m, 1, l + 1)
    BY <1>8, <1>10
  <2>2. /\ Len(owed) = stale + 1 /\ m \in Request /\ Fetched <= Last(m)
    BY <1>4, <2>1, FetchedIs
  <2>3. Parts(m) \in Nat \ {0} /\ Last(m) = Parts(m) + 4
    BY <2>2, PartsIs
  <2>4. l + 1 \in 1 .. Last(m) /\ l \in Int /\ l + 1 > l
    BY <1>4, <2>1, <2>2, <2>3
  <2> HIDE DEF m, b
  <2>5. PICK o \in 1 .. Last(m) : o = l + 1
    BY <2>4
  <2>6. ASSUME Halfway(a_state, a_data, a_length, m, Parts(m), l)
        PROVE  Halfway(a_state', a_data', a_length', m, Parts(m), o)
    BY <1>0, <1>1, <2>1, <2>2, <2>4, <2>5, <2>6, PassHalfway DEF b
  <2>7. ASSUME a_state \in {"DATA", "END"}, l <= 2
        PROVE  Halfway(a_state', a_data', a_length', m, Parts(m), o)
    <3>1. b.kind # "data" /\ b.kind # "end"
      <4>1. o <= 3
        BY <2>5, <2>7
      <4>2. /\ b.kind = "data" => o > 3
            /\ b.kind = "end" => o = Last(m)
        BY <2>1, <2>2, <2>5, ByteIs
      <4> QED
        BY <2>3, <4>1, <4>2
    <3>2. a_state' = "IDLE"
      BY <1>0, <2>7, <3>1 DEF After, Follows, b
    <3> QED
      BY <3>2 DEF Halfway
  <2>8. Halfway(a_state', a_data', a_length', m, Parts(m), o)
    <3>1. CASE Met(l)
      <4>1. Halfway(a_state, a_data, a_length, m, Parts(m), l)
        BY <3>1 DEF Met, m
      <4> QED
        BY <2>6, <4>1
    <3>2. CASE l <= losses
      <4>1. l <= 2
        BY <1>1, <3>2
      <4>2. a_state \notin {"DATA", "END"} => Halfway(a_state, a_data, a_length, m, Parts(m), l)
        BY DEF Halfway
      <4> QED
        BY <2>6, <2>7, <4>1, <4>2
    <3> QED
      BY <1>5, <3>1, <3>2
  <2>9. Met(o)'
    <3>1. owed'[stale' + 1] = m /\ Len(owed') = stale' + 1
      BY <1>0, <2>2 DEF m
    <3>2. Parts(owed'[stale' + 1]) = Parts(m)
      BY <3>1
    <3> QED
      BY <2>8, <3>1, <3>2 DEF Met
  <2>10. o \in Nat /\ NewIs(Len(pk), o)' /\ s = stale' /\ Len(pk) = 0
    BY <1>0, <1>5, <1>6, <1>10, <2>1, <2>5
  <2> QED
    BY <2>9, <2>10, LineMet
<1>11. Line'
  <2>1. n >= 1 \/ n = 0
    OBVIOUS
  <2> QED
    BY <1>9, <1>10, <2>1, Zenon
<1> QED
  BY <1>0, <1>11 DEF Probing, Phase

(* The byte that ends the packet awaited, one from before the reset: it is *)
(* the oldest, and a write.                                                *)
LEMMA ProbeAcceptIs ==
  ASSUME Common, Probing, WINDOW <= IDS, onRecv, Accepts(Head(up)),
         NEW pk \in Seq(Nat), NEW off \in Seq(Nat), NEW ak \in Nat, NEW ao \in Nat, NEW s \in Nat, s = stale,
         OldIs(pk, off, ak, ao, s), Len(pk) >= 1
  PROVE  /\ s >= 1 /\ Ix >= 1 /\ Len(owed) >= 1 /\ owed[1] \in Request /\ owed[1].rw = "w"
         /\ up[1] # Stump /\ pk[1] = 1 /\ off[1] = Last(owed[1])
         /\ a_data = Whole(owed[1], Parts(owed[1])) /\ Len(a_data) = Parts(owed[1])
         /\ a_recv_id' = (a_recv_id + 1) % IDS /\ a_state' = "IDLE" /\ a_data' = a_data
<1> DEFINE b == Head(up)
<1>1. /\ up # <<>> /\ a_state = "END" /\ b.kind = "end" /\ b.id = expected_id
      /\ a_state' = After(a_state, b, a_data, a_length) /\ a_data' = Collected(a_state, b, a_data)
      /\ a_recv_id' = b.id
  BY DEF onRecv, Accepts
<1>2. /\ up \in Seq(Bytes) /\ stale <= Ix /\ Ix <= Len(owed) /\ Ix \in Nat /\ Len(owed) \in Nat
      /\ \A k \in 1 .. Len(owed) : owed[k] \in Request
  BY PhaseIs
<1>3. b = up[1]
  BY <1>1, <1>2
<1> HIDE DEF b
<1>4. up[1] # Stump
  BY <1>1, <1>3 DEF Stump
<1>5. 1 \in 1 .. Len(pk) /\ Len(off) = Len(pk)
  BY DEF OldIs
<1>6. PICK k \in Nat, o \in Nat : k = pk[1] /\ o = off[1]
  BY <1>5, ElementOfSeq
<1>7. /\ k \in 1 .. s /\ o \in 1 .. Last(owed[k]) /\ owed[k].rw = "w" /\ b = ByteOf(owed[k], IdOf(k), o)
      /\ Before(ak, ao, k, o) /\ ak # 0
  BY <1>1, <1>3, <1>4, <1>5, <1>6 DEF OldIs
<1>8. owed[k] \in Request
  BY <1>2, <1>7
<1>9. o = Last(owed[k]) /\ b.id = IdOf(k)
  BY <1>1, <1>7, <1>8, ByteIs
<1>10. k = 1
  <2>1. Wrapped(a_recv_id, k, IDS) = (a_recv_id + 1) % IDS
    BY <1>1, <1>9 DEF IdOf, expected_id
  <2>2. a_recv_id \in 0 .. IDS - 1 /\ IDS \in Nat /\ IDS >= 1 /\ Len(owed) <= WINDOW /\ WINDOW \in Nat
    BY ConstantsAre DEF Common, TypeOK
  <2>3. k \in 1 .. IDS
    BY <1>2, <1>7, <2>2
  <2> QED
    BY <2>1, <2>2, <2>3, WrapOne
<1>11. Parts(owed[1]) \in Nat \ {0} /\ Last(owed[1]) = Parts(owed[1]) + 4
  BY <1>8, <1>10, PartsIs
<1>12. ak = 1 /\ ao < Last(owed[1])
  BY <1>7, <1>9, <1>10, <1>11 DEF Before
<1>13. Len(a_data) = Parts(owed[1]) /\ Gathered(a_data, owed[1], ao)
  BY <1>1, <1>12 DEF OldIs, Halfway
<1>14. a_data = Whole(owed[1], Parts(owed[1]))
  <2>1. a_data \in Seq(DataBytes)
    BY DEF Common, TypeOK
  <2> QED
    BY <2>1, <1>11, <1>12, <1>13, GatherWhole
<1>15. a_recv_id' = (a_recv_id + 1) % IDS /\ a_state' = "IDLE" /\ a_data' = a_data
  BY <1>1 DEF expected_id, After, Follows, Collected
<1>16. s >= 1 /\ Ix >= 1 /\ Len(owed) >= 1
  BY <1>2, <1>7
<1> QED
  BY <1>4, <1>6, <1>7, <1>8, <1>9, <1>10, <1>13, <1>14, <1>15, <1>16

LEMMA OneLess ==
  /\ \A m \in Nat : m >= 1 => \E n \in Nat : n = m - 1 /\ n + 1 = m
  /\ \A s \in Nat : \A k \in 2 .. s : k - 1 \in 1 .. s - 1
OBVIOUS

LEMMA BeforeBoth ==
  ASSUME NEW k \in Nat, NEW l \in Nat, NEW o, NEW p, Before(k, o, l, p)
  PROVE  Before(k - 1, o, l - 1, p)
BY DEF Before

(* The packets behind it move up.                                          *)
Shifted(s) == \A k \in 2 .. s : owed'[k - 1] = owed[k] /\ IdOf(k - 1)' = IdOf(k)

LEMMA OldShift ==
  ASSUME NEW pk \in Seq(Nat), NEW off \in Seq(Nat), NEW ak, NEW ao, NEW s \in Nat, s >= 1, OldIs(pk, off, ak, ao, s),
         Len(pk) >= 1, up \in Seq(Bytes), up # <<>>, up' = Tail(up), up[1] # Stump, pk[1] = 1, off[1] = Last(owed[1]),
         a_state' = "IDLE", Last(owed[1]) \in Nat,
         Shifted(s)
  PROVE  \E pk1, off1 \in Seq(Nat) : OldIs(pk1, off1, 0, 0, s - 1)' /\ Len(pk1) = Len(pk) - 1
<1>1. PICK n \in Nat : n = Len(pk) - 1 /\ n + 1 = Len(pk) /\ Len(off) = n + 1 /\ n + 1 <= Len(up)
  <2>1. Len(pk) \in Nat /\ Len(off) = Len(pk) /\ Len(pk) <= Len(up) /\ Len(pk) >= 1
    BY DEF OldIs
  <2>2. \E n \in Nat : n = Len(pk) - 1 /\ n + 1 = Len(pk)
    BY <2>1, OneLess
  <2> QED
    BY <2>1, <2>2
<1>2. /\ Len(up) \in Nat /\ Len(up') = Len(up) - 1
      /\ \A i \in 1 .. Len(up) - 1 : up'[i] = up[i + 1]
  BY <1>1
<1>3. PICK pk1 \in Seq(Nat), off1 \in Seq(Nat) :
         /\ Len(pk1) = n /\ Len(off1) = n
         /\ \A i \in 1 .. n : (pk[i + 1] >= 1 => pk1[i] = pk[i + 1] - 1) /\ off1[i] = off[i + 1]
  <2> DEFINE p == [i \in 1 .. n |-> IF pk[i + 1] >= 1 THEN pk[i + 1] - 1 ELSE 0]
             f == [i \in 1 .. n |-> off[i + 1]]
  <2>1. ASSUME NEW i \in 1 .. n PROVE pk[i + 1] \in Nat /\ off[i + 1] \in Nat
    <3>1. i + 1 \in 1 .. Len(pk) /\ i + 1 \in 1 .. Len(off)
      BY <1>1
    <3> QED
      BY <3>1, ElementOfSeq
  <2>2. p \in [1 .. n -> Nat] /\ f \in [1 .. n -> Nat]
    BY <2>1
  <2>3. p \in Seq(Nat) /\ f \in Seq(Nat) /\ Len(p) = n /\ Len(f) = n
    BY <2>2, FunIsSeq
  <2>4. \A i \in 1 .. n : (pk[i + 1] >= 1 => p[i] = pk[i + 1] - 1) /\ f[i] = off[i + 1]
    OBVIOUS
  <2> HIDE DEF p, f
  <2> QED
    BY <2>3, <2>4
<1>4. ASSUME NEW i \in 1 .. n, up'[i] # Stump
      PROVE  /\ pk[i + 1] \in 2 .. s /\ pk1[i] = pk[i + 1] - 1 /\ off1[i] = off[i + 1]
             /\ off[i + 1] \in 1 .. Last(owed[pk[i + 1]]) /\ owed[pk[i + 1]].rw = "w"
             /\ up'[i] = ByteOf(owed[pk[i + 1]], IdOf(pk[i + 1]), off[i + 1])
             /\ i + 1 \in 1 .. Len(pk) /\ up[i + 1] # Stump
  <2>1. i + 1 \in 1 .. Len(pk) /\ 1 \in 1 .. Len(pk) /\ 1 < i + 1 /\ up'[i] = up[i + 1] /\ up[i + 1] # Stump
    BY <1>1, <1>2, <1>4
  <2>2. /\ pk[i + 1] \in 1 .. s /\ off[i + 1] \in 1 .. Last(owed[pk[i + 1]]) /\ owed[pk[i + 1]].rw = "w"
        /\ up[i + 1] = ByteOf(owed[pk[i + 1]], IdOf(pk[i + 1]), off[i + 1])
    BY <2>1 DEF OldIs
  <2>3. Before(1, Last(owed[1]), pk[i + 1], off[i + 1])
    BY <2>1 DEF OldIs
  <2>4. PICK k \in 1 .. s : k = pk[i + 1]
    BY <2>2
  <2>5. k # 1
    BY <2>2, <2>3, <2>4 DEF Before
  <2>6. pk[i + 1] \in 2 .. s /\ pk[i + 1] >= 1
    BY <2>4, <2>5
  <2> QED
    BY <1>3, <2>1, <2>2, <2>6
<1>5. ASSUME NEW i \in 1 .. n, up'[i] # Stump
      PROVE  /\ pk1[i] \in 1 .. s - 1 /\ off1[i] \in 1 .. Last(owed'[pk1[i]]) /\ owed'[pk1[i]].rw = "w"
             /\ up'[i] = ByteOf(owed'[pk1[i]], IdOf(pk1[i])', off1[i])
             /\ Before(0, 0, pk1[i], off1[i])
  <2>1. PICK k \in 2 .. s : k = pk[i + 1] /\ pk1[i] = k - 1
    BY <1>4, <1>5
  <2>2. k - 1 \in 1 .. s - 1
    BY OneLess
  <2>6. owed'[k - 1] = owed[k] /\ IdOf(k - 1)' = IdOf(k)
    BY DEF Shifted
  <2>3. 0 < k - 1
    BY <2>1
  <2>4. off1[i] \in 1 .. Last(owed[k]) /\ owed[k].rw = "w" /\ up'[i] = ByteOf(owed[k], IdOf(k), off1[i])
    BY <1>4, <1>5, <2>1
  <2>5. Last(owed'[k - 1]) = Last(owed[k])
    BY <2>6
  <2> QED
    BY <2>1, <2>2, <2>3, <2>4, <2>5, <2>6 DEF Before
<1>6. ASSUME NEW i \in 1 .. n, NEW j \in 1 .. n, i < j, up'[i] # Stump, up'[j] # Stump
      PROVE  Before(pk1[i], off1[i], pk1[j], off1[j])
  <2>1. /\ i + 1 \in 1 .. Len(pk) /\ j + 1 \in 1 .. Len(pk) /\ i + 1 < j + 1
        /\ up[i + 1] # Stump /\ up[j + 1] # Stump
    <3>1. i + 1 < j + 1
      BY <1>6
    <3> QED
      BY <1>4, <1>6, <3>1
  <2>2. Before(pk[i + 1], off[i + 1], pk[j + 1], off[j + 1])
    BY <2>1 DEF OldIs
  <2>3. PICK k \in 2 .. s, l \in 2 .. s : k = pk[i + 1] /\ l = pk[j + 1] /\ pk1[i] = k - 1 /\ pk1[j] = l - 1
                                           /\ off1[i] = off[i + 1] /\ off1[j] = off[j + 1]
    BY <1>4, <1>6
  <2>4. Before(k, off[i + 1], l, off[j + 1])
    BY <2>2, <2>3
  <2>5. k \in Nat /\ l \in Nat
    OBVIOUS
  <2>6. Before(k - 1, off[i + 1], l - 1, off[j + 1])
    BY <2>4, <2>5, BeforeBoth
  <2> QED
    BY <2>3, <2>6, Zenon
<1>7. n <= Len(up')
  BY <1>1, <1>2
<1>8. OldIs(pk1, off1, 0, 0, s - 1)'
  BY <1>3, <1>5, <1>6, <1>7 DEF OldIs
<1> QED
  BY <1>1, <1>3, <1>8

LEMMA ProbeAcceptOld ==
  ASSUME Common, Probing, WINDOW <= IDS, onRecv, Accepts(Head(up)),
         NEW pk \in Seq(Nat), NEW off \in Seq(Nat), NEW ak \in Nat, NEW ao \in Nat, NEW l \in Nat, NEW s \in Nat,
         s = stale, OldIs(pk, off, ak, ao, s), Len(pk) >= 1, NewIs(Len(pk), l), l <= losses
  PROVE  /\ Common' /\ Probing' /\ Len(owed) >= 1 /\ stale >= 1 /\ owed[1].rw = "w"
         /\ performed' = owed[1] /\ owed' = SubSeq(owed, 2, Len(owed))
         /\ stale' = (IF stale > 1 THEN stale - 1 ELSE 0) /\ read_buffer = <<>>
<1>1. /\ s >= 1 /\ Ix >= 1 /\ Len(owed) >= 1 /\ owed[1] \in Request /\ owed[1].rw = "w"
      /\ up[1] # Stump /\ pk[1] = 1 /\ off[1] = Last(owed[1])
      /\ a_data = Whole(owed[1], Parts(owed[1])) /\ Len(a_data) = Parts(owed[1])
      /\ a_recv_id' = (a_recv_id + 1) % IDS /\ a_state' = "IDLE" /\ a_data' = a_data
  BY ProbeAcceptIs
<1>2. /\ Ix \in Nat /\ stale \in Nat /\ Len(owed) \in Nat /\ stale <= Ix /\ Ix <= Len(owed) /\ Len(owed) <= stale + 1
      /\ owed \in Seq(Request) /\ up \in Seq(Bytes) /\ Len(up) \in Nat
  BY PhaseIs
<1>3. send_status # "IDLE" => Ix = stale + 1
  BY DEF Probing
<1>4. Ix = 1 => send_status = "IDLE"
  BY <1>1, <1>2, <1>3
<1>5. /\ Common' /\ performed' = owed[1] /\ owed' = SubSeq(owed, 2, Len(owed))
      /\ stale' = (IF stale > 1 THEN stale - 1 ELSE 0) /\ Ix' = Ix - 1 /\ read_buffer = <<>>
  BY <1>1, <1>4, AcceptFirst
<1>6. stale' = s - 1 /\ s - 1 \in Nat
  BY <1>1, <1>5
<1>7. /\ Len(owed') = Len(owed) - 1
      /\ \A k \in 1 .. Len(owed) - 1 : owed'[k] = owed[k + 1]
  BY <1>1, <1>2, <1>5, BehindFirst
<1>8. /\ up # <<>> /\ up' = Tail(up)
      /\ UNCHANGED <<send_status, send_bit, send_buf, packet_id, waiting, fresh, losses>>
  BY DEF onRecv, sendVars, faultVars
<1>9. Fetched' = Fetched /\ Fetched \in Nat
  <2>1. Fetched \in Nat
    BY FetchedIs
  <2>2. SentOff' = SentOff
    BY <1>8 DEF SentOff, Parts
  <2>3. CASE Ix = stale
    <3>1. Ix' = stale'
      BY <1>2, <1>5, <1>6, <2>3
    <3> QED
      BY <2>1, <2>3, <3>1 DEF Fetched
  <2>4. CASE Ix # stale
    <3>1. Ix' # stale' /\ stale' + 1 = s /\ s \in 1 .. Len(owed) - 1
      BY <1>1, <1>2, <1>5, <1>6, <2>4
    <3>2. owed'[stale' + 1] = owed[stale + 1]
      BY <1>7, <3>1
    <3>3. Last(owed'[stale' + 1]) = Last(owed[stale + 1])
      BY <3>2
    <3> QED
      BY <1>8, <2>1, <2>2, <2>4, <3>1, <3>3 DEF Fetched
  <2> QED
    BY <2>3, <2>4
<1>10. PICK n \in Nat : n = Len(pk) /\ n >= 1 /\ n <= Len(up)
  <2>1. Len(pk) \in Nat /\ Len(pk) <= Len(up)
    BY <1>2 DEF OldIs
  <2> QED
    BY <2>1
<1>11. Len(up) > n => owed'[stale' + 1] = owed[stale + 1]
  <2> SUFFICES ASSUME Len(up) > n PROVE owed'[stale' + 1] = owed[stale + 1]
    OBVIOUS
  <2>1. n + Fetched = Len(up) + l
    BY <1>10 DEF NewIs
  <2>2. Fetched >= 1
    BY <1>2, <1>9, <2>1
  <2>3. Len(owed) = stale + 1
    BY <2>2, FetchedIs
  <2>4. stale' + 1 = s /\ s \in 1 .. Len(owed) - 1
    BY <1>1, <1>2, <1>6, <2>3
  <2> QED
    BY <1>7, <2>4
<1>12. NewIs(n - 1, l)'
  BY <1>2, <1>8, <1>9, <1>10, <1>11, NewTail
<1>13. ASSUME NEW k \in 2 .. s
       PROVE  owed'[k - 1] = owed[k] /\ IdOf(k - 1)' = IdOf(k)
  <2>1. k - 1 \in 1 .. Len(owed) - 1 /\ (k - 1) + 1 = k
    BY <1>2
  <2>2. owed'[k - 1] = owed[k]
    BY <1>7, <2>1
  <2>3. a_recv_id \in 0 .. IDS - 1 /\ IDS \in Nat /\ IDS >= 1 /\ Len(owed) <= WINDOW /\ WINDOW \in Nat
    BY ConstantsAre DEF Common, TypeOK
  <2>4. PICK j \in 0 .. IDS : j = k - 1 /\ j + 1 = k /\ j + 1 <= IDS
    BY <1>2, <2>3
  <2>5. Wrapped((a_recv_id + 1) % IDS, j, IDS) = Wrapped(a_recv_id, j + 1, IDS)
    BY <2>3, <2>4, WrappedIs
  <2> QED
    BY <1>1, <2>2, <2>4, <2>5 DEF IdOf
<1>14. Last(owed[1]) \in Nat
  BY <1>1, PartsIs
<1>15. PICK pk1 \in Seq(Nat), off1 \in Seq(Nat) : OldIs(pk1, off1, 0, 0, s - 1)' /\ Len(pk1) = Len(pk) - 1
  <2>1. up \in Seq(Bytes) /\ up # <<>> /\ up' = Tail(up) /\ a_state' = "IDLE" /\ Last(owed[1]) \in Nat
    BY <1>1, <1>2, <1>8, <1>14
  <2>2. Shifted(s)
    BY <1>13 DEF Shifted
  <2> QED
    BY <1>1, <2>1, <2>2, OldShift
<1>16. Line'
  <2>1. NewIs(Len(pk1), l)' /\ l <= losses' /\ s - 1 = stale' /\ 0 \in Nat
    BY <1>6, <1>8, <1>10, <1>12, <1>15
  <2>2. PICK t \in Nat : t = s - 1
    BY <1>6
  <2> QED
    BY <1>15, <2>1, <2>2, LineOld
<1>17. Phase'
  <2>1. Len(owed) = stale => Len(owed') = stale'
    BY <1>2, <1>6, <1>7
  <2>2. Len(owed) = stale + 1 => Len(owed') = stale' + 1
    BY <1>2, <1>6, <1>7
  <2> QED
    BY <1>8, <2>1, <2>2, Zenon DEF Probing, Phase
<1>18. Ix' >= stale' /\ packet_id' = Ix' - stale' /\ (send_status' # "IDLE" => Ix' = stale' + 1)
  <2>1. packet_id = Ix - stale
    BY DEF Probing
  <2> QED
    BY <1>2, <1>3, <1>5, <1>6, <1>8, <2>1
<1>19. Probing'
  BY <1>16, <1>17, <1>18 DEF Probing
<1> QED
  BY <1>1, <1>5, <1>19

(* The last byte of the first fetch, which the Adapter has followed.       *)
LEMMA ProbeFetchIs ==
  ASSUME Common, Probing, losses <= 2, onRecv, Accepts(Head(up)),
         NEW l \in Nat, NewIs(0, l), l <= losses \/ Met(l)
  PROVE  /\ Len(owed) = stale + 1 /\ Ix = stale + 1 /\ send_buffer = <<>> /\ send_status = "IDLE"
         /\ owed[stale + 1] \in Request /\ owed[stale + 1].rw = "r" /\ waiting
         /\ a_data = Whole(owed[stale + 1], Parts(owed[stale + 1])) /\ Len(a_data) = Parts(owed[stale + 1])
         /\ \A j \in 1 .. stale : owed[j] # owed[stale + 1]
         /\ up' = <<>> /\ a_recv_id' = 1 /\ a_state' = "IDLE" /\ a_data' = a_data
<1> DEFINE b == Head(up)
           m == owed[stale + 1]
<1>1. /\ up # <<>> /\ a_state = "END" /\ b.kind = "end" /\ up' = Tail(up)
      /\ a_state' = After(a_state, b, a_data, a_length) /\ a_data' = Collected(a_state, b, a_data)
      /\ a_recv_id' = b.id
  BY DEF onRecv, Accepts
<1>2. /\ up \in Seq(Bytes) /\ stale \in Nat /\ Len(owed) \in Nat /\ Ix \in Nat
      /\ \A k \in 1 .. Len(owed) : owed[k] \in Request
  BY PhaseIs
<1>3. b = up[1] /\ Len(up) \in Nat /\ Len(up) >= 1
  BY <1>1, <1>2
<1> HIDE DEF b
<1>4. 0 + Fetched = Len(up) + l /\ b = ByteOf(m, 1, l + 1)
  <2>1. 1 \in 1 .. Len(up) - 0 /\ 0 + 1 = 1
    BY <1>3
  <2>2. up[0 + 1] = ByteOf(m, 1, l + 1)
    BY <2>1 DEF NewIs
  <2> QED
    BY <1>3, <2>1, <2>2 DEF NewIs
<1>5. Fetched \in Nat
  BY FetchedIs
<1>6. Fetched >= 1 /\ l + 1 <= Fetched
  BY <1>3, <1>4, <1>5
<1>7. /\ Ix = stale + 1 /\ Len(owed) = stale + 1 /\ m \in Request /\ Fetched <= Last(m)
      /\ Fetched = Last(m) => send_status = "IDLE"
  BY <1>6, FetchedIs
<1> HIDE DEF m
<1>8. Parts(m) \in Nat \ {0} /\ Last(m) = Parts(m) + 4
  BY <1>7, PartsIs
<1>9. l + 1 = Last(m) /\ b.id = 1
  <2>1. PICK o \in 1 .. Last(m) : o = l + 1
    BY <1>5, <1>6, <1>7, <1>8
  <2> QED
    BY <1>1, <1>4, <1>7, <2>1, ByteIs
<1>10. Fetched = Last(m) /\ Len(up) = 1
  <2>1. Last(m) \in Nat
    BY <1>8
  <2>2. PICK f \in Nat, x \in Nat, p \in Nat :
          f = Fetched /\ x = Len(up) /\ p = Last(m) /\ 0 + f = x + l /\ x >= 1 /\ f <= p /\ l + 1 = p
    BY <1>3, <1>4, <1>5, <1>7, <1>9, <2>1
  <2>3. f = p /\ x = 1
    BY <2>2
  <2> QED
    BY <2>2, <2>3
<1>11. up' = <<>>
  BY <1>1, <1>2, <1>10
<1>12. Met(l)
  <2>1. losses \in Nat
    BY DEF Common, TypeOK
  <2> QED
    BY <1>8, <1>9, <2>1
<1>13. Len(a_data) = Parts(m) /\ Gathered(a_data, m, l)
  BY <1>1, <1>12 DEF Met, Halfway, m
<1>14. a_data = Whole(m, Parts(m))
  <2>1. a_data \in Seq(DataBytes)
    BY DEF Common, TypeOK
  <2> QED
    BY <1>8, <1>9, <1>13, <2>1, GatherWhole
<1>15. send_buffer = <<>>
  <2>1. send_buffer \in Seq(Request) /\ Len(send_buffer) \in Nat
    BY DEF Common, TypeOK
  <2>2. Len(send_buffer) = 0
    BY <1>2, <1>7, <2>1 DEF Ix
  <2> QED
    BY <2>1, <2>2
<1>16. waiting /\ m.rw = "r"
  <2>1. waiting = TRUE
    <3>1. Len(owed) # stale
      BY <1>2, <1>7
    <3> QED
      BY <3>1 DEF Probing, Phase
  <2>2. owed # <<>> /\ m = owed[Len(owed)]
    BY <1>2, <1>7 DEF m
  <2> QED
    BY <2>1, <2>2 DEF Common, OwedOK
<1>17. ASSUME NEW j \in 1 .. stale, owed[j] = m PROVE FALSE
  <2>1. PICK d \in 1 .. TAGS : d = Len(owed) + 1 - j /\ d >= 2
    <3>1. Len(owed) <= WINDOW /\ WINDOW \in Nat /\ WINDOW < TAGS /\ TAGS \in Nat
      BY ConstantsAre DEF Common, TypeOK
    <3> QED
      BY <1>2, <1>7, <3>1
  <2>2. j \in 1 .. Len(owed) /\ Len(owed) \in 1 .. Len(owed) /\ Len(owed) + 1 - Len(owed) = 1
    BY <1>2, <1>7
  <2>3. Wrapped(m.tag, d, TAGS) = tag /\ Wrapped(m.tag, 1, TAGS) = tag
    <3>1. owed[Len(owed)] = m
      BY <1>7 DEF m
    <3> QED
      BY <1>17, <2>1, <2>2, <3>1 DEF Common, OwedOK
  <2>4. m.tag \in 0 .. TAGS - 1 /\ TAGS \in Nat /\ TAGS >= 1
    BY <1>7, ConstantsAre DEF Request
  <2>5. d = 1
    BY <2>3, <2>4, WrapOne
  <2> QED
    BY <2>1, <2>5
<1>18. a_state' = "IDLE" /\ a_data' = a_data /\ a_recv_id' = 1
  BY <1>1, <1>9 DEF After, Follows, Collected
<1> QED
  BY <1>7, <1>10, <1>11, <1>13, <1>14, <1>15, <1>16, <1>17, <1>18 DEF m

(* The response to a read that leaves nothing owed sets out.               *)
LEMMA DownSets ==
  ASSUME NEW m \in Request, a_send_id \in Ids, performed' = m, down' = Response(m), waiting', owed' = <<>>,
         recv_status' = "IDLE", read_buffer' = <<>>
  PROVE  DownOK' /\ down' \in Seq(Bytes)
<1>1. /\ Response(m) \in Seq(Bytes) /\ Len(Response(m)) = RespLast
      /\ RespLast \in Nat /\ RespLast' = RespLast
  BY ResponseIs, ConstantsAre DEF RespLast
<1>2. Gone' = 0 /\ Len(down') = RespLast /\ down' \in Seq(Bytes)
  BY <1>1 DEF Gone
<1>3. ASSUME NEW i \in 1 .. Len(down') PROVE RespByte(down[i], i)'
  BY <1>1, <1>2, ResponseIs DEF RespByte
<1>4. \A i \in 1 .. Len(down') : (Gone + i)' = i
  BY <1>2
<1>5. \A i \in 1 .. Len(down') : RespByte(down[i], Gone + i)'
  BY <1>3, <1>4
<1> QED
  BY <1>1, <1>2, <1>5 DEF DownOK, Halfway

LEMMA ProbeAcceptFetch ==
  ASSUME Common, Probing, losses <= 2, onRecv, Accepts(Head(up)),
         NEW l \in Nat, NewIs(0, l), l <= losses \/ Met(l)
  PROVE  /\ Common' /\ InStep' /\ Len(owed) = stale + 1 /\ owed[stale + 1].rw = "r"
         /\ performed' = owed[stale + 1] /\ owed' = <<>> /\ owed' = SubSeq(owed, stale + 2, Len(owed))
         /\ stale' = 0 /\ waiting' = TRUE /\ read_buffer' = <<>>
<1>0. TypeOK /\ OwedOK /\ SenderOK /\ DownOK
  BY DEF Common
<1>1. /\ Len(owed) = stale + 1 /\ Ix = stale + 1 /\ send_buffer = <<>> /\ send_status = "IDLE"
      /\ owed[stale + 1] \in Request /\ owed[stale + 1].rw = "r" /\ waiting
      /\ a_data = Whole(owed[stale + 1], Parts(owed[stale + 1])) /\ Len(a_data) = Parts(owed[stale + 1])
      /\ \A j \in 1 .. stale : owed[j] # owed[stale + 1]
      /\ up' = <<>> /\ a_recv_id' = 1 /\ a_state' = "IDLE" /\ a_data' = a_data
  BY ProbeFetchIs
<1>2. stale \in Nat /\ owed \in Seq(Request) /\ down = <<>> /\ read_buffer = <<>> /\ recv_status = "IDLE"
  BY PhaseIs
<1>3. PICK k \in 1 .. Len(owed) : k = stale + 1 /\ k - 1 = stale
  BY <1>1, <1>2
<1>4. /\ performed' = owed[k] /\ owed' = SubSeq(owed, k + 1, Len(owed))
      /\ stale' = IF stale > k THEN stale - k ELSE 0
      /\ owed[k].rw = "r" => down' = down \o Response(owed[k]) /\ a_send_id' = (a_send_id + 1) % IDS
  <2>1. Len(owed) \in Nat /\ owed[k] \in Request /\ \A j \in 1 .. k - 1 : owed[j] # owed[k]
    BY <1>1, <1>2, <1>3
  <2>2. a_data = Whole(owed[k], Parts(owed[k])) /\ Len(a_data) = Parts(owed[k])
    BY <1>1, <1>3
  <2> QED
    BY <2>1, <2>2, AcceptDoes
<1>5. owed' = <<>> /\ k + 1 = stale + 2 /\ stale' = 0
  <2>1. k + 1 > Len(owed) /\ k + 1 = stale + 2 /\ ~(stale > k)
    BY <1>1, <1>2, <1>3
  <2> QED
    BY <1>2, <1>4, <2>1
<1>6. a_send_id \in Ids /\ a_send_id' \in Ids /\ down' = Response(owed[k])
  <2>1. a_send_id \in Ids
    BY <1>0 DEF TypeOK
  <2>2. Response(owed[k]) \in Seq(Bytes)
    BY <1>1, <1>3, <2>1, ResponseIs
  <2>3. (a_send_id + 1) % IDS \in Ids
    BY <2>1, ConstantsAre, NextOf
  <2> QED
    BY <1>1, <1>2, <1>3, <1>4, <2>1, <2>2, <2>3
<1>7. UNCHANGED <<send_buffer, send_status, send_bit, send_buf, packet_id, recv_status, recv_data, recv_length,
                  read_buffer, waiting, fresh, tag, losses>>
  BY DEF onRecv, sendVars, recvVars, faultVars
<1>8. DownOK' /\ down' \in Seq(Bytes)
  BY <1>1, <1>2, <1>3, <1>4, <1>5, <1>6, <1>7, DownSets
<1>9. TypeOK'
  <2>1. a_recv_id' \in Ids
    BY <1>1, ConstantsAre
  <2>2. up' \in Seq(Bytes) /\ owed' \in Seq(Request) /\ Len(owed') = 0 /\ Len(send_buffer') = 0
    BY <1>1, <1>5, <1>7
  <2>3. Len(owed') <= WINDOW /\ Len(send_buffer') <= Len(owed') /\ stale' \in 0 .. Len(owed')
    BY <1>5, <2>2, ConstantsAre
  <2>4. a_state' = "IDLE" /\ a_state' \in States
    BY <1>1 DEF States
  <2> QED
    BY <1>0, <1>1, <1>6, <1>7, <1>8, <2>1, <2>2, <2>3, <2>4 DEF TypeOK
<1>10. OwedOK' /\ SenderOK'
  <2>1. 1 .. Len(owed') = {} /\ 1 .. Len(send_buffer') = {}
    BY <1>1, <1>5, <1>7
  <2>2. performed' \in Request
    BY <1>1, <1>3, <1>4
  <2> QED
    BY <1>1, <1>5, <1>7, <2>1, <2>2 DEF OwedOK, SenderOK
<1>11. InStep'
  <2>1. Ix' = 0
    BY <1>1, <1>5, <1>7 DEF Ix
  <2>2. packet_id' = 1
    <3>1. packet_id = Ix - stale
      BY DEF Probing
    <3> QED
      BY <1>1, <1>2, <1>7, <3>1
  <2>3. IdOf(Ix)' = 1
    <3>1. Wrapped(1, 0, IDS) = 1
      BY ConstantsAre DEF Wrapped
    <3> QED
      BY <1>1, <2>1, <3>1 DEF IdOf
  <2>4. UpOK(<<>>, <<>>, 0, 0)'
    BY <1>1, <1>7, <2>1 DEF UpOK, Sent
  <2>5. <<>> \in Seq(Nat) /\ 0 \in Nat
    OBVIOUS
  <2> QED
    BY <1>5, <2>2, <2>3, <2>4, <2>5 DEF InStep
<1>12. waiting' = TRUE
  <2>1. waiting = TRUE
    BY <1>0, <1>1 DEF TypeOK
  <2> QED
    BY <1>7, <2>1
<1> QED
  BY <1>1, <1>2, <1>3, <1>4, <1>5, <1>7, <1>8, <1>9, <1>10, <1>11, <1>12 DEF Common

(* The button.                                                             *)

LEMMA ResetCommon ==
  ASSUME Common, Reset, ~MID_READ
  PROVE  /\ Common' /\ Ix' = Len(owed) /\ Len(owed) \in Nat /\ (waiting => up = <<>>)
         /\ read_buffer' = <<>> /\ waiting' = FALSE /\ fresh' = TRUE /\ stale' = Len(owed) /\ packet_id' = 0
         /\ send_status' = "IDLE" /\ UNCHANGED <<owed, performed, losses, a_state, a_data, a_length, a_recv_id>>
         /\ up \in Seq(Bytes) /\ up' \in Seq(Bytes) /\ Len(up) \in Nat
         /\ \E n \in 0 .. Len(up) :
               /\ n <= Len(up') /\ Len(up') <= Len(up) /\ Len(up') <= n + 1
               /\ \A i \in 1 .. n : up'[i] = up[i]
               /\ Len(up') = n + 1 => up'[n + 1] = Stump
<1>0. TypeOK /\ DownOK
  BY DEF Common
<1>1. /\ waiting /\ ~MID_READ => up = <<>> /\ down = <<>> /\ read_buffer = <<>>
      /\ send_buffer' = <<>> /\ read_buffer' = <<>>
      /\ send_status' = "IDLE" /\ packet_id' = 0
      /\ recv_status' = "IDLE" /\ recv_data' = <<>>
      /\ \E n \in 0 .. Len(up) :
            up' \in {SubSeq(up, 1, n)} \cup
                   (IF n < Len(up) THEN {Append(SubSeq(up, 1, n), Stump)} ELSE {})
      /\ \E n \in 0 .. Len(down) :
            down' \in {SubSeq(down, n + 1, Len(down))} \cup
                     (IF n > 0 THEN {<<Stump>> \o SubSeq(down, n + 1, Len(down))} ELSE {})
      /\ waiting' = FALSE /\ fresh' = TRUE /\ stale' = Len(owed)
      /\ UNCHANGED <<adapterVars, owed, tag, performed, losses>>
  BY DEF Reset
<1>2. UNCHANGED <<a_state, a_data, a_length, a_recv_id, a_send_id>>
  BY <1>1 DEF adapterVars
<1>3. /\ owed \in Seq(Request) /\ Len(owed) \in Nat /\ up \in Seq(Bytes) /\ Len(up) \in Nat
  BY <1>0 DEF TypeOK
<1>4. (waiting => up = <<>>) /\ down = <<>>
  <2>1. CASE waiting
    BY <1>1, <2>1
  <2>2. CASE ~waiting
    BY <1>0, <2>2 DEF DownOK
  <2> QED
    BY <2>1, <2>2
<1>5. down' = <<>>
  <2>1. PICK n \in 0 .. Len(down) :
            down' \in {SubSeq(down, n + 1, Len(down))} \cup
                     (IF n > 0 THEN {<<Stump>> \o SubSeq(down, n + 1, Len(down))} ELSE {})
    BY <1>1
  <2>2. n = 0 /\ Len(down) = 0
    BY <1>4
  <2>3. down' = SubSeq(<<>>, 1, 0)
    BY <1>4, <2>1, <2>2
  <2> QED
    BY <2>3
<1>6. PICK n \in 0 .. Len(up) :
          \/ up' = SubSeq(up, 1, n)
          \/ n < Len(up) /\ up' = Append(SubSeq(up, 1, n), Stump)
  BY <1>1
<1>7. /\ SubSeq(up, 1, n) \in Seq(Bytes) /\ Len(SubSeq(up, 1, n)) = n
      /\ \A i \in 1 .. n : SubSeq(up, 1, n)[i] = up[i]
  <2>1. \A i \in 1 .. n : up[i] \in Bytes
    BY <1>3, ElementOfSeq
  <2>2. /\ SubSeq(up, 1, n) \in Seq(Bytes)
        /\ Len(SubSeq(up, 1, n)) = IF 1 <= n THEN n - 1 + 1 ELSE 0
        /\ \A i \in 1 .. n - 1 + 1 : SubSeq(up, 1, n)[i] = up[1 + i - 1]
    BY <2>1, SubSeqProperties
  <2> QED
    BY <1>3, <2>2
<1>8. /\ up' \in Seq(Bytes) /\ n <= Len(up') /\ Len(up') <= Len(up) /\ Len(up') <= n + 1
      /\ \A i \in 1 .. n : up'[i] = up[i]
      /\ Len(up') = n + 1 => up'[n + 1] = Stump
  <2>1. CASE up' = SubSeq(up, 1, n)
    BY <1>3, <1>7, <2>1
  <2>2. CASE n < Len(up) /\ up' = Append(SubSeq(up, 1, n), Stump)
    <3> DEFINE t == SubSeq(up, 1, n)
    <3>1. t \in Seq(Bytes) /\ Len(t) = n /\ \A i \in 1 .. n : t[i] = up[i]
      BY <1>7
    <3> HIDE DEF t
    <3>2. Stump \in Bytes /\ up' = Append(t, Stump)
      BY <2>2 DEF Bytes, t
    <3> QED
      BY <1>3, <2>2, <3>1, <3>2
  <2> QED
    BY <1>6, <2>1, <2>2
<1>9. Ix' = Len(owed)
  BY <1>1, <1>3 DEF Ix
<1>10. TypeOK'
  <2>1. send_buffer' \in Seq(Request) /\ Len(send_buffer') = 0 /\ down' \in Seq(Bytes) /\ recv_data' \in Seq(DataBytes)
    BY <1>1, <1>5
  <2>2. packet_id' \in Ids /\ send_status' \in States /\ recv_status' \in States
    BY <1>1, ConstantsAre DEF States
  <2>3. stale' \in 0 .. Len(owed') /\ Len(send_buffer') <= Len(owed') /\ losses' \in Nat /\ tag' \in 0 .. TAGS - 1
    BY <1>0, <1>1, <1>3, <2>1 DEF TypeOK
  <2>4. waiting' \in BOOLEAN /\ fresh' \in BOOLEAN
    BY <1>1
  <2>5. /\ Len(owed') <= WINDOW /\ a_recv_id' \in Ids /\ a_send_id' \in Ids /\ a_state' \in States
        /\ a_data' \in Seq(DataBytes)
        /\ a_state' \in {"CHANNEL", "LENGTH"} => a_data' = <<>>
    BY <1>0, <1>1, <1>2 DEF TypeOK
  <2>6. recv_status' \notin {"CHANNEL", "LENGTH"} /\ owed' \in Seq(Request) /\ up' \in Seq(Bytes)
    BY <1>1, <1>3, <1>8
  <2> QED
    BY <2>1, <2>2, <2>3, <2>4, <2>5, <2>6 DEF TypeOK
<1>11. OwedOK'
  <2>1. 1 .. Len(send_buffer') = {}
    BY <1>1
  <2>2. \A k \in 1 .. Len(owed') : ~(k > stale')
    BY <1>1, <1>3
  <2>3. \A k \in 1 .. Len(owed') : Wrapped(owed'[k].tag, Len(owed') + 1 - k, TAGS) = tag'
    BY <1>1 DEF Common, OwedOK
  <2> QED
    BY <1>1, <2>1, <2>2, <2>3 DEF OwedOK
<1>12. SenderOK' /\ DownOK'
  BY <1>1, <1>5, ConstantsAre DEF SenderOK, DownOK, Halfway, RespLast
<1>13. \E t \in 0 .. Len(up) :
          /\ t <= Len(up') /\ Len(up') <= Len(up) /\ Len(up') <= t + 1
          /\ \A i \in 1 .. t : up'[i] = up[i]
          /\ Len(up') = t + 1 => up'[t + 1] = Stump
  BY <1>8
<1> QED
  BY <1>1, <1>2, <1>3, <1>4, <1>8, <1>9, <1>10, <1>11, <1>12, <1>13 DEF Common

LEMMA AtMost ==
  ASSUME NEW n \in Nat, NEW t \in Nat, NEW u \in Nat, t <= u, t <= n + 1, NEW i \in 1 .. t
  PROVE  i \in 1 .. u /\ (i \in 1 .. n \/ (i = n + 1 /\ t = n + 1))
OBVIOUS

(* A part of what was on the line, and what is left of a byte.             *)
LEMMA ResetOld ==
  ASSUME NEW pk \in Seq(Nat), NEW off \in Seq(Nat), NEW ak, NEW ao, NEW s \in Nat,
         OldIs(pk, off, ak, ao, s), Len(pk) = Len(up), up \in Seq(Bytes), up' \in Seq(Bytes),
         NEW n \in Nat, Len(up') <= Len(up), Len(up') <= n + 1,
         \A i \in 1 .. n : up'[i] = up[i], Len(up') = n + 1 => up'[n + 1] = Stump,
         UNCHANGED <<owed, a_state, a_data, a_length, a_recv_id>>
  PROVE  \E pk1, off1 \in Seq(Nat) : OldIs(pk1, off1, ak, ao, s)' /\ Len(pk1) = Len(up')
<1>1. PICK t \in Nat : t = Len(up') /\ t <= Len(up) /\ t <= n + 1 /\ Len(up) \in Nat /\ Len(off) = Len(pk)
  BY DEF OldIs
<1>2. PICK pk1 \in Seq(Nat), off1 \in Seq(Nat) :
         Len(pk1) = t /\ Len(off1) = t /\ \A i \in 1 .. t : pk1[i] = pk[i] /\ off1[i] = off[i]
  <2> DEFINE p == [i \in 1 .. t |-> pk[i]]
             f == [i \in 1 .. t |-> off[i]]
  <2>1. ASSUME NEW i \in 1 .. t PROVE pk[i] \in Nat /\ off[i] \in Nat
    <3>1. i \in 1 .. Len(pk) /\ i \in 1 .. Len(off)
      BY <1>1
    <3> QED
      BY <3>1, ElementOfSeq
  <2>2. p \in [1 .. t -> Nat] /\ f \in [1 .. t -> Nat]
    BY <2>1
  <2>3. p \in Seq(Nat) /\ f \in Seq(Nat) /\ Len(p) = t /\ Len(f) = t
    BY <2>2, FunIsSeq
  <2>4. \A i \in 1 .. t : p[i] = pk[i] /\ f[i] = off[i]
    OBVIOUS
  <2> HIDE DEF p, f
  <2> QED
    BY <2>3, <2>4
<1>3. ASSUME NEW i \in 1 .. t, up'[i] # Stump
      PROVE  i \in 1 .. Len(pk) /\ up'[i] = up[i] /\ up[i] # Stump
  <2>1. i \in 1 .. Len(pk) /\ (i \in 1 .. n \/ (i = n + 1 /\ t = n + 1))
    BY <1>1, AtMost
  <2>2. i \in 1 .. n
    BY <1>1, <1>3, <2>1
  <2> QED
    BY <1>3, <2>1, <2>2
<1>4. \A k : IdOf(k)' = IdOf(k)
  BY DEF IdOf
<1>5. ASSUME NEW i \in 1 .. t, up'[i] # Stump
      PROVE  /\ pk1[i] \in 1 .. s /\ off1[i] \in 1 .. Last(owed'[pk1[i]]) /\ owed'[pk1[i]].rw = "w"
             /\ up'[i] = ByteOf(owed'[pk1[i]], IdOf(pk1[i])', off1[i])
             /\ Before(ak, ao, pk1[i], off1[i])
  <2>1. i \in 1 .. Len(pk) /\ up'[i] = up[i] /\ up[i] # Stump /\ pk1[i] = pk[i] /\ off1[i] = off[i]
    BY <1>2, <1>3, <1>5
  <2>2. /\ pk[i] \in 1 .. s /\ off[i] \in 1 .. Last(owed[pk[i]]) /\ owed[pk[i]].rw = "w"
        /\ up[i] = ByteOf(owed[pk[i]], IdOf(pk[i]), off[i])
        /\ Before(ak, ao, pk[i], off[i])
    BY <2>1 DEF OldIs
  <2> QED
    BY <1>4, <2>1, <2>2
<1>6. ASSUME NEW i \in 1 .. t, NEW j \in 1 .. t, i < j, up'[i] # Stump, up'[j] # Stump
      PROVE  Before(pk1[i], off1[i], pk1[j], off1[j])
  <2>1. i \in 1 .. Len(pk) /\ j \in 1 .. Len(pk) /\ up[i] # Stump /\ up[j] # Stump
    BY <1>3, <1>6
  <2> QED
    BY <1>2, <1>6, <2>1 DEF OldIs
<1>7. /\ ak \in 0 .. s /\ (ak = 0 => a_state' = "IDLE")
      /\ ak = 1 => Halfway(a_state', a_data', a_length', owed'[1], Parts(owed'[1]), ao)
  BY DEF OldIs
<1>8. OldIs(pk1, off1, ak, ao, s)'
  BY <1>1, <1>2, <1>5, <1>6, <1>7 DEF OldIs
<1> QED
  BY <1>1, <1>2, <1>8

(* Whatever there was may be what there was before the reset.              *)
LEMMA ResetProbing ==
  ASSUME Common, Reset, ~MID_READ,
         NEW pk \in Seq(Nat), NEW off \in Seq(Nat), NEW ak \in Nat, NEW ao \in Nat,
         OldIs(pk, off, ak, ao, Len(owed)), Len(pk) = Len(up)
  PROVE  Probing'
<1>1. /\ Ix' = Len(owed) /\ Len(owed) \in Nat /\ owed' = owed
      /\ waiting' = FALSE /\ fresh' = TRUE /\ stale' = Len(owed) /\ packet_id' = 0
      /\ send_status' = "IDLE" /\ UNCHANGED <<owed, losses, a_state, a_data, a_length, a_recv_id>>
      /\ up \in Seq(Bytes) /\ up' \in Seq(Bytes)
  BY ResetCommon
<1>2. PICK n \in Nat :
        /\ Len(up') <= Len(up) /\ Len(up') <= n + 1
        /\ \A i \in 1 .. n : up'[i] = up[i]
        /\ Len(up') = n + 1 => up'[n + 1] = Stump
  BY ResetCommon
<1>3. PICK s \in Nat : s = Len(owed)
  BY <1>1
<1>4. OldIs(pk, off, ak, ao, s)
  BY <1>3
<1>5. PICK pk1 \in Seq(Nat), off1 \in Seq(Nat) : OldIs(pk1, off1, ak, ao, s)' /\ Len(pk1) = Len(up')
  BY <1>1, <1>2, <1>4, ResetOld
<1>6. NewIs(Len(pk1), 0)'
  <2>1. Fetched' = 0
    BY <1>1 DEF Fetched
  <2>2. Len(up') \in Nat
    BY <1>1
  <2>3. 1 .. Len(up') - Len(pk1) = {} /\ Len(pk1) + 0 = Len(up') + 0
    BY <1>5, <2>2
  <2> QED
    BY <2>1, <2>3 DEF NewIs
<1>7. 0 <= losses'
  BY <1>1 DEF Common, TypeOK
<1>8. Line'
  <2>1. s = stale' /\ 0 \in Nat
    BY <1>1, <1>3
  <2> QED
    BY <1>5, <1>6, <1>7, <2>1, LineOld
<1>9. Phase'
  BY <1>1 DEF Phase
<1>10. Ix' >= stale' /\ packet_id' = Ix' - stale' /\ send_status' = "IDLE"
  BY <1>1
<1> QED
  BY <1>8, <1>9, <1>10 DEF Probing

LEMMA ResetInStep ==
  ASSUME Common, InStep, Reset, ~MID_READ
  PROVE  Probing'
<1>1. PICK pk \in Seq(Nat), off \in Seq(Nat), ak \in Nat, ao \in Nat : UpOK(pk, off, ak, ao)
  BY DEF InStep
<1>2. (waiting => up = <<>>) /\ Len(owed) \in Nat /\ up \in Seq(Bytes)
  BY ResetCommon
<1>3. Ix \in Nat /\ Ix <= Len(owed) /\ stale = 0 /\ \A k \in 1 .. Len(owed) : owed[k] \in Request
  <2>1. owed \in Seq(Request)
    BY DEF Common, TypeOK
  <2> QED
    BY <2>1, IxIs, ElementOfSeq DEF Common, InStep
<1>4. ASSUME NEW i \in 1 .. Len(up)
      PROVE  /\ pk[i] \in 1 .. Len(owed) /\ off[i] \in 1 .. Last(owed[pk[i]]) /\ owed[pk[i]].rw = "w"
             /\ up[i] = ByteOf(owed[pk[i]], IdOf(pk[i]), off[i])
             /\ Before(ak, ao, pk[i], off[i])
  <2>1. /\ pk[i] \in 1 .. Ix /\ off[i] \in 1 .. Last(owed[pk[i]])
        /\ up[i] = ByteOf(owed[pk[i]], IdOf(pk[i]), off[i])
        /\ Before(ak, ao, pk[i], off[i])
    BY <1>1 DEF UpOK
  <2>2. PICK k \in 1 .. Len(owed) : k = pk[i] /\ k > stale
    BY <1>2, <1>3, <2>1
  <2>3. ~waiting
    BY <1>2
  <2>4. owed[k].rw # "r"
    BY <2>2, <2>3 DEF Common, OwedOK
  <2>5. owed[k].rw = "w"
    BY <1>3, <2>4 DEF Request
  <2> QED
    BY <2>1, <2>2, <2>5
<1>5. ak \in 0 .. Len(owed)
  BY <1>1, <1>2, <1>3 DEF UpOK
<1>6. /\ Len(pk) = Len(up) /\ Len(off) = Len(pk) /\ Len(pk) <= Len(up)
      /\ \A i, j \in 1 .. Len(pk) : i < j => Before(pk[i], off[i], pk[j], off[j])
      /\ ak = 0 => a_state = "IDLE"
      /\ ak = 1 => Halfway(a_state, a_data, a_length, owed[1], Parts(owed[1]), ao)
  BY <1>1, <1>2 DEF UpOK
<1>7. OldIs(pk, off, ak, ao, Len(owed))
  BY <1>4, <1>5, <1>6 DEF OldIs
<1> QED
  BY <1>6, <1>7, ResetProbing

LEMMA ResetAgain ==
  ASSUME Common, Probing, Reset, ~MID_READ
  PROVE  Probing'
<1>1. (waiting => up = <<>>) /\ up \in Seq(Bytes) /\ Len(up) \in Nat
  BY ResetCommon
<1>2. /\ Ix \in Nat /\ stale \in Nat /\ Len(owed) \in Nat /\ stale <= Ix /\ Ix <= Len(owed)
  BY PhaseIs
<1>3. PICK pk \in Seq(Nat), off \in Seq(Nat), l \in Nat, s \in Nat :
         /\ s = stale /\ NewIs(Len(pk), l)
         /\ \/ l <= losses /\ \E ak, ao \in Nat : OldIs(pk, off, ak, ao, s)
            \/ Len(pk) = 0 /\ Met(l)
  BY DEF Probing, Line
<1>4. CASE Len(owed) = stale
  <2>1. ~Met(l)
    BY <1>2, <1>4 DEF Met
  <2>2. PICK ak \in Nat, ao \in Nat : OldIs(pk, off, ak, ao, s)
    BY <1>3, <2>1
  <2>3. Fetched = 0
    BY <1>2, <1>4 DEF Fetched
  <2>4. Len(pk) = Len(up)
    <3>1. Len(pk) + 0 = Len(up) + l /\ Len(pk) \in Nat /\ Len(pk) <= Len(up)
      BY <1>3, <2>2, <2>3 DEF NewIs, OldIs
    <3> QED
      BY <1>1, <3>1
  <2> QED
    BY <1>3, <1>4, <2>2, <2>4, ResetProbing
<1>5. CASE Len(owed) = stale + 1 /\ waiting = TRUE
  <2>1. up = <<>> /\ Len(up) = 0
    BY <1>1, <1>5
  <2>2. CASE Len(pk) = 0 /\ Met(l)
    <3>1. Halfway(a_state, a_data, a_length, owed[stale + 1], Parts(owed[stale + 1]), l)
      BY <2>2 DEF Met
    <3>2. PICK k \in Nat : k = stale + 1 /\ k # 0 /\ k \in 0 .. Len(owed)
      BY <1>2, <1>5
    <3>3. k = 1 => Halfway(a_state, a_data, a_length, owed[1], Parts(owed[1]), l)
      BY <3>1, <3>2
    <3>4. <<>> \in Seq(Nat) /\ Len(<<>>) = 0 /\ 1 .. 0 = {}
      OBVIOUS
    <3>5. OldIs(<<>>, <<>>, k, l, Len(owed))
      BY <2>1, <3>2, <3>3, <3>4 DEF OldIs
    <3> QED
      BY <2>1, <3>4, <3>5, ResetProbing
  <2>3. CASE l <= losses /\ \E ak, ao \in Nat : OldIs(pk, off, ak, ao, s)
    <3>1. PICK ak \in Nat, ao \in Nat : OldIs(pk, off, ak, ao, s)
      BY <2>3
    <3>2. Len(pk) = 0 /\ ak \in 0 .. Len(owed)
      <4>1. Len(pk) \in Nat /\ Len(pk) <= 0 /\ ak \in 0 .. s
        BY <2>1, <3>1 DEF OldIs
      <4> QED
        BY <1>2, <1>3, <1>5, <4>1
    <3>3. 1 .. Len(pk) = {}
      BY <3>2
    <3>4. OldIs(pk, off, ak, ao, Len(owed))
      BY <3>1, <3>2, <3>3 DEF OldIs
    <3> QED
      BY <2>1, <3>2, <3>4, ResetProbing
  <2> QED
    BY <1>3, <2>2, <2>3
<1> QED
  BY <1>4, <1>5 DEF Probing, Phase

-----------------------------------------------------------------------------
(* Every step.                                                             *)

LEMMA StillSame ==
  ASSUME Common, UNCHANGED vars
  PROVE  /\ Common' /\ (InStep => InStep') /\ (Probing => Probing')
<1>1. UNCHANGED <<send_buffer, send_status, send_bit, send_buf, packet_id, up, adapterVars, down, recv_status,
                  recv_data, recv_length, read_buffer, waiting, fresh, owed, stale, tag, performed, losses, sendVars>>
      /\ UNCHANGED <<a_state, a_data, a_length, a_recv_id, a_send_id>>
  BY DEF vars, sendVars, recvVars, clientVars, adapterVars, faultVars
<1>2. Ix' = Ix
  BY <1>1 DEF Ix
<1>3. TypeOK' /\ OwedOK' /\ SenderOK'
  BY <1>1, <1>2 DEF Common, TypeOK, OwedOK, SenderOK, Parts
<1>4. DownOK'
  BY <1>1, DownKept DEF Common
<1>5. InStep => InStep'
  BY <1>1, <1>2, InStepKept DEF Common
<1>6. ASSUME Probing PROVE Probing'
  <2>1. stale \in Nat /\ up \in Seq(Bytes) /\ Len(up) \in Nat
    BY <1>6, PhaseIs
  <2>2. PICK pk \in Seq(Nat), off \in Seq(Nat), l \in Nat, s \in Nat :
           /\ s = stale /\ NewIs(Len(pk), l)
           /\ \/ l <= losses /\ \E ak, ao \in Nat : OldIs(pk, off, ak, ao, s)
              \/ Len(pk) = 0 /\ Met(l)
    BY <1>6 DEF Probing, Line
  <2>3. Fetched' = Fetched
    BY <1>1, <1>2 DEF Fetched, Last, Parts, SentOff
  <2>4. NewIs(Len(pk), l)' /\ s = stale' /\ (l <= losses => l <= losses')
    BY <1>1, <2>2, <2>3 DEF NewIs
  <2>5. ASSUME NEW ak \in Nat, NEW ao \in Nat, OldIs(pk, off, ak, ao, s) PROVE OldIs(pk, off, ak, ao, s)'
    BY <1>1, <2>1, <2>2, <2>5, OldKept
  <2>6. Met(l) => Met(l)'
    BY <1>1 DEF Met, Parts
  <2>7. Line'
    <3>1. CASE Len(pk) = 0 /\ Met(l)
      BY <2>4, <2>6, <3>1, LineMet
    <3>2. CASE l <= losses /\ \E ak, ao \in Nat : OldIs(pk, off, ak, ao, s)
      <4>1. PICK ak \in Nat, ao \in Nat : OldIs(pk, off, ak, ao, s)'
        BY <2>5, <3>2
      <4> QED
        BY <2>4, <3>2, <4>1, LineOld
    <3> QED
      BY <2>2, <3>1, <3>2
  <2> QED
    BY <1>1, <1>2, <1>6, <2>7 DEF Probing, Phase
<1> QED
  BY <1>3, <1>4, <1>5, <1>6 DEF Common

LEMMA InStepStep ==
  ASSUME LinkInv, WINDOW <= IDS, [Next]_vars, ~Reset
  PROVE  LinkInv'
<1>1. CASE Put("r") \/ Put("w")
  BY <1>1, PutInv
<1>2. CASE Take
  BY <1>2, TakeInv
<1>3. CASE Send
  BY <1>3, SendHeadInv, SendMoreInv DEF Send
<1>4. CASE onRecv
  BY <1>4, PassInv, AcceptInv
<1>5. CASE Receive
  BY <1>5, ReceiveInv
<1>6. CASE Lose
  BY <1>6, LoseInv
<1>7. CASE UNCHANGED vars
  BY <1>7, StillSame DEF LinkInv
<1> QED
  BY <1>1, <1>2, <1>3, <1>4, <1>5, <1>6, <1>7 DEF Next

(* The byte that ends the packet awaited after a reset ends one from       *)
(* before it, or the first fetch.                                          *)
LEMMA ProbeAccept ==
  ASSUME Common, Probing, losses <= 2, WINDOW <= IDS, onRecv, Accepts(Head(up))
  PROVE  \/ /\ Common' /\ Probing' /\ Len(owed) >= 1 /\ stale >= 1 /\ owed[1].rw = "w"
            /\ performed' = owed[1] /\ owed' = SubSeq(owed, 2, Len(owed))
            /\ stale' = (IF stale > 1 THEN stale - 1 ELSE 0) /\ read_buffer = <<>>
         \/ /\ Common' /\ InStep' /\ Len(owed) = stale + 1 /\ owed[stale + 1].rw = "r"
            /\ performed' = owed[stale + 1] /\ owed' = <<>> /\ owed' = SubSeq(owed, stale + 2, Len(owed))
            /\ stale' = 0 /\ waiting' = TRUE /\ read_buffer' = <<>>
<1>1. PICK pk \in Seq(Nat), off \in Seq(Nat), l \in Nat, s \in Nat :
         /\ s = stale /\ NewIs(Len(pk), l)
         /\ \/ l <= losses /\ \E ak, ao \in Nat : OldIs(pk, off, ak, ao, s)
            \/ Len(pk) = 0 /\ Met(l)
  BY DEF Probing, Line
<1>2. Len(pk) = 0 \/ Len(pk) >= 1
  OBVIOUS
<1>3. CASE Len(pk) = 0
  <2>1. NewIs(0, l) /\ (l <= losses \/ Met(l))
    BY <1>1, <1>3
  <2> QED
    BY <2>1, ProbeAcceptFetch
<1>4. CASE Len(pk) >= 1
  <2>1. PICK ak \in Nat, ao \in Nat : l <= losses /\ OldIs(pk, off, ak, ao, s)
    BY <1>1, <1>4
  <2> QED
    BY <1>1, <1>4, <2>1, ProbeAcceptOld
<1> QED
  BY <1>2, <1>3, <1>4

LEMMA ProbeStep ==
  ASSUME Common, Probing, losses <= 2, WINDOW <= IDS, [Next]_vars, ~Reset
  PROVE  Common' /\ (InStep' \/ Probing')
<1>0. down = <<>> /\ read_buffer = <<>>
  BY PhaseIs
<1>1. CASE Put("r") \/ Put("w")
  BY <1>1, PutCommon, ProbePut
<1>2. ~Take /\ ~Receive
  BY <1>0 DEF Take, Receive
<1>3. CASE Send
  BY <1>3, ProbeSend
<1>4. CASE onRecv
  BY <1>4, ProbePass, ProbeAccept
<1>5. CASE Lose
  BY <1>5, ProbeLose
<1>6. CASE UNCHANGED vars
  BY <1>6, StillSame
<1> QED
  BY <1>1, <1>2, <1>3, <1>4, <1>5, <1>6 DEF Next

(* The inductive invariant: in step, or probing since the last reset.      *)
LinkOK ==
    /\ Common /\ resets \in Nat
    /\ InStep \/ (resets # 0 /\ Probing)

(* After a reset three bytes are one too many: the head, the channel and   *)
(* the length of the first fetch, without which its data would go on the   *)
(* end of a packet that the reset has cut off.                             *)
Mild == resets = 0 \/ (~MID_READ /\ losses <= 2)

LEMMA ResetsIs ==
  ASSUME [Next]_vars, ~Reset
  PROVE  resets' = resets
BY DEF Next, Put, Take, Send, onRecv, Receive, Lose, vars, faultVars

LEMMA LinkStep ==
  ASSUME LinkOK, WINDOW <= IDS, [Next]_vars, Mild, Mild'
  PROVE  LinkOK'
<1>1. CASE Reset
  <2>1. resets' = resets + 1
    BY <1>1 DEF Reset
  <2>2. resets' # 0 /\ resets' \in Nat
    BY <2>1 DEF LinkOK
  <2>3. ~MID_READ
    BY <2>2 DEF Mild
  <2>4. Common'
    BY <1>1, <2>3, ResetCommon DEF LinkOK
  <2>5. Probing'
    BY <1>1, <2>3, ResetInStep, ResetAgain DEF LinkOK
  <2> QED
    BY <2>2, <2>4, <2>5 DEF LinkOK
<1>2. CASE ~Reset /\ InStep
  BY <1>2, InStepStep, ResetsIs DEF LinkOK, LinkInv
<1>3. CASE ~Reset /\ resets # 0 /\ Probing
  BY <1>3, ProbeStep, ResetsIs DEF LinkOK, Mild
<1> QED
  BY <1>1, <1>2, <1>3 DEF LinkOK

-----------------------------------------------------------------------------
(* The refinement.                                                         *)

LEMMA OutstandingIs ==
  /\ read_buffer = <<>> /\ ~(waiting /\ owed = <<>>) => Outstanding = <<>>
  /\ waiting /\ owed = <<>> /\ read_buffer = <<>> => Outstanding = <<performed>>
  /\ read_buffer = <<Whole(performed, RESPONSE_PARTS)>> => Outstanding = <<performed>>
<1>1. ASSUME read_buffer = <<Whole(performed, RESPONSE_PARTS)>> PROVE Outstanding = <<performed>>
  <2>1. read_buffer # <<>> /\ read_buffer[1] = Whole(performed, RESPONSE_PARTS)
    BY <1>1
  <2>2. read_buffer[1][1] = DataByte(performed, 1)
    BY <2>1, ConstantsAre DEF Whole
  <2>3. read_buffer[1][1].of = performed
    BY <2>2 DEF DataByte
  <2> QED
    BY <2>1, <2>3 DEF Outstanding
<1> QED
  BY <1>1 DEF Outstanding

LEMMA InitRefines == Init => Channel!Init
BY OutstandingIs DEF Init, Channel!Init

LEMMA OutstandingSame ==
  ASSUME UNCHANGED <<read_buffer, waiting, owed, performed>>
  PROVE  Outstanding' = Outstanding
BY DEF Outstanding, Whole

LEMMA PutRefines ==
  ASSUME Common, NEW rw \in {"r", "w"}, Put(rw)
  PROVE  Channel!Next
<1>1. read_buffer = <<>> /\ ~waiting
  BY DEF Put, Common, DownOK
<1>2. Outstanding = <<>>
  BY <1>1, OutstandingIs
<1>3. PICK m \in Request : owed' = Append(owed, m) /\ UNCHANGED <<stale, performed, read_buffer>>
  BY DEF Put, Common, TypeOK, Request
<1>4. owed' # <<>>
  <2>1. owed \in Seq(Request)
    BY DEF Common, TypeOK
  <2> QED
    BY <1>3, <2>1
<1>5. Outstanding' = <<>>
  BY <1>1, <1>3, <1>4 DEF Outstanding
<1>6. Channel!Put(m)
  BY <1>2, <1>3, <1>5 DEF Channel!Put
<1> QED
  BY <1>6 DEF Channel!Next

LEMMA TakeRefines ==
  ASSUME Common, Take
  PROVE  Channel!Next
<1>1. read_buffer = <<Whole(performed, RESPONSE_PARTS)>> /\ owed = <<>>
  BY TakeCommon
<1>2. Outstanding = <<performed>>
  BY <1>1, OutstandingIs
<1>3. read_buffer' = <<>> /\ waiting' = FALSE /\ UNCHANGED <<owed, stale, performed>>
  BY <1>1 DEF Take
<1>4. Outstanding' = <<>>
  BY <1>3 DEF Outstanding
<1>5. Channel!Take
  BY <1>2, <1>3, <1>4 DEF Channel!Take
<1> QED
  BY <1>5 DEF Channel!Next

LEMMA ReceiveRefines ==
  ASSUME Common, Receive
  PROVE  UNCHANGED Channel!channelVars
<1>1. /\ waiting /\ owed = <<>> /\ read_buffer = <<>>
      /\ read_buffer' = <<>> \/ read_buffer' = <<Whole(performed, RESPONSE_PARTS)>>
  BY ReceiveCommon
<1>2. UNCHANGED <<waiting, owed, stale, performed>>
  BY DEF Receive, clientVars
<1>3. Outstanding = <<performed>>
  BY <1>1, OutstandingIs
<1>4. CASE read_buffer' = <<>>
  BY <1>1, <1>2, <1>3, <1>4 DEF Outstanding, Channel!channelVars
<1>5. CASE read_buffer' = <<Whole(performed, RESPONSE_PARTS)>>
  <2>1. read_buffer' # <<>> /\ read_buffer'[1] = Whole(performed, RESPONSE_PARTS)
    BY <1>5
  <2>2. read_buffer'[1][1] = DataByte(performed, 1)
    BY <2>1, ConstantsAre DEF Whole
  <2>3. read_buffer'[1][1].of = performed
    BY <2>2 DEF DataByte
  <2>4. Outstanding' = <<performed>>
    BY <2>1, <2>3 DEF Outstanding, Whole
  <2> QED
    BY <1>2, <1>3, <2>4 DEF Channel!channelVars
<1> QED
  BY <1>1, <1>4, <1>5

LEMMA ResetRefines ==
  ASSUME Common, Reset, ~MID_READ
  PROVE  Channel!Next
<1>1. read_buffer' = <<>> /\ waiting' = FALSE /\ stale' = Len(owed) /\ UNCHANGED <<owed, performed>>
  BY ResetCommon
<1>2. Outstanding' = <<>>
  BY <1>1 DEF Outstanding
<1>3. Channel!Reset
  BY <1>1, <1>2 DEF Channel!Reset
<1> QED
  BY <1>3 DEF Channel!Next

(* The Adapter performs the first of the requests owed.                    *)
LEMMA AcceptRefines ==
  ASSUME LinkInv, WINDOW <= IDS, onRecv, Accepts(Head(up))
  PROVE  Channel!Next
<1>0. TypeOK /\ OwedOK /\ DownOK /\ stale = 0
  BY DEF LinkInv, Common, InStep
<1>1. /\ Len(owed) >= 1 /\ performed' = owed[1] /\ owed' = SubSeq(owed, 2, Len(owed)) /\ stale' = 0
      /\ owed[1].rw = "r" => waiting /\ Len(owed) = 1
      /\ read_buffer = <<>>
  BY AcceptCommon
<1>2. owed \in Seq(Request) /\ Len(owed) \in Nat /\ 1 \in 1 .. Len(owed) /\ owed # <<>>
  BY <1>0, <1>1 DEF TypeOK
<1>3. Outstanding = <<>>
  BY <1>1, <1>2, OutstandingIs
<1>4. read_buffer' = <<>> /\ waiting' = waiting
  BY <1>1 DEF onRecv
<1>5. Len(owed') = Len(owed) - 1 /\ owed' \in Seq(Request)
  BY <1>1, <1>2, BehindFirst
<1>6. Outstanding' = IF owed[1].rw = "r" THEN <<owed[1]>> ELSE <<>>
  <2>1. CASE owed[1].rw = "r"
    <3>0. Len(owed') = 0
      BY <1>1, <1>5, <2>1
    <3>1. owed' = <<>> /\ waiting'
      <4>1. owed' = <<>>
        BY <1>5, <3>0
      <4>2. waiting'
        BY <1>1, <1>4, <2>1, Zenon
      <4> QED
        BY <4>1, <4>2
    <3> QED
      BY <1>1, <1>4, <2>1, <3>1 DEF Outstanding
  <2>2. CASE owed[1].rw # "r"
    <3>1. ~(waiting' /\ owed' = <<>>)
      <4> SUFFICES ASSUME waiting, owed' = <<>> PROVE FALSE
        BY <1>4
      <4>1. Len(owed) = 1
        BY <1>2, <1>5
      <4> QED
        BY <1>0, <1>2, <2>2, <4>1 DEF OwedOK
    <3> QED
      BY <1>4, <2>2, <3>1 DEF Outstanding
  <2> QED
    BY <2>1, <2>2
<1>7. Channel!Perform
  <2>1. /\ 1 - 1 <= stale
        /\ performed' = owed[1]
        /\ owed' = SubSeq(owed, 1 + 1, Len(owed))
        /\ stale' = IF stale > 1 THEN stale - 1 ELSE 0
        /\ Outstanding' = IF owed[1].rw = "r" /\ 1 > stale THEN Append(Outstanding, owed[1]) ELSE Outstanding
    BY <1>0, <1>1, <1>3, <1>6
  <2> QED
    BY <1>2, <2>1 DEF Channel!Perform
<1> QED
  BY <1>7 DEF Channel!Next

(* It performs the oldest, or the first fetch and none of those before it. *)
LEMMA ProbeAcceptRefines ==
  ASSUME Common, Probing, losses <= 2, WINDOW <= IDS, onRecv, Accepts(Head(up))
  PROVE  Channel!Next
<1>1. /\ stale \in Nat /\ Len(owed) \in Nat /\ read_buffer = <<>> /\ ~(waiting /\ owed = <<>>)
  BY PhaseIs
<1>2. Outstanding = <<>>
  BY <1>1, OutstandingIs
<1>3. read_buffer' = read_buffer /\ waiting' = waiting
  BY DEF onRecv
<1>4. CASE /\ Common' /\ Probing' /\ Len(owed) >= 1 /\ stale >= 1 /\ owed[1].rw = "w"
           /\ performed' = owed[1] /\ owed' = SubSeq(owed, 2, Len(owed))
           /\ stale' = (IF stale > 1 THEN stale - 1 ELSE 0) /\ read_buffer = <<>>
  <2>1. ~(waiting' /\ owed' = <<>>)
    <3>1. stale' \in Nat
      BY <1>1, <1>4
    <3>2. Len(owed') = stale' + 1 => owed' # <<>>
      BY <3>1
    <3>3. waiting' => Len(owed') = stale' + 1
      BY <1>4 DEF Probing, Phase
    <3> QED
      BY <3>2, <3>3, Zenon
  <2>2. Outstanding' = <<>>
    BY <1>3, <1>4, <2>1 DEF Outstanding
  <2>3. /\ 1 - 1 <= stale /\ 1 \in 1 .. Len(owed)
        /\ performed' = owed[1]
        /\ owed' = SubSeq(owed, 1 + 1, Len(owed))
        /\ stale' = IF stale > 1 THEN stale - 1 ELSE 0
        /\ Outstanding' = IF owed[1].rw = "r" /\ 1 > stale THEN Append(Outstanding, owed[1]) ELSE Outstanding
    BY <1>1, <1>2, <1>4, <2>2
  <2>4. Channel!Perform
    BY <2>3 DEF Channel!Perform
  <2> QED
    BY <2>4 DEF Channel!Next
<1>5. CASE /\ Common' /\ InStep' /\ Len(owed) = stale + 1 /\ owed[stale + 1].rw = "r"
           /\ performed' = owed[stale + 1] /\ owed' = <<>> /\ owed' = SubSeq(owed, stale + 2, Len(owed))
           /\ stale' = 0 /\ waiting' = TRUE /\ read_buffer' = <<>>
  <2>1. PICK k \in 1 .. Len(owed) : k = stale + 1 /\ k - 1 <= stale /\ k + 1 = stale + 2 /\ k > stale /\ ~(stale > k)
    BY <1>1, <1>5
  <2>2. Outstanding' = <<owed[k]>>
    BY <1>5, <2>1 DEF Outstanding
  <2>3. /\ performed' = owed[k]
        /\ owed' = SubSeq(owed, k + 1, Len(owed))
        /\ stale' = IF stale > k THEN stale - k ELSE 0
        /\ Outstanding' = IF owed[k].rw = "r" /\ k > stale THEN Append(Outstanding, owed[k]) ELSE Outstanding
    <3>1. Append(Outstanding, owed[k]) = <<owed[k]>>
      BY <1>2
    <3> QED
      BY <1>5, <2>1, <2>2, <3>1
  <2>4. Channel!Perform
    BY <2>1, <2>3 DEF Channel!Perform
  <2> QED
    BY <2>4 DEF Channel!Next
<1> QED
  BY <1>4, <1>5, ProbeAccept

LEMMA StepRefines ==
  ASSUME LinkOK, WINDOW <= IDS, [Next]_vars, Mild, Mild'
  PROVE  [Channel!Next]_(Channel!channelVars)
<1>0. Common
  BY DEF LinkOK
<1>1. ASSUME onRecv, Accepts(Head(up)) PROVE Channel!Next
  <2>1. CASE InStep
    BY <1>0, <1>1, <2>1, AcceptRefines DEF LinkInv
  <2>2. CASE resets # 0 /\ Probing
    BY <1>0, <1>1, <2>2, ProbeAcceptRefines DEF Mild
  <2> QED
    BY <2>1, <2>2 DEF LinkOK
<1>2. ASSUME onRecv, ~Accepts(Head(up)) PROVE UNCHANGED Channel!channelVars
  <2>1. UNCHANGED <<performed, owed, stale, waiting>>
    BY <1>0, <1>2, PassCommon
  <2>2. UNCHANGED read_buffer
    BY <1>2 DEF onRecv
  <2> QED
    BY <2>1, <2>2, OutstandingSame DEF Channel!channelVars
<1>3. ASSUME Send \/ Lose \/ UNCHANGED vars PROVE UNCHANGED Channel!channelVars
  <2>1. UNCHANGED <<read_buffer, waiting, owed, stale, performed>>
    BY <1>3 DEF Send, Lose, vars, clientVars
  <2> QED
    BY <2>1, OutstandingSame DEF Channel!channelVars
<1>4. ASSUME Reset PROVE Channel!Next
  <2>1. resets' # 0
    BY <1>4 DEF Reset, LinkOK
  <2> QED
    BY <1>0, <1>4, <2>1, ResetRefines DEF Mild
<1> QED
  BY <1>0, <1>1, <1>2, <1>3, <1>4, PutRefines, TakeRefines, ReceiveRefines DEF Next

LEMMA InitOK == Init => LinkOK
BY InitInv DEF LinkOK, LinkInv, Init

(* Adapter::onRecv and multchan_comm keep in step whatever bytes the UARTs *)
(* drop, until the button is pressed; and from then on, unless three bytes *)
(* are lost, they are in step again or the FPGA waits for its first fetch. *)
THEOREM LinkKeepsStep ==
  ASSUME WINDOW <= IDS
  PROVE  Spec /\ []Mild => []LinkOK
<1>1. LinkOK /\ [Next]_vars /\ Mild /\ Mild' => LinkOK'
  BY LinkStep
<1> QED
  BY <1>1, InitOK, PTL DEF Spec

(* Every behaviour of the link in which the button is not pressed, or fewer*)
(* than three bytes are lost and no response is cut off, is one of the two *)
(* queues: data_handler performs whole requests, the oldest of those owed  *)
(* (or, after a reset, the first new one), and the response the receiver   *)
(* of multchan_comm stores is whole and that of the request just performed.*)
THEOREM MildLinkImplementsChannel ==
  ASSUME WINDOW <= IDS
  PROVE  Spec /\ []Mild => ImplementsChannel
<1>1. LinkOK /\ [Next]_vars /\ Mild /\ Mild' => [Channel!Next]_(Channel!channelVars)
  BY StepRefines
<1> QED
  BY <1>1, InitRefines, LinkKeepsStep, PTL DEF Spec, ImplementsChannel, Channel!Spec

(* What the bounds allow. *)
Faults == losses \in Nat /\ resets \in Nat /\ losses + resets <= FAULTS /\ resets <= RESETS

LEMMA FaultsStep ==
  ASSUME Faults, [Next]_vars
  PROVE  Faults'
<1>0. FAULTS \in Nat /\ RESETS \in Nat
  BY LinkAssumption
<1>1. CASE Lose
  BY <1>0, <1>1 DEF Faults, Lose
<1>2. CASE Reset
  BY <1>0, <1>2 DEF Faults, Reset
<1>3. CASE UNCHANGED <<losses, resets>>
  BY <1>3 DEF Faults
<1> QED
  BY <1>1, <1>2, <1>3 DEF Next, Put, Take, Send, onRecv, Receive, vars, faultVars

(* Link implements PacketChannel, for every value of the constants without *)
(* resets, and with any number of them among at most three faults: what    *)
(* onRecv performs and multchan_comm stores is never damaged, never behind *)
(* a lost request and never out of order.                                  *)
THEOREM LinkImplementsChannel ==
  ASSUME WINDOW <= IDS, RESETS = 0 \/ (~MID_READ /\ FAULTS <= 3)
  PROVE  Spec => ImplementsChannel
<1>1. Init => Faults
  BY LinkAssumption DEF Init, Faults
<1>2. Faults /\ [Next]_vars => Faults'
  BY FaultsStep
<1>3. Faults => Mild
  BY LinkAssumption DEF Faults, Mild
<1> QED
  BY <1>1, <1>2, <1>3, MildLinkImplementsChannel, PTL DEF Spec
=============================================================================
