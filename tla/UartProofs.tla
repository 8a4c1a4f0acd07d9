----------------------------- MODULE UartProofs -----------------------------
(***************************************************************************)
(* Theorems about uart_comm and the ring buffer it is built with.          *)
(***************************************************************************)
EXTENDS UartComm, Fifo, Integers, SequenceTheorems, TLAPS

(***************************************************************************)
(* Whatever the lengths of words and bits, and however the two clocks slip *)
(* against each other within half a bit, frames are read as they were sent.*)
(***************************************************************************)
Half == T \div 2

(* The bit of a frame that is on the wire, the start bit being number 0,   *)
(* and the one the receiver samples next.                                  *)
SendIx == CASE send_status = "DATA" -> send_bit
            [] send_status = "VALID" -> BITS
            [] send_status = "END" -> BITS + 1
            [] send_status = "IDLE" -> BITS + 2
RecvIx == CASE recv_status = "BEGIN" -> 0
            [] recv_status = "DATA" -> recv_bit + 1
            [] recv_status = "VALID" -> BITS + 1
            [] recv_status = "END" -> BITS + 2

(* Edges since that bit was put on the wire, and since it would have been  *)
(* if the clocks had not slipped.                                          *)
Sent == IF counter = 0 THEN T ELSE counter
Seen == IF recv_counter <= Half THEN recv_counter ELSE recv_counter - T

Frames == [byte : Octet, damaged : BOOLEAN]

UartTypeOK ==
  /\ send_buffer \in Seq(Octet) /\ Len(send_buffer) <= BUFFER
  /\ counter \in 0 .. T - 1 /\ send_status \in {"IDLE", "DATA", "VALID", "END"}
  /\ send_bit \in 0 .. BITS - 1 /\ send_parity \in Bit /\ send_data \in Octet
  /\ Tx \in Bit /\ noise \in Bit /\ flipped \in BOOLEAN
  /\ recv_status \in {"IDLE", "BEGIN", "DATA", "VALID", "END"}
  /\ recv_bit \in 0 .. BITS - 1 /\ recv_parity \in Bit
  /\ recv_counter \in 0 .. T - 1 /\ recv_clock \in BOOLEAN /\ recv_data \in Octet
  /\ recv_buffer \in Seq(Octet) /\ Len(recv_buffer) <= BUFFER
  /\ ahead \in 0 .. LATE + EARLY /\ line \in Seq(Frames)

(* The receiver is idle until the edge after the one at which a frame      *)
(* starts; then it is at the bit that is on the wire or at the next one.   *)
Sync ==
  IF recv_status = "IDLE"
  THEN /\ ~recv_clock
       /\ \/ send_status = "IDLE" /\ ahead \in {LATE - 1, LATE}
          \/ send_status = "DATA" /\ send_bit = 0 /\ counter = 1 /\ ahead = LATE - 1
  ELSE /\ recv_clock
       /\ \/ RecvIx = SendIx /\ ahead = LATE + 1 + Seen - Sent
          \/ RecvIx = SendIx + 1 /\ ahead = LATE + 1 + T + Seen - Sent
       /\ recv_status = "BEGIN" => recv_counter <= Half

(* What is on the wire. *)
OnWire ==
  /\ noise = 1 => flipped
  /\ send_status = "DATA" /\ send_bit = 0 =>
        Tx = 0 /\ noise = 0 /\ ~flipped /\ send_parity = 0
  /\ send_status = "DATA" /\ send_bit # 0 => Tx = send_data[send_bit - 1]
  /\ send_status = "VALID" => Tx = send_data[BITS - 1]
  /\ send_status = "END" => Tx = send_parity
  /\ send_status = "IDLE" => Tx = 1 /\ noise = 0

(* One byte is on the line, from its start bit until its parity is sampled.*)
UnderWay ==
  recv_status \in {"BEGIN", "DATA", "VALID"} \/ (recv_status = "IDLE" /\ send_status # "IDLE")
OneFrame ==
  line = IF UnderWay THEN <<[byte |-> send_data, damaged |-> flipped]>> ELSE <<>>

(* What was received of it: the bits that were sent, and their parity,     *)
(* unless one was turned over.                                             *)
One(p) == IF p THEN 1 ELSE 0
Received ==
  recv_status \in {"DATA", "VALID"} =>
    /\ ~flipped => \A k \in 0 .. RecvIx - 2 : recv_data[k] = send_data[k]
    /\ RecvIx # SendIx => recv_parity = XorBit(send_parity, One(flipped))
    /\ RecvIx = SendIx => recv_parity =
          XorBit(IF send_status = "END" THEN send_parity ELSE XorBit(send_parity, Tx),
                 One(flipped /\ noise = 0))

UartInv == UartTypeOK /\ Sync /\ OnWire /\ OneFrame /\ Received

LEMMA HalfIs ==
  /\ Half \in Nat /\ 1 <= Half /\ Half + 1 < T /\ T <= 2 * Half + 1 /\ 2 * Half <= T
  /\ EARLY <= Half + 1 /\ LATE < T - Half /\ LATE \in Nat /\ 1 <= LATE /\ EARLY \in Nat
  /\ T \in Nat /\ BITS \in Nat /\ 1 <= BITS /\ BUFFER \in Nat /\ 1 <= BUFFER
BY UartAssumption, DriftAssumption DEF Half

LEMMA ModIs ==
  ASSUME NEW n \in Nat \ {0}, NEW k \in 0 .. n - 1
  PROVE  (k + 1) % n = (IF k = n - 1 THEN 0 ELSE k + 1) /\ (k + 1) % n \in 0 .. n - 1
<1>1. CASE k = n - 1
  BY <1>1
<1>2. CASE k # n - 1
  BY <1>2
<1> QED
  BY <1>1, <1>2

LEMMA XorIs ==
  \A a, b \in Bit : XorBit(a, b) \in Bit /\ XorBit(a, b) = IF a = b THEN 0 ELSE 1
BY DEF XorBit, Bit

LEMMA IxIs ==
  /\ send_status = "DATA" => SendIx = send_bit
  /\ send_status = "VALID" => SendIx = BITS
  /\ send_status = "END" => SendIx = BITS + 1
  /\ send_status = "IDLE" => SendIx = BITS + 2
  /\ recv_status = "BEGIN" => RecvIx = 0
  /\ recv_status = "DATA" => RecvIx = recv_bit + 1
  /\ recv_status = "VALID" => RecvIx = BITS + 1
  /\ recv_status = "END" => RecvIx = BITS + 2
BY DEF SendIx, RecvIx

LEMMA IxTypes ==
  ASSUME UartTypeOK
  PROVE  /\ SendIx \in 0 .. BITS + 2 /\ (recv_status # "IDLE" => RecvIx \in 0 .. BITS + 2)
         /\ Sent \in 1 .. T /\ Seen \in Int /\ Seen <= Half /\ Half + 1 - T <= Seen
         /\ Rx \in Bit
<1>1. SendIx \in 0 .. BITS + 2 /\ (recv_status # "IDLE" => RecvIx \in 0 .. BITS + 2)
  BY HalfIs, IxIs DEF UartTypeOK
<1>2. Sent \in 1 .. T
  BY HalfIs DEF UartTypeOK, Sent
<1>3. Seen \in Int /\ Seen <= Half /\ Half + 1 - T <= Seen
  BY HalfIs DEF UartTypeOK, Seen
<1>4. Rx \in Bit
  BY XorIs DEF Rx, UartTypeOK
<1> QED
  BY <1>1, <1>2, <1>3, <1>4

(* When the sender's counter comes round, the receiver has seen the bit    *)
(* that is on the wire.                                                    *)
LEMMA SenderActs ==
  ASSUME UartInv, counter = 0, ahead > IF recv_status = "IDLE" THEN LATE - 1 ELSE 0
  PROVE  /\ recv_status = "IDLE" => send_status = "IDLE" /\ ahead = LATE
         /\ recv_status # "IDLE" => /\ send_status # "IDLE" /\ RecvIx = SendIx + 1
                                    /\ ahead = LATE + 1 + Seen
         /\ send_status = "DATA" => recv_status = "DATA" /\ recv_bit = send_bit
         /\ send_status = "VALID" => recv_status = "VALID"
         /\ send_status = "END" => recv_status = "END"
<1>1. Sent = T /\ UartTypeOK /\ Sync
  BY DEF Sent, UartInv
<1>2. CASE recv_status = "IDLE"
  BY <1>1, <1>2, HalfIs DEF Sync, UartTypeOK
<1>3. CASE recv_status # "IDLE"
  <2>1. RecvIx = SendIx + 1 /\ ahead = LATE + 1 + Seen
    BY <1>1, <1>3, IxTypes, HalfIs DEF Sync, UartTypeOK
  <2> QED
    BY <1>1, <1>3, <2>1, HalfIs, IxIs DEF UartTypeOK
<1> QED
  BY <1>2, <1>3

(* When the receiver samples a bit, that bit is on the wire.               *)
LEMMA ReceiverActs ==
  ASSUME UartInv, recv_status # "IDLE", sample, ahead < LATE + EARLY
  PROVE  /\ RecvIx = SendIx /\ ahead = LATE + 1 + Half - Sent
         /\ recv_status = "BEGIN" => send_status = "DATA" /\ send_bit = 0 /\ Rx = 0
         /\ recv_status = "DATA" =>
               /\ Tx = send_data[recv_bit] /\ send_status \in {"DATA", "VALID"}
               /\ send_status = "DATA" => send_bit = recv_bit + 1
               /\ send_status = "VALID" <=> recv_bit = BITS - 1
         /\ recv_status = "VALID" => send_status = "END" /\ Tx = send_parity
         /\ recv_status = "END" => send_status = "IDLE" /\ Rx = 1
<1>1. UartTypeOK /\ Sync /\ OnWire /\ Seen = Half
  BY DEF UartInv, sample, Seen, Half
<1>2. RecvIx = SendIx /\ ahead = LATE + 1 + Half - Sent
  BY <1>1, IxTypes, HalfIs DEF Sync, UartTypeOK
<1>3. recv_status = "BEGIN" => send_status = "DATA" /\ send_bit = 0
  BY <1>1, <1>2, HalfIs, IxIs DEF UartTypeOK
<1>4. recv_status = "DATA" =>
        /\ send_status \in {"DATA", "VALID"}
        /\ send_status = "DATA" => send_bit = recv_bit + 1
        /\ send_status = "VALID" <=> recv_bit = BITS - 1
  BY <1>1, <1>2, HalfIs, IxIs DEF UartTypeOK
<1>5. recv_status = "DATA" => Tx = send_data[recv_bit]
  BY <1>1, <1>4, HalfIs DEF OnWire, UartTypeOK
<1>6. recv_status = "VALID" => send_status = "END"
  BY <1>1, <1>2, HalfIs, IxIs DEF UartTypeOK
<1>7. recv_status = "END" => send_status = "IDLE"
  BY <1>1, <1>2, HalfIs, IxIs DEF UartTypeOK
<1>8. Rx = XorBit(Tx, noise) /\ Tx \in Bit /\ noise \in Bit
  BY <1>1 DEF Rx, UartTypeOK
<1> QED
  BY <1>1, <1>2, <1>3, <1>4, <1>5, <1>6, <1>7, <1>8, XorIs DEF OnWire, Bit

-----------------------------------------------------------------------------
(* The sender's edges.                                                     *)

(* An edge of the sender's clock in a frame. *)
LEMMA SlipKept ==
  ASSUME UartTypeOK, Sync, recv_status # "IDLE", ahead' = ahead - 1, Sent' = Sent + 1,
         SendIx' = SendIx, RecvIx' = RecvIx, Seen' = Seen,
         UNCHANGED <<recv_status, recv_clock, recv_counter>>
  PROVE  Sync'
<1>1. /\ recv_clock /\ (recv_status = "BEGIN" => recv_counter <= Half)
      /\ \/ RecvIx = SendIx /\ ahead = LATE + 1 + Seen - Sent
         \/ RecvIx = SendIx + 1 /\ ahead = LATE + 1 + T + Seen - Sent
  BY DEF Sync
<1>2. LATE \in Int /\ T \in Int /\ Seen \in Int /\ Sent \in Int /\ ahead \in Int
  BY HalfIs, IxTypes DEF UartTypeOK
<1>3. \/ RecvIx' = SendIx' /\ ahead' = LATE + 1 + Seen' - Sent'
      \/ RecvIx' = SendIx' + 1 /\ ahead' = LATE + 1 + T + Seen' - Sent'
  <2> HIDE DEF SendIx, RecvIx, Seen, Sent
  <2> QED
    BY <1>1, <1>2
<1> QED
  BY <1>1, <1>3 DEF Sync

(* ... that puts a bit on the wire. *)
LEMMA SlipActs ==
  ASSUME UartTypeOK, recv_status # "IDLE", recv_clock, (recv_status = "BEGIN" => recv_counter <= Half),
         ahead = LATE + 1 + Seen, ahead' = ahead - 1, Sent' = 1,
         RecvIx' = SendIx', Seen' = Seen,
         UNCHANGED <<recv_status, recv_clock, recv_counter>>
  PROVE  Sync'
<1>1. LATE \in Int /\ Seen \in Int
  BY HalfIs, IxTypes
<1>2. RecvIx' = SendIx' /\ ahead' = LATE + 1 + Seen' - Sent'
  BY <1>1
<1> QED
  BY <1>2 DEF Sync

LEMMA CountEdge ==
  ASSUME UartInv, SenderEdge, counter # 0
  PROVE  UartInv' /\ UNCHANGED <<send_buffer, line, recv_buffer>>
<1>1. /\ counter' = (counter + 1) % T /\ ahead' = ahead - 1
      /\ ahead > IF recv_status = "IDLE" THEN LATE - 1 ELSE 0
      /\ UNCHANGED <<send_buffer, send_data, send_bit, send_parity, send_status, Tx, noise,
                     flipped, line, recvVars, recv_buffer>>
  BY DEF SenderEdge, SendEdge
<1>2. UartTypeOK /\ Sync /\ OnWire /\ OneFrame /\ Received
  BY DEF UartInv
<1>3. UartTypeOK'
  <2>1. counter' \in 0 .. T - 1 /\ ahead' \in 0 .. LATE + EARLY
    BY <1>1, <1>2, HalfIs DEF UartTypeOK
  <2> QED
    BY <1>1, <1>2, <2>1 DEF UartTypeOK, recvVars
<1>4. Sent' = Sent + 1 /\ Seen' = Seen /\ SendIx' = SendIx /\ RecvIx' = RecvIx
  <2>1. counter \in 0 .. T - 1 /\ T \in Nat \ {0}
    BY <1>2, HalfIs DEF UartTypeOK
  <2>2. counter' = IF counter = T - 1 THEN 0 ELSE counter + 1
    BY <1>1, <2>1, ModIs
  <2>3. Sent' = Sent + 1
    BY <2>1, <2>2 DEF Sent
  <2> QED
    BY <1>1, <2>3 DEF Seen, SendIx, RecvIx, recvVars
<1>5. Sync'
  <2>1. CASE recv_status = "IDLE"
    BY <1>1, <1>2, <2>1, HalfIs DEF Sync, recvVars, UartTypeOK
  <2>2. CASE recv_status # "IDLE"
    BY <1>1, <1>2, <1>4, <2>2, SlipKept DEF recvVars
  <2> QED
    BY <2>1, <2>2
<1>6. OnWire' /\ OneFrame'
  BY <1>1, <1>2 DEF OnWire, OneFrame, UnderWay, recvVars
<1>7. Received'
  BY <1>1, <1>2, <1>4 DEF Received, recvVars
<1> QED
  BY <1>1, <1>3, <1>5, <1>6, <1>7 DEF UartInv

(* ... at which it acts.                                                   *)
LEMMA ActEdge ==
  ASSUME UartInv, SenderEdge, counter = 0
  PROVE  /\ counter' = 1 /\ 1 \in 0 .. T - 1 /\ Sent' = 1 /\ Seen' = Seen /\ RecvIx' = RecvIx
         /\ ahead' = ahead - 1 /\ ahead' \in 0 .. LATE + EARLY
         /\ ahead > IF recv_status = "IDLE" THEN LATE - 1 ELSE 0
         /\ UNCHANGED <<recv_status, recv_bit, recv_parity, recv_counter, recv_clock, recv_data,
                        recv_buffer>>
         /\ StartBit \/ DataBit \/ ParityBit \/ StopBit \/ Idle
<1>1. /\ counter' = (counter + 1) % T /\ ahead' = ahead - 1
      /\ ahead > IF recv_status = "IDLE" THEN LATE - 1 ELSE 0
      /\ UNCHANGED <<recv_status, recv_bit, recv_parity, recv_counter, recv_clock, recv_data,
                     recv_buffer>>
      /\ StartBit \/ DataBit \/ ParityBit \/ StopBit \/ Idle
  BY DEF SenderEdge, SendEdge, recvVars
<1>2. counter' = 1 /\ 1 \in 0 .. T - 1
  BY <1>1, HalfIs
<1>3. ahead' \in 0 .. LATE + EARLY
  BY <1>1, HalfIs DEF UartInv, UartTypeOK
<1>4. Seen' = Seen /\ RecvIx' = RecvIx
  BY <1>1 DEF Seen, RecvIx
<1>5. Sent' = 1
  BY <1>2 DEF Sent
<1> QED
  BY <1>1, <1>2, <1>3, <1>4, <1>5

LEMMA StartBitStep ==
  ASSUME UartInv, SenderEdge, counter = 0, StartBit
  PROVE  UartInv' /\ Wires!Start
<1>1. UartTypeOK /\ Sync /\ OnWire /\ OneFrame
  BY DEF UartInv
<1>2. send_status = "IDLE" /\ recv_status = "IDLE" /\ ahead = LATE /\ line = <<>>
  BY <1>1, ActEdge, SenderActs DEF StartBit, OneFrame, UnderWay
<1>3. PICK b \in Octet : b = Head(send_buffer)
  BY <1>1 DEF StartBit, UartTypeOK
<1>4. /\ send_buffer # <<>> /\ send_buffer' = Tail(send_buffer) /\ send_data' = b
      /\ line' = Append(line, [byte |-> b, damaged |-> FALSE])
      /\ Tx' = 0 /\ noise' = 0 /\ flipped' = FALSE
      /\ send_status' = "DATA" /\ send_bit' = 0 /\ send_parity' = 0
  BY <1>3 DEF StartBit
<1>5. line' = <<[byte |-> b, damaged |-> FALSE]>>
  BY <1>2, <1>4
<1>6. UartTypeOK'
  <2>1. send_buffer' \in Seq(Octet) /\ Len(send_buffer') <= BUFFER
    BY <1>1, <1>4, HalfIs DEF UartTypeOK
  <2>2. line' \in Seq(Frames)
    BY <1>3, <1>5 DEF Frames
  <2>3. send_bit' \in 0 .. BITS - 1 /\ send_parity' \in Bit /\ Tx' \in Bit /\ noise' \in Bit
        /\ send_status' \in {"IDLE", "DATA", "VALID", "END"}
    BY <1>4, HalfIs DEF Bit
  <2>4. flipped' \in BOOLEAN
    BY <1>4, Zenon
  <2> QED
    BY <1>1, <1>3, <1>4, <2>1, <2>2, <2>3, <2>4, ActEdge DEF UartTypeOK
<1>7. Sync'
  BY <1>1, <1>2, <1>4, ActEdge DEF Sync
<1>8. OnWire' /\ OneFrame' /\ Received'
  <2>1. OnWire'
    BY <1>4 DEF OnWire
  <2>2. UnderWay' /\ recv_status' = "IDLE"
    BY <1>2, <1>4, ActEdge DEF UnderWay
  <2>3. line' = <<[byte |-> send_data', damaged |-> flipped']>>
    BY <1>4, <1>5, Zenon
  <2> QED
    BY <2>1, <2>2, <2>3 DEF OneFrame, Received
<1>9. Wires!Start
  BY <1>3, <1>4, ActEdge DEF Wires!Start
<1> QED
  BY <1>6, <1>7, <1>8, <1>9 DEF UartInv

LEMMA DamagedIs ==
  ASSUME NEW b, NEW d, NEW e
  PROVE  [[byte |-> b, damaged |-> d] EXCEPT !.damaged = e] = [byte |-> b, damaged |-> e]
<1> DEFINE f == [byte |-> b, damaged |-> d]
           g == [f EXCEPT !.damaged = e]
<1>1. f \in [byte : {b}, damaged : {d, e}]
  OBVIOUS
<1>2. g \in [byte : {b}, damaged : {d, e}] /\ g.damaged = e /\ g.byte = b
  BY <1>1
<1>3. g = [byte |-> g.byte, damaged |-> g.damaged]
  BY <1>2
<1> QED
  BY <1>2, <1>3

(* While a frame is sent, the wire turns over a bit or it does not.        *)
LEMMA WireStep ==
  ASSUME UartInv, Wire, UnderWay, UNCHANGED <<send_buffer, recv_buffer, send_data>>, UnderWay'
  PROVE  /\ OneFrame' /\ line' \in Seq(Frames) /\ noise' \in Bit /\ flipped' \in BOOLEAN
         /\ (noise' = 1 => flipped') /\ (flipped => flipped')
         /\ One(flipped' /\ noise' = 0) = One(flipped)
         /\ Wires!Damage \/ UNCHANGED <<send_buffer, line, recv_buffer>>
<1>1. UartTypeOK /\ line = <<[byte |-> send_data, damaged |-> flipped]>>
  BY DEF UartInv, OneFrame
<1>2. CASE noise' = 0 /\ UNCHANGED <<flipped, line>>
  BY <1>1, <1>2 DEF OneFrame, UartTypeOK, Bit, One
<1>3. CASE /\ ~flipped /\ noise' = 1 /\ flipped' = TRUE
           /\ line' = [line EXCEPT ![Len(line)].damaged = TRUE]
  <2>1. Len(line) = 1 /\ line # <<>>
    BY <1>1
  <2>2. line' = <<[byte |-> send_data, damaged |-> TRUE]>>
    <3>1. PICK f, g : f = [byte |-> send_data, damaged |-> flipped]
                      /\ g = [byte |-> send_data, damaged |-> TRUE]
      OBVIOUS
    <3>2. [f EXCEPT !.damaged = TRUE] = g
      BY <3>1, DamagedIs, Zenon
    <3>3. line = <<f>>
      BY <1>1, <3>1, Zenon
    <3>4. line' = [line EXCEPT ![1].damaged = TRUE]
      BY <1>3, <2>1, Zenon
    <3>5. line' = [<<f>> EXCEPT ![1] = g]
      BY <3>2, <3>3, <3>4
    <3>6. line' = <<g>>
      BY <3>5
    <3> QED
      BY <3>1, <3>6, Zenon
  <2>3. OneFrame' /\ line' \in Seq(Frames)
    <3>1. line' = <<[byte |-> send_data', damaged |-> flipped']>>
      BY <1>3, <2>2, Zenon
    <3>2. [byte |-> send_data, damaged |-> TRUE] \in Frames
      BY <1>1 DEF Frames, UartTypeOK
    <3> QED
      <4>1. OneFrame'
        BY <3>1, Zenon DEF OneFrame
      <4> QED
        BY <2>2, <3>2, <4>1
  <2>4. Wires!Damage
    BY <1>3, <2>1 DEF Wires!Damage
  <2> QED
    BY <1>3, <2>3, <2>4 DEF Bit, One
<1> QED
  BY <1>2, <1>3 DEF Wire

LEMMA DataBitStep ==
  ASSUME UartInv, SenderEdge, counter = 0, DataBit
  PROVE  UartInv' /\ (Wires!Damage \/ UNCHANGED <<send_buffer, line, recv_buffer>>)
<1>1. UartTypeOK /\ Sync /\ OnWire /\ OneFrame /\ Received
  BY DEF UartInv
<1>2. PICK d \in Bit : d = send_data[send_bit]
  BY <1>1 DEF UartTypeOK, Octet
<1>3. /\ send_status = "DATA" /\ Tx' = d /\ send_parity' = XorBit(send_parity, d)
      /\ send_bit' = (send_bit + 1) % BITS /\ Wire
      /\ send_status' = IF send_bit = BITS - 1 THEN "VALID" ELSE "DATA"
      /\ UNCHANGED <<send_buffer, send_data>>
  BY <1>2 DEF DataBit
<1>4. /\ recv_status = "DATA" /\ recv_bit = send_bit /\ RecvIx = SendIx + 1
      /\ ahead = LATE + 1 + Seen /\ RecvIx = send_bit + 1
  BY <1>1, <1>3, ActEdge, SenderActs, IxIs
<1>5. UnderWay /\ UnderWay'
  BY <1>4, ActEdge DEF UnderWay
<1>6. /\ OneFrame' /\ line' \in Seq(Frames) /\ noise' \in Bit /\ flipped' \in BOOLEAN
      /\ (noise' = 1 => flipped') /\ (flipped => flipped')
      /\ One(flipped' /\ noise' = 0) = One(flipped)
      /\ Wires!Damage \/ UNCHANGED <<send_buffer, line, recv_buffer>>
  BY <1>3, <1>5, ActEdge, WireStep
<1>7. /\ send_bit' = IF send_bit = BITS - 1 THEN 0 ELSE send_bit + 1
      /\ send_bit \in 0 .. BITS - 1 /\ send_bit' \in 0 .. BITS - 1
  <2>1. BITS \in Nat \ {0} /\ send_bit \in 0 .. BITS - 1
    BY <1>1, HalfIs DEF UartTypeOK
  <2> QED
    BY <1>3, <2>1, ModIs
<1>8. UartTypeOK'
  BY <1>1, <1>2, <1>3, <1>6, <1>7, ActEdge, XorIs DEF UartTypeOK
<1>9. SendIx' = send_bit + 1
  BY <1>3, <1>7, HalfIs DEF SendIx
<1>10. Sync'
  BY <1>1, <1>4, <1>9, ActEdge, SlipActs DEF Sync
<1>11. OnWire'
  BY <1>2, <1>3, <1>6, <1>7, HalfIs DEF OnWire
<1>12. Received'
  <2>1. recv_parity' = XorBit(XorBit(send_parity', Tx'), One(flipped' /\ noise' = 0))
    <3>1. recv_parity = XorBit(send_parity, One(flipped))
      BY <1>1, <1>4, IxTypes DEF Received
    <3>2. send_parity \in Bit /\ XorBit(XorBit(send_parity, d), d) = send_parity
      BY <1>1, <1>2, XorIs DEF UartTypeOK, Bit
    <3> QED
      BY <1>3, <1>6, <3>1, <3>2, ActEdge
  <2>2. ~flipped' => \A k \in 0 .. RecvIx' - 2 : recv_data'[k] = send_data'[k]
    BY <1>1, <1>3, <1>4, <1>6, ActEdge DEF Received
  <2> QED
    BY <1>3, <1>4, <1>9, <2>1, <2>2, ActEdge DEF Received
<1> QED
  BY <1>6, <1>8, <1>10, <1>11, <1>12 DEF UartInv

LEMMA ParityBitStep ==
  ASSUME UartInv, SenderEdge, counter = 0, ParityBit
  PROVE  UartInv' /\ (Wires!Damage \/ UNCHANGED <<send_buffer, line, recv_buffer>>)
<1>1. UartTypeOK /\ Sync /\ OnWire /\ OneFrame /\ Received
  BY DEF UartInv
<1>2. /\ send_status = "VALID" /\ Tx' = send_parity /\ send_status' = "END" /\ Wire
      /\ UNCHANGED <<send_buffer, send_data, send_bit, send_parity>>
  BY DEF ParityBit
<1>3. /\ recv_status = "VALID" /\ RecvIx = SendIx + 1 /\ RecvIx = BITS + 1
      /\ ahead = LATE + 1 + Seen
  BY <1>1, <1>2, ActEdge, SenderActs, IxIs
<1>4. UnderWay /\ UnderWay'
  BY <1>3, ActEdge DEF UnderWay
<1>5. /\ OneFrame' /\ line' \in Seq(Frames) /\ noise' \in Bit /\ flipped' \in BOOLEAN
      /\ (noise' = 1 => flipped') /\ (flipped => flipped')
      /\ One(flipped' /\ noise' = 0) = One(flipped)
      /\ Wires!Damage \/ UNCHANGED <<send_buffer, line, recv_buffer>>
  BY <1>2, <1>4, ActEdge, WireStep
<1>6. UartTypeOK'
  BY <1>1, <1>2, <1>5, ActEdge DEF UartTypeOK
<1>7. SendIx' = BITS + 1
  BY <1>2 DEF SendIx
<1>8. Sync'
  BY <1>1, <1>3, <1>7, ActEdge, SlipActs DEF Sync
<1>9. OnWire'
  BY <1>2, <1>5 DEF OnWire
<1>10. Received'
  <2>1. recv_parity' = XorBit(send_parity', One(flipped' /\ noise' = 0))
    BY <1>1, <1>2, <1>3, <1>5, ActEdge, IxTypes DEF Received
  <2>2. ~flipped' => \A k \in 0 .. RecvIx' - 2 : recv_data'[k] = send_data'[k]
    BY <1>1, <1>2, <1>3, <1>5, ActEdge DEF Received
  <2> QED
    BY <1>2, <1>3, <1>7, <2>1, <2>2, ActEdge DEF Received
<1> QED
  BY <1>5, <1>6, <1>8, <1>9, <1>10 DEF UartInv

LEMMA StopBitStep ==
  ASSUME UartInv, SenderEdge, counter = 0, StopBit \/ Idle
  PROVE  UartInv' /\ UNCHANGED <<send_buffer, line, recv_buffer>>
<1>1. UartTypeOK /\ Sync /\ OnWire /\ OneFrame
  BY DEF UartInv
<1>2. /\ send_status \in {"END", "IDLE"} /\ send_status' = "IDLE" /\ Tx' = 1 /\ noise' = 0
      /\ UNCHANGED <<send_buffer, send_data, send_bit, send_parity, flipped, line>>
  BY <1>1 DEF StopBit, Idle, OnWire
<1>3. send_status = "END" => /\ recv_status = "END" /\ RecvIx = BITS + 2 /\ SendIx' = BITS + 2
                             /\ ahead = LATE + 1 + Seen
  BY <1>1, <1>2, ActEdge, SenderActs, IxIs DEF SendIx
<1>4. send_status = "IDLE" => recv_status = "IDLE" /\ ahead = LATE
  BY <1>1, <1>2, ActEdge, SenderActs, IxTypes, IxIs
<1>5. UartTypeOK'
  BY <1>1, <1>2, ActEdge DEF UartTypeOK, Bit
<1>6. Sync'
  <2>1. CASE send_status = "END"
    BY <1>1, <1>3, <2>1, ActEdge, SlipActs DEF Sync
  <2>2. CASE send_status = "IDLE"
    BY <1>1, <1>2, <1>4, <2>2, ActEdge DEF Sync
  <2> QED
    BY <1>2, <2>1, <2>2
<1>7. OnWire' /\ OneFrame' /\ Received'
  BY <1>1, <1>2, <1>3, <1>4, ActEdge DEF OnWire, OneFrame, UnderWay, Received
<1> QED
  BY <1>2, <1>5, <1>6, <1>7, ActEdge DEF UartInv

-----------------------------------------------------------------------------
(* The receiver's edges.                                                   *)

LEMMA RecvEdgeIs ==
  ASSUME UartInv, ReceiverEdge
  PROVE  /\ ahead < (IF recv_status = "IDLE" THEN LATE ELSE LATE + EARLY)
         /\ ahead' = IF recv_status' = "IDLE" THEN LATE ELSE ahead + 1
         /\ line' = IF recv_status = "VALID" /\ sample THEN Tail(line) ELSE line
         /\ Sent' = Sent /\ SendIx' = SendIx
         /\ UNCHANGED <<send_buffer, counter, send_status, send_bit, send_parity, send_data,
                        Tx, noise, flipped>>
BY DEF ReceiverEdge, sendVars, Sent, SendIx

(* What a step of the receiver leaves as it is. *)
LEMMA RecvKeeps ==
  ASSUME UartInv, ReceiverEdge, ahead' \in 0 .. LATE + EARLY,
         recv_status' \in {"IDLE", "BEGIN", "DATA", "VALID", "END"},
         recv_bit' \in 0 .. BITS - 1, recv_parity' \in Bit, recv_counter' \in 0 .. T - 1,
         recv_clock' \in BOOLEAN, recv_data' \in Octet,
         recv_buffer' \in Seq(Octet), Len(recv_buffer') <= BUFFER, line' \in Seq(Frames)
  PROVE  UartTypeOK' /\ OnWire'
<1>1. UartTypeOK /\ OnWire
  BY DEF UartInv
<1> QED
  BY <1>1, RecvEdgeIs DEF UartTypeOK, OnWire

LEMMA DetectStartStep ==
  ASSUME UartInv, ReceiverEdge, DetectStart
  PROVE  UartInv' /\ UNCHANGED <<send_buffer, line, recv_buffer>>
<1>1. UartTypeOK /\ Sync /\ OnWire /\ OneFrame
  BY DEF UartInv
<1>2. /\ recv_status = "IDLE" /\ Rx = 0 /\ recv_status' = "BEGIN" /\ recv_counter' = 0
      /\ recv_clock' = TRUE /\ line' = line /\ ahead < LATE /\ ahead' = ahead + 1
      /\ UNCHANGED <<recv_bit, recv_parity, recv_data, recv_buffer>>
  BY RecvEdgeIs DEF DetectStart
<1>3. send_status # "IDLE"
  BY <1>1, <1>2, XorIs DEF OnWire, Rx, Bit
<1>4. send_status = "DATA" /\ send_bit = 0 /\ counter = 1 /\ ahead = LATE - 1
  BY <1>1, <1>2, <1>3 DEF Sync
<1>5. UartTypeOK' /\ OnWire'
  <2>1. recv_counter' \in 0 .. T - 1 /\ ahead' \in 0 .. LATE + EARLY
    BY <1>2, <1>4, HalfIs
  <2>2. recv_clock' \in BOOLEAN
    BY <1>2, Zenon
  <2> QED
    BY <1>1, <1>2, <2>1, <2>2, RecvKeeps DEF UartTypeOK
<1>6. Sync'
  <2>1. RecvIx' = 0 /\ SendIx' = 0
    BY <1>2, <1>4, IxIs, RecvEdgeIs DEF RecvIx
  <2>2. Seen' = 0 /\ Sent' = 1
    BY <1>2, <1>4, HalfIs, RecvEdgeIs DEF Seen, Sent
  <2>3. ahead' = LATE + 1 + Seen' - Sent'
    BY <1>2, <1>4, <2>2, HalfIs
  <2> QED
    BY <1>2, <2>1, <2>3, HalfIs DEF Sync
<1>7. OneFrame' /\ Received'
  BY <1>1, <1>2, <1>4, RecvEdgeIs DEF OneFrame, UnderWay, Received
<1> QED
  BY <1>2, <1>5, <1>6, <1>7, RecvEdgeIs DEF UartInv

(* A sample in a frame brings the receiver to the next bit. *)
LEMMA SampleActs ==
  ASSUME UartInv, ReceiverEdge, recv_status # "IDLE", sample, recv_counter' = recv_counter_next
  PROVE  /\ recv_counter' = Half + 1 /\ recv_counter' \in 0 .. T - 1
         /\ Seen' = Half + 1 - T
         /\ recv_status' # "IDLE" => ahead' = ahead + 1 /\ ahead' \in 0 .. LATE + EARLY
         /\ RecvIx = SendIx
         /\ (RecvIx' = RecvIx + 1 /\ recv_clock' /\ recv_status' \notin {"IDLE", "BEGIN"}) => Sync'
<1>1. UartTypeOK /\ Sync /\ recv_clock /\ recv_counter = Half
  BY DEF UartInv, Sync, sample, Half
<1>2. recv_counter' = Half + 1 /\ recv_counter' \in 0 .. T - 1
  BY <1>1, HalfIs DEF recv_counter_next
<1>3. Seen' = Half + 1 - T
  BY <1>2, HalfIs DEF Seen, Half
<1>4. ahead < LATE + EARLY /\ RecvIx = SendIx /\ ahead = LATE + 1 + Half - Sent
  BY ReceiverActs, RecvEdgeIs
<1>5. recv_status' # "IDLE" => ahead' = ahead + 1 /\ ahead' \in 0 .. LATE + EARLY
  BY <1>1, <1>4, HalfIs, RecvEdgeIs DEF UartTypeOK
<1>6. (RecvIx' = RecvIx + 1 /\ recv_clock' /\ recv_status' \notin {"IDLE", "BEGIN"}) => Sync'
  <2>1. HAVE RecvIx' = RecvIx + 1 /\ recv_clock' /\ recv_status' \notin {"IDLE", "BEGIN"}
  <2>2. RecvIx' = SendIx' + 1 /\ Sent' = Sent
    BY <1>4, <2>1, RecvEdgeIs
  <2>3. ahead' = LATE + 1 + T + Seen' - Sent'
    BY <1>1, <1>3, <1>4, <1>5, <2>1, <2>2, HalfIs, IxTypes
  <2> QED
    BY <2>1, <2>2, <2>3 DEF Sync
<1> QED
  BY <1>2, <1>3, <1>4, <1>5, <1>6

LEMMA SampleStartStep ==
  ASSUME UartInv, ReceiverEdge, SampleStart
  PROVE  UartInv' /\ UNCHANGED <<send_buffer, line, recv_buffer>>
<1>1. UartTypeOK /\ OnWire /\ OneFrame
  BY DEF UartInv
<1>2. /\ recv_status = "BEGIN" /\ sample /\ ahead < LATE + EARLY
      /\ send_status = "DATA" /\ send_bit = 0 /\ Rx = 0
  BY ReceiverActs, RecvEdgeIs DEF SampleStart
<1>3. /\ recv_status' = "DATA" /\ recv_bit' = 0 /\ recv_parity' = 0 /\ line' = line
      /\ recv_counter' = recv_counter_next /\ UNCHANGED <<recv_clock, recv_data, recv_buffer>>
  BY <1>2, RecvEdgeIs DEF SampleStart
<1>4. UartTypeOK' /\ OnWire'
  BY <1>1, <1>2, <1>3, HalfIs, RecvKeeps, SampleActs DEF UartTypeOK, Bit
<1>5. RecvIx = 0 /\ RecvIx' = 1 /\ SendIx' = 0
  BY <1>2, <1>3, IxIs, RecvEdgeIs DEF RecvIx
<1>6. Sync'
  BY <1>2, <1>3, <1>5, SampleActs DEF UartInv, Sync
<1>7. OneFrame'
  BY <1>1, <1>2, <1>3, RecvEdgeIs DEF OneFrame, UnderWay
<1>8. Received'
  <2>1. send_parity = 0 /\ ~flipped
    BY <1>1, <1>2 DEF OnWire
  <2>2. recv_parity' = XorBit(send_parity', One(flipped'))
    BY <1>3, <2>1, RecvEdgeIs, XorIs DEF One, Bit
  <2> QED
    BY <1>5, <2>2 DEF Received
<1> QED
  BY <1>3, <1>4, <1>6, <1>7, <1>8, RecvEdgeIs DEF UartInv

LEMMA SampleDataStep ==
  ASSUME UartInv, ReceiverEdge, SampleData
  PROVE  UartInv' /\ UNCHANGED <<send_buffer, line, recv_buffer>>
<1>1. UartTypeOK /\ OnWire /\ OneFrame /\ Received
  BY DEF UartInv
<1>2. PICK i \in 0 .. BITS - 1 : i = recv_bit
  BY <1>1 DEF UartTypeOK
<1>3. PICK r \in Bit : r = Rx
  BY <1>1, IxTypes
<1>4. /\ recv_status = "DATA" /\ sample /\ ahead < LATE + EARLY
      /\ recv_parity' = XorBit(recv_parity, r)
      /\ recv_data' = [recv_data EXCEPT ![i] = r]
      /\ recv_status' = IF i = BITS - 1 THEN "VALID" ELSE "DATA"
      /\ recv_counter' = recv_counter_next /\ line' = line
      /\ UNCHANGED <<recv_clock, recv_buffer>>
  BY <1>2, <1>3, RecvEdgeIs DEF SampleData
<1>5. recv_bit' = IF i = BITS - 1 THEN 0 ELSE i + 1
  <2>1. BITS \in Nat \ {0}
    BY HalfIs
  <2> QED
    BY <1>2, <2>1, ModIs DEF SampleData
<1>6. /\ Tx = send_data[i] /\ send_status \in {"DATA", "VALID"} /\ RecvIx = SendIx
      /\ RecvIx = i + 1
  BY <1>2, <1>4, ReceiverActs, IxIs
<1>7. UartTypeOK' /\ OnWire'
  <2>1. recv_data' \in Octet
    BY <1>1, <1>4 DEF UartTypeOK, Octet
  <2>2. recv_parity' \in Bit /\ recv_bit' \in 0 .. BITS - 1
    BY <1>1, <1>4, <1>5, XorIs, HalfIs DEF UartTypeOK
  <2> QED
    BY <1>1, <1>4, <2>1, <2>2, RecvKeeps, SampleActs DEF UartTypeOK
<1>8. RecvIx' = i + 2 /\ RecvIx' # SendIx' /\ SendIx' = i + 1
  BY <1>4, <1>5, <1>6, HalfIs, RecvEdgeIs DEF RecvIx
<1>9. Sync'
  BY <1>4, <1>6, <1>8, SampleActs DEF UartInv, Sync
<1>10. OneFrame'
  BY <1>1, <1>4, RecvEdgeIs DEF OneFrame, UnderWay
<1>11. Received'
  <2>1. recv_parity' = XorBit(send_parity', One(flipped'))
    <3>1. recv_parity = XorBit(XorBit(send_parity, Tx), One(flipped /\ noise = 0))
      BY <1>1, <1>4, <1>6 DEF Received
    <3>2. r = XorBit(Tx, noise) /\ Tx \in Bit /\ noise \in Bit /\ send_parity \in Bit
          /\ (noise = 1 => flipped)
      BY <1>1, <1>3 DEF Rx, UartTypeOK, OnWire
    <3>3. CASE noise = 0
      <4>1. One(flipped /\ noise = 0) = One(flipped) /\ One(flipped) \in Bit
        BY <3>3 DEF One, Bit
      <4> QED
        BY <1>4, <3>1, <3>2, <3>3, <4>1, RecvEdgeIs, XorIs DEF Bit
    <3>4. CASE noise = 1
      <4>1. One(flipped /\ noise = 0) = 0 /\ One(flipped) = 1
        BY <3>2, <3>4 DEF One
      <4>2. \A p, t \in Bit : XorBit(XorBit(XorBit(p, t), 0), XorBit(t, 1)) = XorBit(p, 1)
        BY XorIs DEF Bit
      <4>3. XorBit(recv_parity, r) = XorBit(send_parity, 1)
        BY <3>1, <3>2, <3>4, <4>1, <4>2
      <4> QED
        BY <1>4, <4>1, <4>3, <3>2, <3>4, RecvEdgeIs DEF One
    <3> QED
      BY <3>2, <3>3, <3>4 DEF Bit
  <2>2. ~flipped' => \A k \in 0 .. RecvIx' - 2 : recv_data'[k] = send_data'[k]
    <3> SUFFICES ASSUME ~flipped, NEW k \in 0 .. i PROVE recv_data'[k] = send_data[k]
      BY <1>8, RecvEdgeIs
    <3>1. \A j \in 0 .. i - 1 : recv_data[j] = send_data[j]
      BY <1>1, <1>4, <1>6 DEF Received
    <3>2. r = send_data[i]
      BY <1>1, <1>3, <1>6, XorIs DEF Rx, OnWire, UartTypeOK, Bit
    <3> QED
      BY <1>1, <1>2, <1>4, <3>1, <3>2 DEF UartTypeOK, Octet
  <2> QED
    BY <1>8, <2>1, <2>2 DEF Received
<1> QED
  BY <1>4, <1>7, <1>9, <1>10, <1>11, RecvEdgeIs DEF UartInv

LEMMA SampleParityStep ==
  ASSUME UartInv, ReceiverEdge, SampleParity
  PROVE  UartInv' /\ Wires!Arrive
<1>1. UartTypeOK /\ OnWire /\ OneFrame /\ Received
  BY DEF UartInv
<1>2. /\ recv_status = "VALID" /\ sample /\ ahead < LATE + EARLY
      /\ send_status = "END" /\ Tx = send_parity /\ RecvIx = SendIx /\ RecvIx = BITS + 1
  BY ReceiverActs, RecvEdgeIs, IxIs DEF SampleParity
<1>3. PICK f : f = [byte |-> send_data, damaged |-> flipped]
  OBVIOUS
<1>4. line = <<f>>
  BY <1>1, <1>2, <1>3, Zenon DEF OneFrame, UnderWay
<1>5. /\ recv_buffer' = IF Accepted THEN Append(recv_buffer, recv_data) ELSE recv_buffer
      /\ recv_status' = "END" /\ recv_counter' = recv_counter_next /\ line' = Tail(line)
      /\ UNCHANGED <<recv_bit, recv_parity, recv_data, recv_clock>>
  BY <1>2, RecvEdgeIs DEF SampleParity
<1>6. line' = <<>> /\ line # <<>> /\ Head(line) = f
  BY <1>4, <1>5
<1>7. UartTypeOK' /\ OnWire'
  <2>1. recv_buffer' \in Seq(Octet) /\ Len(recv_buffer') <= BUFFER
    BY <1>1, <1>5, HalfIs DEF UartTypeOK, Accepted
  <2> QED
    BY <1>1, <1>2, <1>5, <1>6, <2>1, RecvKeeps, SampleActs DEF UartTypeOK
<1>8. RecvIx' = BITS + 2
  BY <1>5, IxIs DEF RecvIx
<1>9. Sync'
  BY <1>2, <1>5, <1>8, HalfIs, SampleActs DEF UartInv, Sync
<1>10. OneFrame' /\ Received'
  BY <1>5, <1>6 DEF OneFrame, UnderWay, Received
<1>11. Accepted <=> ~flipped /\ Len(recv_buffer) < BUFFER
  <2>1. recv_parity = XorBit(send_parity, One(flipped /\ noise = 0))
    BY <1>1, <1>2 DEF Received
  <2>2. Rx = XorBit(send_parity, noise) /\ send_parity \in Bit /\ noise \in Bit
        /\ (noise = 1 => flipped)
    BY <1>1, <1>2 DEF Rx, OnWire, UartTypeOK
  <2>3. recv_parity = Rx <=> One(flipped /\ noise = 0) = noise
    BY <2>1, <2>2, XorIs DEF Bit, One
  <2>4. One(flipped /\ noise = 0) = noise <=> ~flipped
    BY <2>2 DEF One, Bit
  <2> QED
    BY <2>3, <2>4 DEF Accepted
<1>12. ~flipped => recv_data = send_data
  <2>1. ~flipped => \A k \in 0 .. BITS - 1 : recv_data[k] = send_data[k]
    BY <1>1, <1>2, HalfIs DEF Received
  <2>2. send_data \in Octet /\ recv_data \in Octet
    BY <1>1 DEF UartTypeOK
  <2>3. HAVE ~flipped
  <2>4. PICK S : S = 0 .. BITS - 1
    OBVIOUS
  <2>5. recv_data \in [S -> Bit] /\ send_data \in [S -> Bit]
        /\ \A k \in S : recv_data[k] = send_data[k]
    BY <2>1, <2>2, <2>3, <2>4 DEF Octet
  <2> QED
    BY <2>5
<1>13. Wires!Arrive
  <2>1. f.byte = send_data /\ (f.damaged <=> flipped)
    BY <1>3, Zenon
  <2>2. recv_buffer' = IF f.damaged \/ Len(recv_buffer) = BUFFER THEN recv_buffer
                       ELSE Append(recv_buffer, f.byte)
    BY <1>1, <1>5, <1>11, <1>12, <2>1, HalfIs DEF UartTypeOK
  <2> QED
    BY <1>5, <1>6, <2>2, RecvEdgeIs DEF Wires!Arrive
<1> QED
  BY <1>7, <1>9, <1>10, <1>13 DEF UartInv

LEMMA SampleStopStep ==
  ASSUME UartInv, ReceiverEdge, SampleStop
  PROVE  UartInv' /\ UNCHANGED <<send_buffer, line, recv_buffer>>
<1>1. UartTypeOK /\ OnWire /\ OneFrame
  BY DEF UartInv
<1>2. recv_status = "END" /\ sample /\ send_status = "IDLE"
  BY ReceiverActs, RecvEdgeIs DEF SampleStop
<1>3. /\ recv_status' = "IDLE" /\ recv_clock' = FALSE /\ recv_counter' = recv_counter_next
      /\ line' = line /\ ahead' = LATE
      /\ UNCHANGED <<recv_bit, recv_parity, recv_data, recv_buffer>>
  BY <1>2, RecvEdgeIs DEF SampleStop
<1>4. UartTypeOK' /\ OnWire'
  <2>1. ahead' \in 0 .. LATE + EARLY
    BY <1>3, HalfIs
  <2>2. recv_clock' \in BOOLEAN
    BY <1>3, Zenon
  <2> QED
    BY <1>1, <1>2, <1>3, <2>1, <2>2, RecvKeeps, SampleActs DEF UartTypeOK
<1>5. Sync'
  <2>1. ~recv_clock'
    BY <1>3, Zenon
  <2> QED
    BY <1>2, <1>3, <2>1, HalfIs, RecvEdgeIs DEF Sync
<1>6. OneFrame' /\ Received'
  BY <1>1, <1>2, <1>3, RecvEdgeIs DEF OneFrame, UnderWay, Received
<1> QED
  BY <1>3, <1>4, <1>5, <1>6, RecvEdgeIs DEF UartInv

LEMMA NoSampleStep ==
  ASSUME UartInv, ReceiverEdge, NoSample
  PROVE  UartInv' /\ UNCHANGED <<send_buffer, line, recv_buffer>>
<1>1. UartTypeOK /\ Sync /\ OnWire /\ OneFrame /\ Received
  BY DEF UartInv
<1>2. /\ IF recv_status = "IDLE" THEN Rx = 1 ELSE ~sample
      /\ recv_counter' = recv_counter_next
      /\ UNCHANGED <<recv_status, recv_bit, recv_parity, recv_data, recv_clock, recv_buffer>>
  BY DEF NoSample
<1>3. line' = line /\ (recv_status # "IDLE" => ~sample)
  BY <1>2, RecvEdgeIs
<1>4. recv_counter' \in 0 .. T - 1 /\ ahead' \in 0 .. LATE + EARLY
  BY <1>1, <1>2, HalfIs, RecvEdgeIs DEF UartTypeOK, recv_counter_next
<1>5. UartTypeOK' /\ OnWire'
  BY <1>1, <1>2, <1>3, <1>4, RecvKeeps DEF UartTypeOK
<1>6. RecvIx' = RecvIx
  BY <1>2 DEF RecvIx
<1>7. Sync'
  <2>1. CASE recv_status = "IDLE"
    <3>1. send_status = "IDLE"
      BY <1>1, <1>2, <2>1, XorIs DEF Sync, OnWire, Rx, Bit
    <3> QED
      BY <1>1, <1>2, <2>1, <3>1, HalfIs, RecvEdgeIs DEF Sync
  <2>2. CASE recv_status # "IDLE"
    <3>1. recv_clock /\ recv_counter # Half /\ recv_counter \in 0 .. T - 1
      BY <1>1, <1>3, <2>2 DEF Sync, sample, Half, UartTypeOK
    <3>2. recv_counter' = IF recv_counter = T - 1 THEN 0 ELSE recv_counter + 1
      BY <1>2, <3>1 DEF recv_counter_next
    <3>3. Seen' = Seen + 1
      <4>1. Seen' = IF recv_counter' <= Half THEN recv_counter' ELSE recv_counter' - T
        BY DEF Seen, Half
      <4> QED
        BY <3>1, <3>2, <4>1, HalfIs DEF Seen
    <3>4. recv_status = "BEGIN" => recv_counter' <= Half
      BY <1>1, <2>2, <3>1, <3>2, HalfIs DEF Sync
    <3>5. \/ RecvIx = SendIx /\ ahead = LATE + 1 + Seen - Sent
          \/ RecvIx = SendIx + 1 /\ ahead = LATE + 1 + T + Seen - Sent
      BY <1>1, <2>2 DEF Sync
    <3>6. ahead' = ahead + 1 /\ Sent' = Sent /\ SendIx' = SendIx
      BY <1>2, <2>2, RecvEdgeIs
    <3>7. \/ RecvIx' = SendIx' /\ ahead' = LATE + 1 + Seen' - Sent'
          \/ RecvIx' = SendIx' + 1 /\ ahead' = LATE + 1 + T + Seen' - Sent'
      <4>1. LATE \in Int /\ T \in Int /\ Seen \in Int /\ Sent \in Int /\ ahead \in Int
        BY <1>1, HalfIs, IxTypes DEF UartTypeOK
      <4> QED
        BY <1>6, <3>3, <3>5, <3>6, <4>1
    <3> QED
      BY <1>2, <2>2, <3>1, <3>4, <3>7 DEF Sync
  <2> QED
    BY <2>1, <2>2
<1>8. OneFrame' /\ Received'
  <2>1. OneFrame'
    BY <1>1, <1>2, <1>3, RecvEdgeIs DEF OneFrame, UnderWay
  <2> QED
    BY <1>1, <1>2, <1>6, <2>1, RecvEdgeIs DEF Received
<1> QED
  BY <1>2, <1>3, <1>5, <1>7, <1>8, RecvEdgeIs DEF UartInv

-----------------------------------------------------------------------------

LEMMA InitHolds ==
  ASSUME UartInit
  PROVE  UartInv /\ Wires!Init
<1>1. UartTypeOK
  <2>1. Zeros \in Octet
    BY DEF Zeros, Octet, Bit
  <2>2. flipped \in BOOLEAN /\ recv_clock \in BOOLEAN
    BY Zenon DEF UartInit
  <2> QED
    BY <2>1, <2>2, HalfIs DEF UartInit, UartTypeOK, Bit
<1>2. Sync
  BY HalfIs DEF UartInit, Sync
<1>3. OnWire /\ OneFrame /\ Received
  BY DEF UartInit, OnWire, OneFrame, UnderWay, Received
<1> QED
  BY <1>1, <1>2, <1>3 DEF UartInv, UartInit, Wires!Init

LEMMA UsersStep ==
  ASSUME UartInv, Take \/ \E b \in Octet : Put(b)
  PROVE  UartInv' /\ (Wires!Take \/ \E b \in Octet : Wires!Put(b))
<1>1. UartTypeOK /\ Sync /\ OnWire /\ OneFrame /\ Received
  BY DEF UartInv
<1>2. UNCHANGED <<sendVars, recvVars, ahead, line>>
  BY DEF Take, Put
<1>3. UartTypeOK'
  <2>1. send_buffer' \in Seq(Octet) /\ Len(send_buffer') <= BUFFER
    BY <1>1, HalfIs DEF UartTypeOK, Take, Put, sendable
  <2>2. recv_buffer' \in Seq(Octet) /\ Len(recv_buffer') <= BUFFER
    <3>1. CASE UNCHANGED recv_buffer
      BY <1>1, <3>1 DEF UartTypeOK
    <3>2. CASE recv_buffer # <<>> /\ recv_buffer' = Tail(recv_buffer)
      BY <1>1, <3>2, HalfIs DEF UartTypeOK
    <3> QED
      BY <3>1, <3>2 DEF Take, Put
  <2> QED
    BY <1>1, <1>2, <2>1, <2>2 DEF UartTypeOK, sendVars, recvVars
<1>4. Sync' /\ OnWire' /\ OneFrame' /\ Received'
  BY <1>1, <1>2 DEF Sync, OnWire, OneFrame, UnderWay, Received, sendVars, recvVars,
                    SendIx, RecvIx, Sent, Seen
<1>5. Wires!Take \/ \E b \in Octet : Wires!Put(b)
  BY DEF Take, Put, sendable, Wires!Take, Wires!Put
<1> QED
  BY <1>3, <1>4, <1>5 DEF UartInv

LEMMA StepHolds ==
  ASSUME UartInv, [UartNext]_uartVars
  PROVE  UartInv' /\ [Wires!Next]_<<send_buffer, line, recv_buffer>>
<1>1. CASE SenderEdge
  <2>1. CASE counter # 0
    BY <1>1, <2>1, CountEdge
  <2>2. CASE counter = 0
    <3>1. StartBit \/ DataBit \/ ParityBit \/ StopBit \/ Idle
      BY <1>1, <2>2, ActEdge
    <3> QED
      BY <1>1, <2>2, <3>1, StartBitStep, DataBitStep, ParityBitStep, StopBitStep
         DEF Wires!Next
  <2> QED
    BY <2>1, <2>2
<1>2. CASE ReceiverEdge
  <2>1. DetectStart \/ SampleStart \/ SampleData \/ SampleParity \/ SampleStop \/ NoSample
    BY <1>2 DEF ReceiverEdge, RecvEdge
  <2> QED
    BY <1>2, <2>1, DetectStartStep, SampleStartStep, SampleDataStep, SampleParityStep,
       SampleStopStep, NoSampleStep DEF Wires!Next
<1>3. CASE Take \/ \E b \in Octet : Put(b)
  BY <1>3, UsersStep DEF Wires!Next
<1>4. CASE UNCHANGED uartVars
  <2>1. UartTypeOK /\ Sync /\ OnWire /\ OneFrame /\ Received
    BY DEF UartInv
  <2>2. UartTypeOK' /\ Sync' /\ OnWire' /\ OneFrame' /\ Received'
    BY <1>4, <2>1 DEF UartTypeOK, Sync, OnWire, OneFrame, UnderWay, Received, uartVars,
                      sendVars, recvVars, SendIx, RecvIx, Sent, Seen
  <2> QED
    BY <1>4, <2>2 DEF UartInv, uartVars
<1> QED
  BY <1>1, <1>2, <1>3, <1>4 DEF UartNext

(* Frames are read as they were sent, bit by bit and in order, however     *)
(* long words and bits are and however the clocks slip (uart_comm).        *)
THEOREM Refinement == UartSpec => ImplementsByteLine
<1>1. UartInit => UartInv /\ Wires!Init
  BY InitHolds
<1>2. UartInv /\ [UartNext]_uartVars => UartInv' /\ [Wires!Next]_Wires!lineVars
  BY StepHolds DEF Wires!lineVars
<1> QED
  BY <1>1, <1>2, PTL DEF UartSpec, ImplementsByteLine, Wires!Spec

-----------------------------------------------------------------------------
(***************************************************************************)
(* The ring buffer, for every capacity SIZE and every set of items.        *)
(***************************************************************************)
(* The inductive invariant: the register widths and the relation between   *)
(* the three registers that describe the occupied part of the ring.        *)
FifoInv == FifoTypeOK /\ PointersAgree

LEMMA IncSlot ==
    ASSUME NEW p \in Slots
    PROVE  Inc(p) \in Slots
BY FifoAssumption DEF Inc, Slots

(* RST and power-on establish the invariant. *)
LEMMA FifoInitInv == FifoInit => FifoInv
BY FifoAssumption DEF FifoInit, FifoInv, FifoTypeOK, PointersAgree, Slot, Slots

(* Every clock edge and every reset preserves it. *)
LEMMA FifoStepInv == FifoInv /\ [FifoNext]_fifoVars => FifoInv'
<1> SUFFICES ASSUME FifoInv, [FifoNext]_fifoVars PROVE FifoInv'
  OBVIOUS
<1> USE FifoAssumption DEF FifoInv
<1>1. CASE Reset
  BY <1>1 DEF Reset, FifoTypeOK, PointersAgree, Slot, Slots
<1>2. ASSUME NEW d \in Data, ReadWrite(d) PROVE FifoInv'
  <2>1. FifoTypeOK'
    BY <1>2 DEF ReadWrite, FifoTypeOK, Inc, Slots, read_data
  <2>2. PointersAgree'
    BY <1>2 DEF ReadWrite, FifoTypeOK, PointersAgree, Slot, Inc, Slots, empty, full
  <2> QED BY <2>1, <2>2
<1>3. CASE ReadOnly
  <2>1. FifoTypeOK'
    BY <1>3 DEF ReadOnly, FifoTypeOK, Inc, Slots, empty, read_data
  <2>2. PointersAgree'
    BY <1>3 DEF ReadOnly, FifoTypeOK, PointersAgree, Slot, Inc, Slots, empty
  <2> QED BY <2>1, <2>2
<1>4. ASSUME NEW d \in Data, WriteOnly(d) PROVE FifoInv'
  <2>1. FifoTypeOK'
    BY <1>4 DEF WriteOnly, FifoTypeOK, Inc, Slots, full
  <2>2. PointersAgree'
    BY <1>4 DEF WriteOnly, FifoTypeOK, PointersAgree, Slot, Inc, Slots, full
  <2> QED BY <2>1, <2>2
<1>5. CASE UNCHANGED fifoVars
  BY <1>5 DEF fifoVars, FifoTypeOK, PointersAgree, Slot, Slots
<1> QED BY <1>1, <1>2, <1>3, <1>4, <1>5 DEF FifoNext, Edge

(* For every capacity, the registers stay within their widths and the      *)
(* count agrees with the pointers.                                         *)
THEOREM FifoInvariance == FifoSpec => [](FifoTypeOK /\ PointersAgree)
<1>1. FifoInv => FifoTypeOK /\ PointersAgree
  BY DEF FifoInv
<1> QED BY FifoInitInv, FifoStepInv, <1>1, PTL DEF FifoSpec

-----------------------------------------------------------------------------

(* Moving the read pointer forward renumbers the slots behind it by one.   *)
LEMMA SlotShift ==
    ASSUME FifoTypeOK, NEW k \in 0 .. SIZE - 1, read_ptr' = Inc(read_ptr),
           k + 1 < SIZE
    PROVE  Slot(read_ptr', k) = Slot(read_ptr, k + 1)
BY FifoAssumption DEF FifoTypeOK, Slot, Slots, Inc

(* Distinct offsets below SIZE name distinct slots of the ring. *)
LEMMA SlotInjective ==
    ASSUME FifoTypeOK, NEW j \in 0 .. SIZE - 1, NEW k \in 0 .. SIZE - 1, j # k
    PROVE  Slot(read_ptr, j) # Slot(read_ptr, k) /\ Slot(read_ptr, j) \in Slots
BY FifoAssumption DEF FifoTypeOK, Slot, Slots

(* Contents is a sequence of buffer_size items. *)
ContentsFacts ==
    /\ Contents \in Seq(Data)
    /\ Len(Contents) = buffer_size
    /\ \A k \in 1 .. buffer_size : Contents[k] = buffer[Slot(read_ptr, k - 1)]

LEMMA ContentsSeq == FifoTypeOK => ContentsFacts
<1> SUFFICES ASSUME FifoTypeOK PROVE ContentsFacts
  OBVIOUS
<1>1. \A k \in 1 .. buffer_size : buffer[Slot(read_ptr, k - 1)] \in Data
  BY FifoAssumption DEF FifoTypeOK, Slot, Slots
<1> QED BY <1>1 DEF Contents, ContentsFacts, FifoTypeOK

(* The same of the state a step leads to. *)
LEMMA ContentsSeqNext ==
    ASSUME FifoTypeOK'
    PROVE  /\ Contents' \in Seq(Data)
           /\ Len(Contents') = buffer_size'
           /\ \A k \in 1 .. buffer_size' :
                 Contents'[k] = buffer'[Slot(read_ptr', k - 1)]
<1>1. FifoTypeOK' => ContentsFacts'
  BY ContentsSeq, PTL
<1> QED BY <1>1 DEF ContentsFacts

(* An entry that was held before and after the edge, and was not the one   *)
(* written, is unchanged.                                                  *)
LEMMA WriteKeeps ==
    ASSUME FifoInv, NEW d \in Data, ~full,
           buffer' = [buffer EXCEPT ![write_ptr] = d]
    PROVE  /\ \A k \in 0 .. buffer_size - 1 :
                 buffer'[Slot(read_ptr, k)] = buffer[Slot(read_ptr, k)]
           /\ buffer'[Slot(read_ptr, buffer_size)] = d
<1>1. write_ptr = Slot(read_ptr, buffer_size) /\ buffer_size \in 0 .. SIZE - 1
  BY FifoAssumption DEF FifoInv, PointersAgree, FifoTypeOK, full
<1>2. \A k \in 0 .. buffer_size - 1 : Slot(read_ptr, k) # write_ptr /\ Slot(read_ptr, k) \in Slots
  BY <1>1, SlotInjective, FifoAssumption DEF FifoInv, FifoTypeOK
<1> QED BY <1>1, <1>2 DEF FifoInv, FifoTypeOK

LEMMA RefineInit == FifoInit => Queue!Init
BY FifoAssumption DEF FifoInit, Queue!Init, Contents

LEMMA RefineReset ==
    ASSUME Reset PROVE Queue!Reset
BY DEF Reset, Queue!Reset, Contents

LEMMA RefineWriteOnly ==
    ASSUME FifoInv, NEW d \in Data, WriteOnly(d)
    PROVE  Queue!Put(d)
<1>1. FifoTypeOK /\ FifoTypeOK'
  BY FifoAssumption DEF FifoInv, WriteOnly, full, Inc, FifoTypeOK, Slots
<1>2. buffer_size' = buffer_size + 1 /\ buffer_size \in 0 .. SIZE - 1
  BY FifoAssumption DEF WriteOnly, FifoInv, FifoTypeOK, full
<1>3. \A k \in 0 .. buffer_size : Slot(read_ptr', k) = Slot(read_ptr, k)
  BY DEF Slot, WriteOnly
<1>4. \A k \in 1 .. buffer_size : Contents'[k] = Contents[k]
  <2> TAKE k \in 1 .. buffer_size
  <2>0. k - 1 \in 0 .. buffer_size - 1
    BY <1>2
  <2>1. buffer'[Slot(read_ptr, k - 1)] = buffer[Slot(read_ptr, k - 1)]
    BY <2>0, WriteKeeps DEF WriteOnly
  <2> QED BY <2>1, <1>1, <1>2, <1>3, ContentsSeq, ContentsSeqNext DEF ContentsFacts
<1>5. Contents'[buffer_size + 1] = d
  <2>1. /\ Slot(read_ptr', buffer_size) = Slot(read_ptr, buffer_size)
        /\ (buffer_size + 1) - 1 = buffer_size
        /\ buffer_size + 1 \in 1 .. buffer_size'
    BY <1>2, <1>3
  <2>2. buffer'[Slot(read_ptr, buffer_size)] = d
    BY WriteKeeps DEF WriteOnly
  <2>3. Contents'[buffer_size + 1] = buffer'[Slot(read_ptr', buffer_size)]
    BY <1>1, <2>1, ContentsSeqNext
  <2> QED BY <2>1, <2>2, <2>3
<1>6. Contents' = Append(Contents, d)
  <2> DEFINE a == Append(Contents, d)
  <2>1. a \in Seq(Data) /\ Len(a) = buffer_size + 1
        /\ a[buffer_size + 1] = d
        /\ \A k \in 1 .. buffer_size : a[k] = Contents[k]
    BY <1>1, ContentsSeq, AppendProperties DEF ContentsFacts
  <2>2. \A k \in 1 .. buffer_size + 1 : Contents'[k] = a[k]
    BY <1>2, <1>4, <1>5, <2>1
  <2>3. Contents' \in Seq(Data) /\ Len(Contents') = buffer_size + 1
    BY <1>1, <1>2, ContentsSeqNext
  <2> HIDE DEF a
  <2>4. Contents' = a
    BY <2>1, <2>2, <2>3, SeqEqual
  <2> QED BY <2>4 DEF a
<1>7. Len(Contents) < SIZE
  BY <1>1, <1>2, ContentsSeq, FifoAssumption DEF ContentsFacts
<1> QED BY <1>6, <1>7 DEF Queue!Put, Queue!Accepts, WriteOnly

(* A step that advances the read pointer takes the head of the queue. *)
LEMMA HeadTaken ==
    ASSUME FifoInv, ~empty, taken' = read_data
    PROVE  /\ Contents # << >> /\ taken' = Head(Contents)
           /\ Tail(Contents) \in Seq(Data)
           /\ Len(Tail(Contents)) = buffer_size - 1
           /\ \A k \in 1 .. buffer_size - 1 :
                 Tail(Contents)[k] = buffer[Slot(read_ptr, k)]
<1>1. FifoTypeOK /\ buffer_size \in 1 .. SIZE
  BY FifoAssumption DEF FifoInv, FifoTypeOK, empty
<1>2. Contents # << >> /\ Contents[1] = buffer[Slot(read_ptr, 0)]
  BY <1>1, ContentsSeq, EmptySeq DEF ContentsFacts
<1>3. Slot(read_ptr, 0) = read_ptr
  BY <1>1, FifoAssumption DEF Slot, FifoTypeOK, Slots
<1>4. taken' = Head(Contents)
  BY <1>1, <1>2, <1>3, ContentsSeq DEF ContentsFacts, read_data
<1>5. /\ Tail(Contents) \in Seq(Data)
      /\ Len(Tail(Contents)) = buffer_size - 1
      /\ \A k \in 1 .. buffer_size - 1 : Tail(Contents)[k] = Contents[k + 1]
  BY <1>1, <1>2, ContentsSeq, HeadTailProperties DEF ContentsFacts
<1>6. \A k \in 1 .. buffer_size - 1 : Contents[k + 1] = buffer[Slot(read_ptr, k)]
  <2> TAKE k \in 1 .. buffer_size - 1
  <2>1. k + 1 \in 1 .. buffer_size /\ (k + 1) - 1 = k
    BY <1>1
  <2> QED BY <2>1, <1>1, ContentsSeq DEF ContentsFacts
<1> QED BY <1>2, <1>4, <1>5, <1>6

LEMMA RefineReadOnly ==
    ASSUME FifoInv, ReadOnly
    PROVE  Queue!Take
<1>1. FifoTypeOK /\ FifoTypeOK' /\ buffer_size \in 1 .. SIZE
      /\ buffer_size' = buffer_size - 1
  BY FifoAssumption DEF FifoInv, ReadOnly, empty, Inc, FifoTypeOK, Slots, read_data
<1>2. \A k \in 0 .. buffer_size - 2 : Slot(read_ptr', k) = Slot(read_ptr, k + 1)
  <2> TAKE k \in 0 .. buffer_size - 2
  <2>1. k \in 0 .. SIZE - 1 /\ k + 1 < SIZE
    BY <1>1, FifoAssumption
  <2> QED BY <1>1, <2>1, SlotShift DEF ReadOnly
<1>3. Contents' = Tail(Contents)
  <2> DEFINE t == Tail(Contents)
  <2>1. t \in Seq(Data) /\ Len(t) = buffer_size - 1
        /\ \A k \in 1 .. buffer_size - 1 : t[k] = buffer[Slot(read_ptr, k)]
    BY HeadTaken DEF ReadOnly
  <2>2. Contents' \in Seq(Data) /\ Len(Contents') = buffer_size - 1
    BY <1>1, ContentsSeqNext
  <2>3. ASSUME NEW k \in 1 .. buffer_size - 1
        PROVE  Contents'[k] = buffer[Slot(read_ptr, k)]
    <3>1. k - 1 \in 0 .. buffer_size - 2 /\ (k - 1) + 1 = k
      BY <1>1
    <3>2. Slot(read_ptr', k - 1) = Slot(read_ptr, k)
      BY <3>1, <1>2
    <3> QED BY <3>2, <1>1, ContentsSeqNext DEF ReadOnly
  <2> HIDE DEF t
  <2>4. Contents' = t
    BY <2>1, <2>2, <2>3, <1>1, SeqEqual
  <2> QED BY <2>4 DEF t
<1> QED BY <1>3, HeadTaken DEF Queue!Take, ReadOnly

LEMMA RefineReadWrite ==
    ASSUME FifoInv, NEW d \in Data, ReadWrite(d)
    PROVE  Queue!TakeAndPut(d)
<1>1. FifoTypeOK /\ FifoTypeOK' /\ buffer_size \in 1 .. SIZE - 1
      /\ buffer_size' = buffer_size
  BY FifoAssumption
     DEF FifoInv, ReadWrite, empty, full, Inc, FifoTypeOK, Slots, read_data
<1>2. \A k \in 0 .. buffer_size - 1 : Slot(read_ptr', k) = Slot(read_ptr, k + 1)
  <2> TAKE k \in 0 .. buffer_size - 1
  <2>1. k \in 0 .. SIZE - 1 /\ k + 1 < SIZE
    BY <1>1, FifoAssumption
  <2> QED BY <1>1, <2>1, SlotShift DEF ReadWrite
<1>3. \A k \in 1 .. buffer_size - 1 : buffer'[Slot(read_ptr, k)] = buffer[Slot(read_ptr, k)]
  <2> TAKE k \in 1 .. buffer_size - 1
  <2>1. k \in 0 .. buffer_size - 1
    BY <1>1
  <2> QED BY <2>1, WriteKeeps DEF ReadWrite
<1>4. buffer'[Slot(read_ptr, buffer_size)] = d
  BY WriteKeeps DEF ReadWrite
<1>5. Contents' = Append(Tail(Contents), d)
  <2> DEFINE t == Tail(Contents)
             a == Append(t, d)
  <2>1. t \in Seq(Data) /\ Len(t) = buffer_size - 1
        /\ \A k \in 1 .. buffer_size - 1 : t[k] = buffer[Slot(read_ptr, k)]
    BY HeadTaken DEF ReadWrite
  <2>2. a \in Seq(Data) /\ Len(a) = buffer_size
        /\ a[buffer_size] = d
        /\ \A k \in 1 .. buffer_size - 1 : a[k] = t[k]
    <3> HIDE DEF t
    <3> QED BY <1>1, <2>1, AppendProperties
  <2>3. Contents' \in Seq(Data) /\ Len(Contents') = buffer_size
    BY <1>1, ContentsSeqNext
  <2>4. ASSUME NEW k \in 1 .. buffer_size
        PROVE  Contents'[k] = buffer'[Slot(read_ptr, k)]
    <3>1. k - 1 \in 0 .. buffer_size - 1 /\ (k - 1) + 1 = k
      BY <1>1
    <3>2. Slot(read_ptr', k - 1) = Slot(read_ptr, k)
      BY <3>1, <1>2
    <3> QED BY <3>2, <1>1, ContentsSeqNext
  <2> HIDE DEF a, t
  <2>5. \A k \in 1 .. buffer_size : Contents'[k] = a[k]
    BY <1>1, <1>3, <1>4, <2>1, <2>2, <2>4
  <2>6. Contents' = a
    BY <2>2, <2>3, <2>5, SeqEqual
  <2> QED BY <2>6 DEF a, t
<1>6. Len(Contents) < SIZE
  BY <1>1, ContentsSeq, FifoAssumption DEF ContentsFacts
<1> QED BY <1>5, <1>6, HeadTaken
        DEF Queue!TakeAndPut, Queue!Accepts, ReadWrite

LEMMA RefineStep ==
    ASSUME FifoInv, [FifoNext]_fifoVars
    PROVE  [Queue!Next]_<<Contents, taken>>
<1>1. CASE Reset
  BY <1>1, RefineReset DEF Queue!Next
<1>2. ASSUME NEW d \in Data, ReadWrite(d) PROVE Queue!Next
  BY <1>2, RefineReadWrite DEF Queue!Next
<1>3. CASE ReadOnly
  BY <1>3, RefineReadOnly DEF Queue!Next
<1>4. ASSUME NEW d \in Data, WriteOnly(d) PROVE Queue!Next
  BY <1>4, RefineWriteOnly DEF Queue!Next
<1>5. CASE UNCHANGED fifoVars
  BY <1>5 DEF fifoVars, Contents, Slot
<1> QED BY <1>1, <1>2, <1>3, <1>4, <1>5 DEF FifoNext, Edge

(* For every capacity and every set of items, the ring buffer of fifo_tmp.v *)
(* implements the bounded queue.                                           *)
THEOREM FifoRefinement == FifoSpec => ImplementsQueue
<1>1. FifoInit => Queue!Init
  BY RefineInit
<1>2. FifoInv /\ [FifoNext]_fifoVars => [Queue!Next]_<<Contents, taken>>
  BY RefineStep
<1>3. FifoSpec => []FifoInv
  BY FifoInitInv, FifoStepInv, PTL DEF FifoSpec
<1> QED BY <1>1, <1>2, <1>3, PTL DEF FifoSpec, ImplementsQueue, Queue!Spec
=============================================================================
