-------------------------------- MODULE Link --------------------------------
(***************************************************************************)
(* The packet protocol between the FPGA (multchan_comm) and the PC         *)
(* (Adapter), over a line that carries bytes in order and may lose some: a *)
(* byte with wrong parity, or one that finds the receive buffer full, is   *)
(* dropped by the UART.  A packet is a head with an id, a channel byte, a  *)
(* length, the data and an end with the same id.                           *)
(*                                                                         *)
(* Only channel 0 is connected in TopCPU, and the memory controller is its *)
(* client: it sends nothing while it awaits the response to a read.  A     *)
(* payload is the request itself, cut into PARTS data bytes.               *)
(*                                                                         *)
(* The reset button clears the FPGA, in the middle of whatever it does; the*)
(* PC knows nothing of it.                                                 *)
(***************************************************************************)
EXTENDS Naturals, Sequences

CONSTANTS
    IDS,            \* packet ids, 32 in the code
    SIZE,           \* packets in the send buffer of the channel
    LINE,           \* bytes the UART and the line hold towards the PC
    TAGS,           \* requests are told apart by a number modulo TAGS
    READ_PARTS, WRITE_PARTS, RESPONSE_PARTS,  \* data bytes of each kind of packet
    WINDOW,         \* bound: requests put in and not yet performed
    FAULTS,         \* bound: bytes lost and resets
    RESETS,         \* bound: times the button is pressed
    MID_READ        \* it may be pressed while a response is on its way

ASSUME LinkAssumption ==
    /\ IDS \in Nat \ {0, 1} /\ SIZE \in Nat \ {0} /\ LINE \in Nat \ {0}
    /\ READ_PARTS \in Nat \ {0} /\ WRITE_PARTS \in Nat \ {0}
    /\ READ_PARTS # WRITE_PARTS /\ RESPONSE_PARTS \in Nat \ {0}
    /\ WINDOW \in Nat \ {0} /\ TAGS \in Nat /\ WINDOW < TAGS /\ FAULTS \in Nat
    /\ RESETS \in Nat /\ MID_READ \in BOOLEAN

Ids       == 0 .. IDS - 1
Request   == [rw : {"r", "w"}, tag : 0 .. TAGS - 1]
NoPacket  == [rw |-> "none", tag |-> 0]

VARIABLES
    send_buffer,                        \* write_buffer of channel 0
    send_status, send_bit, send_buf, packet_id,
    up,                                 \* bytes on their way to the PC
    a_state, a_data, a_length, a_recv_id, a_send_id,     \* Adapter
    down,                               \* bytes on their way to the FPGA
    recv_status, recv_data, recv_length, recv_id,
    read_buffer,                        \* read_buffer of channel 0
    waiting,                            \* the controller awaits a response
    fresh,                              \* the CPU has not fetched since reset
    owed, stale, performed, tag,        \* history; stale of owed are from before
    losses, resets

sendVars    == <<send_status, send_bit, send_buf, packet_id>>
adapterVars == <<a_state, a_data, a_length, a_recv_id, a_send_id>>
recvVars    == <<recv_status, recv_data, recv_length, recv_id>>
clientVars  == <<waiting, fresh, owed, stale, tag>>
faultVars   == <<losses, resets>>
vars == <<send_buffer, sendVars, up, adapterVars, down, recvVars, read_buffer,
          clientVars, performed, faultVars>>

HeadByte(i)   == [kind |-> "head", id |-> i]
ChannelByte   == [kind |-> "channel"]
LengthByte(n) == [kind |-> "length", parts |-> n]
DataByte(m, k) == [kind |-> "data", of |-> m, part |-> k]
EndByte(i)    == [kind |-> "end", id |-> i]

Parts(m) == IF m.rw = "r" THEN READ_PARTS ELSE WRITE_PARTS

(* The data bytes of a whole packet of n parts. *)
Whole(m, n) == [k \in 1 .. n |-> DataByte(m, k)]

Init ==
    /\ send_buffer = <<>> /\ up = <<>> /\ down = <<>> /\ read_buffer = <<>>
    /\ send_status = "IDLE" /\ send_bit = 0 /\ send_buf = NoPacket /\ packet_id = 0
    /\ a_state = "IDLE" /\ a_data = <<>> /\ a_length = 0
    /\ a_recv_id = 0 /\ a_send_id = 1
    /\ recv_status = "IDLE" /\ recv_data = <<>> /\ recv_length = 0 /\ recv_id = 0
    /\ waiting = FALSE /\ fresh = TRUE /\ owed = <<>> /\ stale = 0
    /\ performed = NoPacket /\ tag = 0 /\ losses = 0 /\ resets = 0

-----------------------------------------------------------------------------
(* memory_controller at the send and read buffers of the channel.          *)

writable == Len(send_buffer) < SIZE

(* The first access of the CPU is a fetch. *)
Put(rw) ==
    /\ writable /\ ~waiting /\ Len(owed) < WINDOW /\ (fresh => rw = "r")
    /\ LET m == [rw |-> rw, tag |-> tag]
       IN  send_buffer' = Append(send_buffer, m) /\ owed' = Append(owed, m)
    /\ waiting' = (rw = "r") /\ fresh' = FALSE
    /\ tag' = (tag + 1) % TAGS
    /\ UNCHANGED <<sendVars, up, adapterVars, down, recvVars, read_buffer,
                   stale, performed, faultVars>>

Take ==
    /\ waiting /\ read_buffer # <<>>
    /\ read_buffer' = Tail(read_buffer)
    /\ waiting' = FALSE
    /\ UNCHANGED <<send_buffer, sendVars, up, adapterVars, down, recvVars,
                   fresh, owed, stale, tag, performed, faultVars>>

-----------------------------------------------------------------------------
(* The sender of multchan_comm: a byte at every edge at which the UART can *)
(* take one.                                                               *)

sendable == Len(up) < LINE

next_packet_id == (packet_id + 1) % IDS

Emit(b) == sendable /\ up' = Append(up, b)

SendHead ==
    /\ send_status = "IDLE" /\ send_buffer # <<>>
    /\ send_buf' = Head(send_buffer) /\ send_buffer' = Tail(send_buffer)
    /\ send_bit' = 0
    /\ packet_id' = next_packet_id
    /\ Emit(HeadByte(next_packet_id))
    /\ send_status' = "CHANNEL"

SendChannel ==
    /\ send_status = "CHANNEL"
    /\ Emit(ChannelByte)
    /\ send_status' = "LENGTH"
    /\ UNCHANGED <<send_buffer, send_bit, send_buf, packet_id>>

SendLength ==
    /\ send_status = "LENGTH"
    /\ Emit(LengthByte(Parts(send_buf)))
    /\ send_status' = "DATA"
    /\ UNCHANGED <<send_buffer, send_bit, send_buf, packet_id>>

SendData ==
    /\ send_status = "DATA"
    /\ Emit(DataByte(send_buf, send_bit + 1))
    /\ send_bit' = send_bit + 1
    /\ send_status' = IF send_bit + 1 >= Parts(send_buf) THEN "END" ELSE "DATA"
    /\ UNCHANGED <<send_buffer, send_buf, packet_id>>

SendEnd ==
    /\ send_status = "END"
    /\ Emit(EndByte(packet_id))
    /\ send_status' = "IDLE"
    /\ UNCHANGED <<send_buffer, send_bit, send_buf, packet_id>>

Send ==
    /\ SendHead \/ SendChannel \/ SendLength \/ SendData \/ SendEnd
    /\ UNCHANGED <<adapterVars, down, recvVars, read_buffer, clientVars,
                   performed, faultVars>>

-----------------------------------------------------------------------------
(* Adapter::onRecv.  The id of the head is looked at for a message only.   *)

Follows(state, kind) ==
    \/ state = "IDLE" /\ kind = "head"
    \/ state = "CHANNEL" /\ kind = "channel"
    \/ state = "LENGTH" /\ kind = "length"
    \/ state = "DATA" /\ kind = "data"
    \/ state = "END" /\ kind = "end"

(* The state after the byte b in the given state, data of which have come. *)
After(state, b, data, length) ==
    IF ~Follows(state, b.kind) THEN "IDLE"
    ELSE CASE state = "IDLE" -> "CHANNEL"
           [] state = "CHANNEL" -> "LENGTH"
           [] state = "LENGTH" -> "DATA"
           [] state = "DATA" -> IF Len(data) + 1 >= length THEN "END" ELSE "DATA"
           [] state = "END" -> "IDLE"

Collected(state, b, data) ==
    IF state = "IDLE" THEN <<>>
    ELSE IF state = "DATA" /\ b.kind = "data" THEN Append(data, b) ELSE data

LengthIn(state, b, length) ==
    IF state = "LENGTH" /\ b.kind = "length" THEN b.parts
    ELSE IF state = "IDLE" /\ b.kind = "head" THEN 0 ELSE length

expected_id_unmasked == a_recv_id + 1                            \* mutant
expected_id == (a_recv_id + 1) % IDS

AcceptsAny(b) == a_state = "END" /\ b.kind = "end"               \* mutant
Accepts(b) == a_state = "END" /\ b.kind = "end" /\ b.id = expected_id

Response(m) ==
    <<HeadByte(a_send_id), ChannelByte, LengthByte(RESPONSE_PARTS)>>
    \o Whole(m, RESPONSE_PARTS) \o <<EndByte(a_send_id)>>

(* data_handler: a packet that has neither length is ignored. *)
Handle(data) ==
    LET m == data[1].of
    IN  CASE Len(data) = READ_PARTS ->
               /\ down' = down \o Response(m)
               /\ a_send_id' = (a_send_id + 1) % IDS
               /\ performed' = IF data = Whole(m, READ_PARTS) THEN m ELSE NoPacket
          [] Len(data) = WRITE_PARTS ->
               /\ performed' = IF data = Whole(m, WRITE_PARTS) THEN m ELSE NoPacket
               /\ UNCHANGED <<down, a_send_id>>
          [] OTHER -> UNCHANGED <<down, a_send_id, performed>>

(* Of the request just performed among those owed. *)
Place ==
    LET places == {k \in 1 .. Len(owed) : owed[k] = performed'}
    IN  IF places = {} THEN IF owed = <<>> THEN 0 ELSE 1
        ELSE CHOOSE k \in places : \A j \in places : k <= j

onRecv ==
    /\ up # <<>>
    /\ up' = Tail(up)
    /\ LET b == Head(up)
       IN  /\ a_state' = After(a_state, b, a_data, a_length)
           /\ a_data' = Collected(a_state, b, a_data)
           /\ a_length' = LengthIn(a_state, b, a_length)
           /\ IF Accepts(b)
              THEN /\ a_recv_id' = b.id
                   /\ Handle(a_data)
                   /\ owed' = SubSeq(owed, Place + 1, Len(owed))
                   /\ stale' = IF stale > Place THEN stale - Place ELSE 0
              ELSE UNCHANGED <<a_recv_id, a_send_id, down, performed, owed, stale>>
    /\ UNCHANGED <<send_buffer, sendVars, recvVars, read_buffer, waiting, fresh, tag, faultVars>>

-----------------------------------------------------------------------------
(* The receiver of multchan_comm compares the id of the end with that of   *)
(* the head, and with nothing else.                                        *)

Receive ==
    /\ down # <<>>
    /\ down' = Tail(down)
    /\ LET b == Head(down)
       IN  /\ recv_status' = After(recv_status, b, recv_data, recv_length)
           /\ recv_data' = Collected(recv_status, b, recv_data)
           /\ recv_length' = LengthIn(recv_status, b, recv_length)
           /\ recv_id' = IF recv_status = "IDLE" /\ b.kind = "head" THEN b.id ELSE recv_id
           /\ read_buffer' =
                IF /\ recv_status = "END" /\ b.kind = "end"
                   /\ recv_id = b.id /\ Len(read_buffer) < SIZE
                THEN Append(read_buffer, recv_data) ELSE read_buffer
    /\ UNCHANGED <<send_buffer, sendVars, up, adapterVars, clientVars, performed, faultVars>>

-----------------------------------------------------------------------------
(* The UART at either end drops a byte.                                    *)
Lose ==
    /\ losses + resets < FAULTS /\ losses' = losses + 1 /\ UNCHANGED resets
    /\ \/ up # <<>> /\ up' = Tail(up) /\ UNCHANGED down
       \/ down # <<>> /\ down' = Tail(down) /\ UNCHANGED up
    /\ UNCHANGED <<send_buffer, sendVars, adapterVars, recvVars, read_buffer,
                   clientVars, performed>>

(* What a frame that is cut off may be taken for: no byte of a packet. *)
Stump == [kind |-> "stump"]

Reset ==
    /\ resets < RESETS /\ losses + resets < FAULTS /\ resets' = resets + 1
    /\ waiting /\ ~MID_READ => up = <<>> /\ down = <<>> /\ read_buffer = <<>>
    /\ send_buffer' = <<>> /\ read_buffer' = <<>>
    /\ send_status' = "IDLE" /\ send_bit' = 0 /\ send_buf' = NoPacket /\ packet_id' = 0
    /\ recv_status' = "IDLE" /\ recv_data' = <<>> /\ recv_length' = 0 /\ recv_id' = 0
    /\ \E n \in 0 .. Len(up) :
          up' \in {SubSeq(up, 1, n)} \cup
                 (IF n < Len(up) THEN {Append(SubSeq(up, 1, n), Stump)} ELSE {})
    /\ \E n \in 0 .. Len(down) :
          down' \in {SubSeq(down, n + 1, Len(down))} \cup
                   (IF n > 0 THEN {<<Stump>> \o SubSeq(down, n + 1, Len(down))} ELSE {})
    /\ waiting' = FALSE /\ fresh' = TRUE /\ stale' = Len(owed)
    /\ UNCHANGED <<adapterVars, owed, tag, performed, losses>>

Next ==
    \/ Put("r") \/ Put("w") \/ Take
    \/ Send \/ onRecv \/ Receive \/ Lose \/ Reset

Spec == Init /\ [][Next]_vars

(* The clocks run and the PC reads its serial port. *)
FairSpec == Spec /\ WF_vars(Send) /\ WF_vars(onRecv) /\ WF_vars(Receive) /\ WF_vars(Take)

-----------------------------------------------------------------------------

(* Reads whose response has not been taken: what is awaited, once the read *)
(* has been performed.                                                     *)
Outstanding ==
    IF read_buffer # <<>>
    THEN IF read_buffer[1] = Whole(read_buffer[1][1].of, RESPONSE_PARTS)
         THEN <<read_buffer[1][1].of>> ELSE <<NoPacket>>
    ELSE IF waiting /\ owed = <<>> THEN <<performed>> ELSE <<>>

Channel == INSTANCE PacketChannel
    WITH NoRequest <- NoPacket, IsRead <- LAMBDA m : m.rw = "r",
         requestq <- owed, stale <- stale, responseq <- Outstanding, performed <- performed

(* Whatever bytes are lost, the PC performs the requests in order, whole,  *)
(* and without leaving one out, and a response that arrives is whole and   *)
(* answers the read that awaits it: a loss may stop the link, never        *)
(* confuse it.  With losses this needs WINDOW <= IDS: IDS requests later   *)
(* the ids come round, and the PC takes a later packet for the lost one.   *)
(* After a reset the PC may refuse everything, or start with the first new *)
(* request; those in flight may be lost, the rest is as before.  Three     *)
(* losses are too many then (FAULTS > 3): without its head, channel and    *)
(* length the first fetch goes on the end of a packet that was cut off.    *)
(* With MID_READ the response in flight answers the first fetch instead.   *)
ImplementsChannel == Channel!Spec

(* As long as no byte is lost and nobody presses the button, every read is *)
(* answered.                                                               *)
Delivered == [](losses = 0 /\ resets = 0) => (waiting ~> ~waiting)
=============================================================================
