----------------------------- MODULE H4Receive ------------------------------
(***************************************************************************)
(* The receive path of the Bluetooth HAL: the controller's bytes arrive at *)
(* the tty, a callback of the watcher thread forwards them to the shim     *)
(* socket (src/bluetooth/bluetooth_hci.cc), another one hands them to      *)
(* H4Protocol (h4_protocol.cc) and HciPacketizer (hci_packetizer.cc),      *)
(* which cut them into packets again.                                      *)
(*                                                                         *)
(* The stream of bytes is kept whole; two positions in it say how far the  *)
(* tty (moved) and the shim socket (pos) have been read.                   *)
(***************************************************************************)
EXTENDS Naturals, Sequences

CONSTANTS
    Radix,          \* values of a byte (256 on the machine)
    Packets,        \* packets the controller may send: [type, body]
    MaxPackets,     \* bound: packets the controller sends
    ShimCapacity    \* bytes the shim socket holds

HCI_PACKET_TYPE_UNKNOWN  == 0
HCI_PACKET_TYPE_COMMAND  == 1
HCI_PACKET_TYPE_ACL_DATA == 2
HCI_PACKET_TYPE_SCO_DATA == 3
HCI_PACKET_TYPE_EVENT    == 4

ByteValues == 0..(Radix - 1)

HCI_PREAMBLE_SIZE_MAX == 4
preamble_size_for_type == <<3, 4, 3, 2>>
packet_length_offset_for_type == <<2, 2, 2, 1>>

\* The length field at its place in a preamble; two bytes, low one first, for
\* ACL data. (The offset counts from 0, a sequence from 1.)
HciGetPacketLengthForType(type, preamble) ==
    LET offset == packet_length_offset_for_type[type] + 1
    IN  IF type # HCI_PACKET_TYPE_ACL_DATA
        THEN preamble[offset]
        ELSE preamble[offset + 1] * Radix + preamble[offset]

ReceivedTypes == {HCI_PACKET_TYPE_EVENT, HCI_PACKET_TYPE_ACL_DATA,
                  HCI_PACKET_TYPE_SCO_DATA}

BodyLen(p) == Len(p.body)
PayloadLen(p) == BodyLen(p) - preamble_size_for_type[p.type]

\* What a controller puts on the line: a preamble whose length field tells the
\* number of payload bytes that follow.
WellFormed(p) ==
    /\ p \in [type : ReceivedTypes, body : Seq(ByteValues)]
    /\ BodyLen(p) >= preamble_size_for_type[p.type]
    /\ HciGetPacketLengthForType(p.type, p.body) = PayloadLen(p)

ASSUME RadixAssumption == Radix \in Nat /\ Radix > HCI_PACKET_TYPE_EVENT
ASSUME PacketsAssumption == \A p \in Packets : WellFormed(p)
ASSUME LimitsAssumption == MaxPackets \in Nat /\ ShimCapacity \in Nat \ {0}

\* No packet without payload bytes.
NoEmptyPayload == \A p \in Packets : PayloadLen(p) > 0

VARIABLES
    sent,             \* history: packets the controller has sent
    starts,           \* history: where in the stream each of them begins
    stream,           \* the bytes of all of them
    moved,            \* bytes forwarded from the tty to the shim socket
    pos,              \* bytes H4Protocol has read from the shim socket
    blocked,          \* the watcher thread sleeps in write() on a full shim
    hci_packet_type,  \* H4Protocol::hci_packet_type_
    state,            \* HciPacketizer::state_
    preamble,         \* HciPacketizer::preamble_
    packet,           \* HciPacketizer::packet_
    bytes_remaining,  \* HciPacketizer::bytes_remaining_
    bytes_read,       \* HciPacketizer::bytes_read_
    delivered,        \* history: packets given to the client's callbacks
    aborted           \* a CHECK has failed

StreamLen == Len(stream)

controller == <<sent, starts, stream>>
packetizer == <<state, preamble, packet, bytes_remaining, bytes_read>>
vars == <<controller, moved, pos, blocked, hci_packet_type, packetizer,
          delivered, aborted>>

TypeOK ==
    /\ sent \in Seq(Packets)
    /\ starts \in Seq(Nat)
    /\ stream \in Seq(ByteValues)
    /\ moved \in 0..StreamLen
    /\ pos \in 0..moved
    /\ blocked \in BOOLEAN
    /\ hci_packet_type \in ReceivedTypes \cup {HCI_PACKET_TYPE_UNKNOWN}
    /\ state \in {"HCI_PREAMBLE", "HCI_PAYLOAD"}
    /\ preamble \in [1..HCI_PREAMBLE_SIZE_MAX -> ByteValues]
    /\ packet \in Seq(ByteValues)
    /\ bytes_remaining \in Nat
    /\ bytes_read \in Nat
    /\ delivered \in Seq(Packets)
    /\ aborted \in BOOLEAN

Init ==
    /\ sent = <<>> /\ starts = <<>> /\ stream = <<>>
    /\ moved = 0 /\ pos = 0 /\ blocked = FALSE
    /\ hci_packet_type = HCI_PACKET_TYPE_UNKNOWN
    /\ state = "HCI_PREAMBLE"
    /\ preamble = [i \in 1..HCI_PREAMBLE_SIZE_MAX |-> 0]
    /\ packet = <<>>
    /\ bytes_remaining = 0
    /\ bytes_read = 0
    /\ delivered = <<>>
    /\ aborted = FALSE

-----------------------------------------------------------------------------
(* The controller and the tty.                                             *)

ControllerSends(p) ==
    /\ Len(sent) < MaxPackets
    /\ sent' = Append(sent, p)
    /\ starts' = Append(starts, StreamLen)
    /\ stream' = stream \o <<p.type>> \o p.body
    /\ UNCHANGED <<moved, pos, blocked, hci_packet_type, packetizer,
                   delivered, aborted>>

\* The callback on the tty: n bytes have arrived (FIONREAD), all of them are
\* read and written to the shim socket, which has room for them.
ForwardTty(n) ==
    /\ ~blocked /\ ~aborted
    /\ n <= StreamLen - moved
    /\ moved + n - pos <= ShimCapacity
    /\ moved' = moved + n
    /\ UNCHANGED <<controller, pos, blocked, hci_packet_type, packetizer,
                   delivered, aborted>>

\* It has not: write() fills the socket and sleeps until somebody reads, which
\* only the sleeping thread would do.
ForwardTtyBlocks(n) ==
    /\ ~blocked /\ ~aborted
    /\ n <= StreamLen - moved
    /\ moved + n - pos > ShimCapacity
    /\ moved' = pos + ShimCapacity
    /\ blocked' = TRUE
    /\ UNCHANGED <<controller, pos, hci_packet_type, packetizer,
                   delivered, aborted>>

-----------------------------------------------------------------------------
(* H4Protocol::OnDataReady and HciPacketizer::OnDataReady, which run when  *)
(* the shim socket is readable.                                            *)

Readable == ~blocked /\ ~aborted /\ pos < moved

ReadType ==
    /\ Readable
    /\ hci_packet_type = HCI_PACKET_TYPE_UNKNOWN
    /\ hci_packet_type' = stream[pos + 1]
    /\ pos' = pos + 1
    /\ UNCHANGED <<controller, moved, blocked, packetizer, delivered, aborted>>

PreambleSize == preamble_size_for_type[hci_packet_type]

\* read() of at most want bytes returned n of them.
ReadSome(n, want) == n <= want /\ n <= moved - pos /\ pos' = pos + n

\* buffer with the n bytes at pos stored from index offset + 1 on.
Stored(buffer, offset, n) ==
    [i \in DOMAIN buffer |->
        IF i > offset /\ i <= offset + n THEN stream[pos + i - offset] ELSE buffer[i]]

ReadPreamble(n) ==
    /\ Readable
    /\ hci_packet_type # HCI_PACKET_TYPE_UNKNOWN
    /\ state = "HCI_PREAMBLE"
    /\ ReadSome(n, PreambleSize - bytes_read)
    /\ preamble' = Stored(preamble, bytes_read, n)
    /\ bytes_read + n < PreambleSize
    /\ bytes_read' = bytes_read + n
    /\ UNCHANGED <<controller, moved, blocked, hci_packet_type, state, packet,
                   bytes_remaining, delivered, aborted>>

\* Mutation: only the low byte of the length field is looked at.
LowByteOfLength == preamble'[packet_length_offset_for_type[hci_packet_type] + 1]
AnnouncedLength == HciGetPacketLengthForType(hci_packet_type, preamble')

CompletePreamble(n) ==
    /\ Readable
    /\ hci_packet_type # HCI_PACKET_TYPE_UNKNOWN
    /\ state = "HCI_PREAMBLE"
    /\ ReadSome(n, PreambleSize - bytes_read)
    /\ preamble' = Stored(preamble, bytes_read, n)
    /\ bytes_read + n = PreambleSize
    /\ LET packet_length == AnnouncedLength
       IN  /\ packet' = [i \in 1..(PreambleSize + packet_length) |->
                            IF i <= PreambleSize THEN preamble'[i] ELSE 0]
           /\ bytes_remaining' = packet_length
    /\ state' = "HCI_PAYLOAD"
    /\ bytes_read' = 0
    /\ UNCHANGED <<controller, moved, blocked, hci_packet_type, delivered, aborted>>

CountDown(n) == bytes_remaining' = bytes_remaining - n

ReadPayload(n) ==
    /\ Readable
    /\ hci_packet_type # HCI_PACKET_TYPE_UNKNOWN
    /\ state = "HCI_PAYLOAD"
    /\ ReadSome(n, bytes_remaining)
    /\ n < bytes_remaining
    /\ packet' = Stored(packet, PreambleSize + bytes_read, n)
    /\ CountDown(n)
    /\ bytes_read' = bytes_read + n
    /\ UNCHANGED <<controller, moved, blocked, hci_packet_type, state, preamble,
                   delivered, aborted>>

\* Mutation: the parser stays in the payload of a packet that is complete.
StayInPayload == state' = state /\ bytes_read' = 0
BackToPreamble == state' = "HCI_PREAMBLE" /\ bytes_read' = 0

\* Mutation: the type of the last packet is kept, no new type byte is read.
KeepType == hci_packet_type' = hci_packet_type
ReadyForType == hci_packet_type' = HCI_PACKET_TYPE_UNKNOWN

\* The last payload byte: OnPacketReady gives the packet to the callback of its
\* type (CHECK fails for any other type) and waits for the next type byte.
CompletePacket(n) ==
    /\ Readable
    /\ hci_packet_type # HCI_PACKET_TYPE_UNKNOWN
    /\ state = "HCI_PAYLOAD"
    /\ ReadSome(n, bytes_remaining)
    /\ n = bytes_remaining
    /\ packet' = Stored(packet, PreambleSize + bytes_read, n)
    /\ bytes_remaining' = 0
    /\ BackToPreamble
    /\ ReadyForType
    /\ IF hci_packet_type \in ReceivedTypes
       THEN /\ delivered' = Append(delivered,
                                   [type |-> hci_packet_type, body |-> packet'])
            /\ UNCHANGED aborted
       ELSE /\ aborted' = TRUE
            /\ UNCHANGED delivered
    /\ UNCHANGED <<controller, moved, blocked, preamble>>

\* No payload byte is wanted, so read() returns 0 and CHECK(bytes_read > 0) fails.
EmptyPayloadAborts ==
    /\ Readable
    /\ hci_packet_type # HCI_PACKET_TYPE_UNKNOWN
    /\ state = "HCI_PAYLOAD"
    /\ bytes_remaining = 0
    /\ aborted' = TRUE
    /\ UNCHANGED <<controller, moved, pos, blocked, hci_packet_type, packetizer,
                   delivered>>

OnDataReady(n) ==
    \/ ReadPreamble(n) \/ CompletePreamble(n)
    \/ ReadPayload(n) \/ CompletePacket(n)

-----------------------------------------------------------------------------
Forward == \E n \in 1..(StreamLen - moved) : ForwardTty(n) \/ ForwardTtyBlocks(n)

Receive ==
    \/ ReadType
    \/ \E n \in 1..(moved - pos) : OnDataReady(n)
    \/ EmptyPayloadAborts

Next ==
    \/ \E p \in Packets : ControllerSends(p)
    \/ Forward
    \/ Receive

Spec == Init /\ [][Next]_vars

\* The watcher thread keeps running the callbacks of readable descriptors.
FairSpec == Spec /\ WF_vars(Forward) /\ WF_vars(Receive)

-----------------------------------------------------------------------------
(* Properties.                                                             *)

\* However reads cut the stream, the packets the callbacks have been given are
\* the first packets the controller sent: whole, in order, none twice.
DeliveredInOrder ==
    /\ Len(delivered) <= Len(sent)
    /\ \A i \in 1..Len(delivered) : delivered[i] = sent[i]

\* The next read stays inside the buffer it is given: preamble_ while in the
\* preamble, the resized packet_ while in the payload (nothing in the code checks it).
ReadsStayInBuffers ==
    hci_packet_type # HCI_PACKET_TYPE_UNKNOWN =>
        IF state = "HCI_PREAMBLE"
        THEN bytes_read < PreambleSize /\ PreambleSize <= HCI_PREAMBLE_SIZE_MAX
        ELSE PreambleSize + bytes_read + bytes_remaining = Len(packet)

\* "CHECK(bytes_read > 0)" (hci_packetizer.cc, lines 56 and 75): no CHECK of the
\* receive path fails while the controller sends well-formed packets.
ChecksHold == ~aborted

\* Where the first packet that has not been delivered begins.
FrameStart ==
    IF Len(delivered) < Len(sent) THEN starts[Len(delivered) + 1] ELSE StreamLen

Current == sent[Len(delivered) + 1]

\* What is left of ChecksHold: no CHECK of the receive path ever fails but on a
\* packet without payload, and then in its turn, with all before it delivered.
OnlyEmptyPacketsAbort ==
    aborted => Len(delivered) < Len(sent) /\ PayloadLen(Current) = 0

\* Every packet the controller sends is delivered, unless it or one before it has
\* no payload, or the watcher thread sleeps in write() on a full shim socket. (A
\* packet without payload is not even delivered when nothing follows it: the parser
\* waits for a byte of its payload.)
EveryPacketDelivered ==
    \A i \in 1..MaxPackets :
        Len(sent) >= i /\ (\A k \in 1..i : PayloadLen(sent[k]) > 0)
            ~> Len(delivered) >= i \/ blocked

\* The receive path is a channel of packets: none is lost, made up, repeated,
\* changed or overtaken.
Channel == INSTANCE PacketChannel
ImplementsChannel == Channel!SafetySpec

-----------------------------------------------------------------------------
(* The inductive invariant behind DeliveredInOrder.                        *)

\* Frame i of the stream: the type byte at starts[i] + 1, then the body.
FrameLen(i) == BodyLen(sent[i]) + 1

StreamInv ==
    /\ Len(starts) = Len(sent)
    /\ sent = <<>> => stream = <<>>
    /\ \A i \in 1..Len(sent) :
        /\ starts[i] = IF i = 1 THEN 0 ELSE starts[i - 1] + FrameLen(i - 1)
        /\ starts[i] + FrameLen(i) <= StreamLen
        /\ i = Len(sent) => starts[i] + FrameLen(i) = StreamLen
        /\ stream[starts[i] + 1] = sent[i].type
        /\ \A j \in 1..BodyLen(sent[i]) : stream[starts[i] + 1 + j] = sent[i].body[j]

BetweenFrames ==
    /\ state = "HCI_PREAMBLE"
    /\ bytes_read = 0
    /\ pos = FrameStart

InPreamble ==
    /\ pos = FrameStart + 1 + bytes_read
    /\ bytes_read < PreambleSize
    /\ \A j \in 1..bytes_read : preamble[j] = Current.body[j]

InPayload ==
    /\ pos = FrameStart + 1 + PreambleSize + bytes_read
    /\ Len(packet) = BodyLen(Current)
    /\ PreambleSize + bytes_read + bytes_remaining = Len(packet)
    /\ \A j \in 1..(PreambleSize + bytes_read) : packet[j] = Current.body[j]
    /\ bytes_remaining = 0 => PayloadLen(Current) = 0

\* What H4Protocol and HciPacketizer hold is the part of the current frame that
\* lies before pos.
ParserInv ==
    IF hci_packet_type = HCI_PACKET_TYPE_UNKNOWN
    THEN BetweenFrames
    ELSE /\ Len(delivered) < Len(sent)
         /\ hci_packet_type = Current.type
         /\ IF state = "HCI_PREAMBLE" THEN InPreamble ELSE InPayload

FramingInv ==
    /\ TypeOK
    /\ StreamInv
    /\ DeliveredInOrder
    /\ ParserInv
    /\ OnlyEmptyPacketsAbort
=============================================================================
