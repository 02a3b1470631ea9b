------------------------------ MODULE H4Proofs ------------------------------
(***************************************************************************)
(* Proofs about the two halves of the H4 transport.                        *)
(*                                                                         *)
(* H4Receive: for every byte width, every set of well-formed packets and   *)
(* every way the reads cut the stream, the packets delivered are the       *)
(* packets sent.                                                           *)
(*                                                                         *)
(* H4Send: for every number of threads and frames and every way the writes *)
(* cut them, the bytes of a frame are on the wire in order, and a thread's *)
(* frames whole and one after the other.                                   *)
(***************************************************************************)
EXTENDS H4Receive, H4Send, SequenceTheorems, TLAPS

-----------------------------------------------------------------------------
(* The receiving half.                                                     *)

\* The two parts of a packet, and the preamble that is never longer than
\* the buffer the code keeps for it.
LEMMA PacketParts ==
    ASSUME NEW p \in Packets
    PROVE  /\ p.type \in ReceivedTypes
           /\ p.body \in Seq(ByteValues)
           /\ BodyLen(p) \in Nat
           /\ p = [type |-> p.type, body |-> p.body]
           /\ preamble_size_for_type[p.type] \in 2..HCI_PREAMBLE_SIZE_MAX
           /\ BodyLen(p) >= preamble_size_for_type[p.type]
           /\ HciGetPacketLengthForType(p.type, p.body) = PayloadLen(p)
           /\ p.type \in ByteValues
<1>1. p \in [type : ReceivedTypes, body : Seq(ByteValues)]
  BY PacketsAssumption DEF WellFormed
<1>2. p.type \in {2, 3, 4}
  BY <1>1 DEF ReceivedTypes, HCI_PACKET_TYPE_EVENT, HCI_PACKET_TYPE_ACL_DATA,
              HCI_PACKET_TYPE_SCO_DATA
<1>3. preamble_size_for_type[p.type] \in 2..HCI_PREAMBLE_SIZE_MAX
  BY <1>2 DEF preamble_size_for_type, HCI_PREAMBLE_SIZE_MAX
<1>4. p.type \in ByteValues
  BY <1>2, RadixAssumption DEF ByteValues, HCI_PACKET_TYPE_EVENT
<1> QED
  BY <1>1, <1>3, <1>4, PacketsAssumption, LenProperties DEF WellFormed, BodyLen

\* The length field lies in the preamble: two buffers that agree on it give the
\* same length.
LEMMA LengthInPreamble ==
    ASSUME NEW type \in ReceivedTypes, NEW a, NEW b,
           \A j \in 1..preamble_size_for_type[type] : a[j] = b[j]
    PROVE  HciGetPacketLengthForType(type, a) = HciGetPacketLengthForType(type, b)
<1>1. type \in {2, 3, 4}
  BY DEF ReceivedTypes, HCI_PACKET_TYPE_EVENT, HCI_PACKET_TYPE_ACL_DATA,
         HCI_PACKET_TYPE_SCO_DATA
<1>2. CASE type = 2
  BY <1>2 DEF preamble_size_for_type, packet_length_offset_for_type,
              HciGetPacketLengthForType, HCI_PACKET_TYPE_ACL_DATA
<1>3. CASE type = 3
  BY <1>3 DEF preamble_size_for_type, packet_length_offset_for_type,
              HciGetPacketLengthForType, HCI_PACKET_TYPE_ACL_DATA
<1>4. CASE type = 4
  BY <1>4 DEF preamble_size_for_type, packet_length_offset_for_type,
              HciGetPacketLengthForType, HCI_PACKET_TYPE_ACL_DATA
<1> QED
  BY <1>1, <1>2, <1>3, <1>4

\* Before anything is sent, nothing is framed.
LEMMA InitFraming == Init => FramingInv
<1> SUFFICES ASSUME Init PROVE FramingInv
  OBVIOUS
<1> USE DEF Init
<1>1. TypeOK
  <2>1. 0 \in ByteValues
    BY RadixAssumption DEF ByteValues, HCI_PACKET_TYPE_EVENT
  <2>2. preamble \in [1..HCI_PREAMBLE_SIZE_MAX -> ByteValues]
    BY <2>1
  <2>3. sent \in Seq(Packets) /\ starts \in Seq(Nat) /\ stream \in Seq(ByteValues)
    BY EmptySeq
  <2>4. packet \in Seq(ByteValues) /\ delivered \in Seq(Packets)
    BY EmptySeq
  <2>5. moved \in 0..StreamLen /\ pos \in 0..moved
    BY EmptySeq DEF StreamLen
  <2> QED
    BY <2>2, <2>3, <2>4, <2>5 DEF TypeOK
<1>2. StreamInv
  BY DEF StreamInv
<1>3. DeliveredInOrder
  BY DEF DeliveredInOrder
<1>4. ParserInv
  BY DEF ParserInv, BetweenFrames, FrameStart, StreamLen
<1>5. OnlyEmptyPacketsAbort
  BY DEF OnlyEmptyPacketsAbort
<1> QED
  BY <1>1, <1>2, <1>3, <1>4, <1>5 DEF FramingInv

\* The frame of the first undelivered packet lies in the stream, byte for byte.
LEMMA CurrentFrame ==
    ASSUME FramingInv, Len(delivered) < Len(sent)
    PROVE  /\ Current \in Packets
           /\ FrameStart \in Nat
           /\ FrameStart + 1 + BodyLen(Current) <= StreamLen
           /\ stream[FrameStart + 1] = Current.type
           /\ \A j \in 1..BodyLen(Current) : stream[FrameStart + 1 + j] = Current.body[j]
<1> DEFINE i == Len(delivered) + 1
<1>1. i \in 1..Len(sent) /\ Len(starts) = Len(sent)
  BY DEF FramingInv, TypeOK, StreamInv
<1>2. Current \in Packets
  BY <1>1 DEF FramingInv, TypeOK, Current
<1>3. BodyLen(Current) \in Nat
  BY <1>2, PacketParts
<1>4. FrameStart = starts[i] /\ starts[i] \in Nat
  BY <1>1 DEF FrameStart, FramingInv, TypeOK
<1>5. /\ starts[i] + FrameLen(i) <= StreamLen
      /\ stream[starts[i] + 1] = sent[i].type
      /\ \A j \in 1..BodyLen(sent[i]) : stream[starts[i] + 1 + j] = sent[i].body[j]
  BY <1>1 DEF FramingInv, StreamInv
<1>6. /\ Current = sent[i] /\ FrameStart = starts[i]
      /\ FrameLen(i) = BodyLen(Current) + 1
  BY <1>4 DEF Current, FrameLen
<1>7. StreamLen \in Nat
  BY LenProperties DEF FramingInv, TypeOK, StreamLen
<1> HIDE DEF i
<1>8. FrameStart + 1 + BodyLen(Current) <= StreamLen
  BY <1>3, <1>4, <1>5, <1>6, <1>7
<1> QED
  BY <1>2, <1>4, <1>5, <1>6, <1>8

\* A new packet extends the stream by its frame and touches nothing before it.
LEMMA SendExtendsStream ==
    ASSUME FramingInv, NEW p \in Packets, ControllerSends(p)
    PROVE  /\ stream' \in Seq(ByteValues)
           /\ StreamLen' = StreamLen + 1 + BodyLen(p)
           /\ \A k \in 1..StreamLen : stream'[k] = stream[k]
           /\ stream'[StreamLen + 1] = p.type
           /\ \A j \in 1..BodyLen(p) : stream'[StreamLen + 1 + j] = p.body[j]
<1> DEFINE head == stream \o <<p.type>>
<1>1. stream \in Seq(ByteValues) /\ Len(stream) \in Nat
  BY DEF FramingInv, TypeOK
<1>2. p.body \in Seq(ByteValues) /\ Len(p.body) \in Nat /\ <<p.type>> \in Seq(ByteValues)
  BY PacketParts DEF BodyLen
<1>3. /\ head \in Seq(ByteValues)
      /\ Len(head) = Len(stream) + 1
      /\ \A k \in 1..Len(stream) : head[k] = stream[k]
      /\ head[Len(stream) + 1] = p.type
  <2>1. Len(<<p.type>>) = 1 /\ <<p.type>>[1] = p.type
    OBVIOUS
  <2> QED
    BY <1>1, <1>2, <2>1, ConcatProperties
<1>4. stream' = head \o p.body
  BY DEF ControllerSends
<1> HIDE DEF head
<1>5. /\ stream' \in Seq(ByteValues)
      /\ Len(stream') = Len(head) + Len(p.body)
      /\ \A k \in 1..(Len(head) + Len(p.body)) :
            stream'[k] = IF k <= Len(head) THEN head[k] ELSE p.body[k - Len(head)]
  BY <1>2, <1>3, <1>4, ConcatProperties
<1>6. /\ StreamLen \in Nat /\ BodyLen(p) \in Nat
      /\ StreamLen' = StreamLen + 1 + BodyLen(p)
  BY <1>1, <1>2, <1>3, <1>5 DEF StreamLen, BodyLen
<1>7. \A k \in 1..(StreamLen + 1 + BodyLen(p)) :
         stream'[k] = IF k <= StreamLen + 1 THEN head[k] ELSE p.body[k - (StreamLen + 1)]
  BY <1>3, <1>5 DEF StreamLen, BodyLen
<1>8. /\ \A k \in 1..StreamLen : head[k] = stream[k]
      /\ head[StreamLen + 1] = p.type
  BY <1>3 DEF StreamLen
<1>9. \A k \in 1..StreamLen : stream'[k] = stream[k]
  BY <1>6, <1>7, <1>8
<1>10. stream'[StreamLen + 1] = p.type
  BY <1>6, <1>7, <1>8
<1>11. ASSUME NEW j \in 1..BodyLen(p) PROVE stream'[StreamLen + 1 + j] = p.body[j]
  <2> DEFINE k == StreamLen + 1 + j
  <2>1. /\ k \in 1..(StreamLen + 1 + BodyLen(p))
        /\ ~(k <= StreamLen + 1)
        /\ k - (StreamLen + 1) = j
    BY <1>6
  <2> HIDE DEF k
  <2>2. stream'[k] = p.body[j]
    BY <1>7, <2>1
  <2> QED
    BY <2>2 DEF k
<1> QED
  BY <1>5, <1>6, <1>9, <1>10, <1>11

\* A packet sent behind the frame being read does not disturb what has been read of it.
LEMMA SendFraming ==
    ASSUME FramingInv, NEW p \in Packets, ControllerSends(p)
    PROVE  FramingInv'
<1> DEFINE N == Len(sent)
           D == Len(delivered)
<1>1. /\ sent \in Seq(Packets) /\ N \in Nat
      /\ starts \in Seq(Nat) /\ Len(starts) = N
      /\ delivered \in Seq(Packets) /\ D \in 0..N
  BY DEF FramingInv, TypeOK, StreamInv, DeliveredInOrder
<1>2. /\ sent' = Append(sent, p)
      /\ starts' = Append(starts, StreamLen)
      /\ moved' = moved /\ pos' = pos /\ blocked' = blocked /\ aborted' = aborted
      /\ hci_packet_type' = hci_packet_type /\ delivered' = delivered
      /\ state' = state /\ preamble' = preamble /\ packet' = packet
      /\ bytes_remaining' = bytes_remaining /\ bytes_read' = bytes_read
  BY DEF ControllerSends, packetizer
<1>3. /\ stream' \in Seq(ByteValues)
      /\ \A k \in 1..StreamLen : stream'[k] = stream[k]
      /\ stream'[StreamLen + 1] = p.type
      /\ \A j \in 1..BodyLen(p) : stream'[StreamLen + 1 + j] = p.body[j]
  BY SendExtendsStream
<1>4. /\ StreamLen \in Nat /\ BodyLen(p) \in Nat
      /\ StreamLen' = StreamLen + 1 + BodyLen(p)
  BY SendExtendsStream, PacketParts DEF FramingInv, TypeOK, StreamLen
<1>5. /\ sent' \in Seq(Packets) /\ Len(sent') = N + 1 /\ sent'[N + 1] = p
      /\ \A i \in 1..N : sent'[i] = sent[i]
  BY <1>1, <1>2
<1>6. /\ starts' \in Seq(Nat) /\ Len(starts') = N + 1 /\ starts'[N + 1] = StreamLen
      /\ \A i \in 1..N : starts'[i] = starts[i]
  BY <1>1, <1>2, <1>4
<1>7. TypeOK'
  <2>1. moved' \in 0..StreamLen'
    BY <1>2, <1>4 DEF FramingInv, TypeOK
  <2> QED
    BY <1>2, <1>3, <1>5, <1>6, <2>1 DEF FramingInv, TypeOK
<1>8. StreamInv'
  <2>1. /\ N = 0 => StreamLen = 0
        /\ N > 0 => StreamLen = starts[N] + (BodyLen(sent[N]) + 1)
    <3>1. CASE N = 0
      <4>1. sent = <<>>
        BY <1>1, <3>1, EmptySeq
      <4> QED
        BY <3>1, <4>1 DEF FramingInv, StreamInv, StreamLen
    <3>2. CASE N > 0
      <4>1. N \in 1..Len(sent)
        BY <1>1, <3>2
      <4> QED
        BY <3>2, <4>1 DEF FramingInv, StreamInv, FrameLen
    <3> QED
      BY <1>1, <3>1, <3>2
  <2>2. ASSUME NEW i \in 1..(N + 1)
        PROVE  /\ starts'[i] = IF i = 1 THEN 0 ELSE starts'[i - 1] + (BodyLen(sent'[i - 1]) + 1)
               /\ starts'[i] + (BodyLen(sent'[i]) + 1) <= StreamLen'
               /\ i = N + 1 => starts'[i] + (BodyLen(sent'[i]) + 1) = StreamLen'
               /\ stream'[starts'[i] + 1] = sent'[i].type
               /\ \A j \in 1..BodyLen(sent'[i]) :
                     stream'[starts'[i] + 1 + j] = sent'[i].body[j]
    <3>1. CASE i \in 1..N
      <4>1. /\ starts[i] = IF i = 1 THEN 0 ELSE starts[i - 1] + (BodyLen(sent[i - 1]) + 1)
            /\ starts[i] + (BodyLen(sent[i]) + 1) <= StreamLen
            /\ stream[starts[i] + 1] = sent[i].type
            /\ \A j \in 1..BodyLen(sent[i]) : stream[starts[i] + 1 + j] = sent[i].body[j]
        BY <3>1 DEF FramingInv, StreamInv, FrameLen
      <4>2. /\ sent'[i] = sent[i] /\ starts'[i] = starts[i]
            /\ i # 1 => sent'[i - 1] = sent[i - 1] /\ starts'[i - 1] = starts[i - 1]
        <5>1. i # 1 => i - 1 \in 1..N
          BY <1>1, <3>1
        <5> QED
          BY <1>5, <1>6, <3>1, <5>1
      <4>3. sent[i] \in Packets /\ starts[i] \in Nat
        BY <1>1, <3>1
      <4>4. BodyLen(sent[i]) \in Nat
        BY <4>3, PacketParts
      <4>5. starts[i] + 1 \in 1..StreamLen
        BY <1>4, <4>1, <4>3, <4>4
      <4>6. ASSUME NEW j \in 1..BodyLen(sent[i])
            PROVE  stream'[starts[i] + 1 + j] = sent[i].body[j]
        <5>1. starts[i] + 1 + j \in 1..StreamLen
          BY <1>4, <4>1, <4>3, <4>4
        <5> QED
          BY <1>3, <4>1, <5>1
      <4>7. stream'[starts[i] + 1] = sent[i].type
        BY <1>3, <4>1, <4>5
      <4>8. starts[i] + (BodyLen(sent[i]) + 1) <= StreamLen'
        BY <1>4, <4>1, <4>3, <4>4
      <4>9. i # N + 1
        BY <1>1, <3>1
      <4> HIDE DEF N
      <4> QED
        BY <4>1, <4>2, <4>6, <4>7, <4>8, <4>9
    <3>2. CASE i = N + 1
      <4>1. starts'[i] = StreamLen /\ sent'[i] = p
        BY <1>5, <1>6, <3>2
      <4>2. N > 0 => starts'[N] = starts[N] /\ sent'[N] = sent[N]
        BY <1>1, <1>5, <1>6
      <4>3. starts'[i] = IF i = 1 THEN 0 ELSE starts'[i - 1] + (BodyLen(sent'[i - 1]) + 1)
        <5>1. CASE N = 0
          BY <2>1, <3>2, <4>1, <5>1
        <5>2. CASE N > 0
          <6>1. i # 1 /\ i - 1 = N
            BY <1>1, <3>2, <5>2
          <6> HIDE DEF N
          <6> QED
            BY <2>1, <4>1, <4>2, <5>2, <6>1
        <5> QED
          BY <1>1, <5>1, <5>2
      <4>4. starts'[i] + (BodyLen(sent'[i]) + 1) = StreamLen'
        BY <1>4, <4>1
      <4>5. starts'[i] + (BodyLen(sent'[i]) + 1) <= StreamLen'
        BY <1>4, <4>4
      <4> HIDE DEF N
      <4> QED
        BY <1>3, <4>1, <4>3, <4>4, <4>5
    <3> QED
      BY <1>1, <3>1, <3>2
  <2>3. sent' # <<>> /\ Len(starts') = Len(sent')
    BY <1>1, <1>5, <1>6
  <2> HIDE DEF N
  <2> QED
    BY <1>5, <2>2, <2>3 DEF StreamInv, FrameLen
<1>9. DeliveredInOrder'
  BY <1>1, <1>2, <1>5 DEF FramingInv, DeliveredInOrder
<1>10. FrameStart' = FrameStart
  <2>1. CASE D = N
    <3>1. Len(delivered') < Len(sent') /\ Len(delivered') + 1 = N + 1
      BY <1>1, <1>2, <1>5, <2>1
    <3>2. FrameStart' = starts'[N + 1]
      BY <3>1 DEF FrameStart
    <3>3. FrameStart = StreamLen
      BY <1>1, <2>1 DEF FrameStart
    <3> QED
      BY <1>6, <3>2, <3>3
  <2>2. CASE D < N
    <3>1. Len(delivered') < Len(sent') /\ Len(delivered') + 1 = D + 1 /\ D + 1 \in 1..N
      BY <1>1, <1>2, <1>5, <2>2
    <3>2. FrameStart' = starts'[D + 1]
      BY <3>1 DEF FrameStart
    <3>3. FrameStart = starts[D + 1]
      BY <2>2 DEF FrameStart
    <3> QED
      BY <1>6, <3>1, <3>2, <3>3
  <2> QED
    BY <1>1, <2>1, <2>2
<1>11. D < N => Current' = Current
  <2> SUFFICES ASSUME D < N PROVE Current' = Current
    OBVIOUS
  <2>1. Current' = sent'[D + 1]
    BY <1>2 DEF Current
  <2>2. D + 1 \in 1..N
    BY <1>1
  <2> QED
    BY <1>5, <2>1, <2>2 DEF Current
<1>12. ParserInv'
  <2>1. CASE hci_packet_type = HCI_PACKET_TYPE_UNKNOWN
    BY <1>2, <1>10, <2>1 DEF FramingInv, ParserInv, BetweenFrames
  <2>2. CASE hci_packet_type # HCI_PACKET_TYPE_UNKNOWN
    <3>1. D < N /\ hci_packet_type = Current.type /\ N + 1 > D
      BY <1>1, <2>2 DEF FramingInv, ParserInv
    <3>2. Current' = Current /\ Len(delivered') < Len(sent')
      BY <1>1, <1>2, <1>5, <1>11, <3>1
    <3>3. PreambleSize' = PreambleSize
      BY <1>2 DEF PreambleSize
    <3>4. CASE state = "HCI_PREAMBLE"
      BY <1>2, <1>10, <2>2, <3>1, <3>2, <3>3, <3>4 DEF FramingInv, ParserInv, InPreamble
    <3>5. CASE state # "HCI_PREAMBLE"
      BY <1>2, <1>10, <2>2, <3>1, <3>2, <3>3, <3>5 DEF FramingInv, ParserInv, InPayload
    <3> QED
      BY <3>4, <3>5
  <2> QED
    BY <2>1, <2>2
<1>13. OnlyEmptyPacketsAbort'
  BY <1>1, <1>2, <1>5, <1>11 DEF FramingInv, OnlyEmptyPacketsAbort
<1> QED
  BY <1>7, <1>8, <1>9, <1>12, <1>13 DEF FramingInv

-----------------------------------------------------------------------------
(* The steps of the watcher thread.                                        *)

\* Steps that neither send nor deliver leave the frames where they are.
LEMMA FramesStay ==
    ASSUME FramingInv, UNCHANGED controller, UNCHANGED delivered
    PROVE  /\ StreamInv' /\ DeliveredInOrder'
           /\ FrameStart' = FrameStart /\ Current' = Current /\ StreamLen' = StreamLen
           /\ Len(delivered') < Len(sent') <=> Len(delivered) < Len(sent)
           /\ aborted' = aborted => OnlyEmptyPacketsAbort'
<1>1. sent' = sent /\ starts' = starts /\ stream' = stream /\ delivered' = delivered
  BY DEF controller
<1> QED
  BY <1>1 DEF FramingInv, StreamInv, DeliveredInOrder, FrameStart, Current, StreamLen,
              FrameLen, OnlyEmptyPacketsAbort

\* The facts of TypeOK that are about numbers.
LEMMA Positions ==
    ASSUME FramingInv
    PROVE  /\ StreamLen \in Nat /\ moved \in Nat /\ pos \in Nat
           /\ moved <= StreamLen /\ pos <= moved
           /\ bytes_read \in Nat /\ bytes_remaining \in Nat
BY DEF FramingInv, TypeOK, StreamLen

\* Forwarding bytes, or blocking in the middle of it, only moves the line between the
\* tty and the shim socket.
LEMMA ForwardFraming ==
    ASSUME FramingInv, NEW n \in Nat, ForwardTty(n) \/ ForwardTtyBlocks(n)
    PROVE  FramingInv'
<1>1. UNCHANGED <<controller, pos, hci_packet_type, packetizer, delivered, aborted>>
  BY DEF ForwardTty, ForwardTtyBlocks
<1>2. StreamInv' /\ DeliveredInOrder' /\ FrameStart' = FrameStart /\ Current' = Current
      /\ StreamLen' = StreamLen /\ (Len(delivered') < Len(sent') <=> Len(delivered) < Len(sent))
      /\ OnlyEmptyPacketsAbort'
  BY <1>1, FramesStay
<1>3. moved' \in 0..StreamLen /\ pos \in 0..moved' /\ blocked' \in BOOLEAN
  <2>1. CASE ForwardTty(n)
    BY <2>1, Positions DEF ForwardTty, FramingInv, TypeOK
  <2>2. CASE ForwardTtyBlocks(n)
    BY <2>2, Positions, LimitsAssumption DEF ForwardTtyBlocks
  <2> QED
    BY <2>1, <2>2
<1>4. TypeOK'
  BY <1>1, <1>2, <1>3 DEF FramingInv, TypeOK, controller, packetizer
<1>5. ParserInv'
  BY <1>1, <1>2
     DEF FramingInv, ParserInv, BetweenFrames, InPreamble, InPayload, PreambleSize, packetizer
<1> QED
  BY <1>1, <1>2, <1>4, <1>5 DEF FramingInv

\* H4Protocol reads the type byte only between two frames, so what it reads is the type
\* of the next packet.
LEMMA ReadTypeFraming == ASSUME FramingInv, ReadType PROVE FramingInv'
<1>1. /\ UNCHANGED controller /\ UNCHANGED delivered
      /\ moved' = moved /\ blocked' = blocked /\ aborted' = aborted
      /\ state' = state /\ preamble' = preamble /\ packet' = packet
      /\ bytes_remaining' = bytes_remaining /\ bytes_read' = bytes_read
      /\ pos' = pos + 1 /\ pos < moved
  BY DEF ReadType, Readable, packetizer
<1>2. StreamInv' /\ DeliveredInOrder' /\ FrameStart' = FrameStart /\ Current' = Current
      /\ StreamLen' = StreamLen /\ (Len(delivered') < Len(sent') <=> Len(delivered) < Len(sent))
      /\ OnlyEmptyPacketsAbort'
  BY <1>1, FramesStay
<1>3. state = "HCI_PREAMBLE" /\ bytes_read = 0 /\ pos = FrameStart
  BY DEF FramingInv, ParserInv, BetweenFrames, ReadType
<1>4. Len(delivered) < Len(sent)
  BY <1>1, <1>3, Positions DEF FrameStart
<1>5. hci_packet_type' = Current.type
  BY <1>3, <1>4, CurrentFrame DEF ReadType
<1>6. Current \in Packets
  BY <1>4, CurrentFrame
<1>7. /\ Current.type \in ReceivedTypes
      /\ preamble_size_for_type[Current.type] \in 2..HCI_PREAMBLE_SIZE_MAX
  BY <1>6, PacketParts
<1>8. hci_packet_type' # HCI_PACKET_TYPE_UNKNOWN
  BY <1>5, <1>7
     DEF ReceivedTypes, HCI_PACKET_TYPE_UNKNOWN, HCI_PACKET_TYPE_EVENT,
         HCI_PACKET_TYPE_ACL_DATA, HCI_PACKET_TYPE_SCO_DATA
<1>9. pos' \in 0..moved'
  BY <1>1, Positions
<1>10. TypeOK'
  BY <1>1, <1>2, <1>5, <1>7, <1>9 DEF FramingInv, TypeOK, controller
<1>11. InPreamble'
  BY <1>1, <1>2, <1>3, <1>5, <1>7, Positions DEF InPreamble, PreambleSize
<1>12. ParserInv'
  BY <1>1, <1>2, <1>3, <1>4, <1>5, <1>8, <1>11 DEF ParserInv
<1> QED
  BY <1>1, <1>2, <1>10, <1>12 DEF FramingInv

\* Storing the next n bytes of the current frame behind the offset bytes that a
\* buffer already has of it.
LEMMA StoredCopies ==
    ASSUME FramingInv, Len(delivered) < Len(sent),
           NEW m \in Nat, NEW buffer \in [1..m -> ByteValues],
           NEW offset \in Nat, NEW n \in Nat,
           pos = FrameStart + 1 + offset,
           offset + n <= BodyLen(Current),
           \A j \in 1..offset : buffer[j] = Current.body[j]
    PROVE  /\ Stored(buffer, offset, n) \in [1..m -> ByteValues]
           /\ \A j \in 1..m : j <= offset + n => Stored(buffer, offset, n)[j] = Current.body[j]
<1>1. /\ FrameStart \in Nat
      /\ \A j \in 1..BodyLen(Current) : stream[FrameStart + 1 + j] = Current.body[j]
      /\ Current \in Packets
  BY CurrentFrame
<1>2. Current.body \in Seq(ByteValues) /\ BodyLen(Current) \in Nat
  BY <1>1, PacketParts
<1>3. ASSUME NEW j \in 1..m, j > offset, j <= offset + n
      PROVE  /\ stream[pos + j - offset] = Current.body[j]
             /\ Current.body[j] \in ByteValues
  <2>0. FrameStart \in Nat /\ BodyLen(Current) \in Nat
    BY <1>1, <1>2
  <2>1. pos + j - offset = FrameStart + 1 + j /\ j \in 1..BodyLen(Current)
    BY <1>3, <2>0
  <2>2. Current.body[j] \in ByteValues
    BY <1>2, <2>1, ElementOfSeq DEF BodyLen
  <2> QED
    BY <1>1, <2>1, <2>2
<1>4. \A j \in 1..m : j <= offset => buffer[j] = Current.body[j]
  OBVIOUS
<1>5. DOMAIN buffer = 1..m
  OBVIOUS
<1>6. \A j \in 1..m :
         Stored(buffer, offset, n)[j] =
            IF j > offset /\ j <= offset + n THEN stream[pos + j - offset] ELSE buffer[j]
  BY <1>5 DEF Stored
<1>7. \A j \in 1..m : j <= offset + n => Stored(buffer, offset, n)[j] = Current.body[j]
  BY <1>3, <1>4, <1>6
<1>8. \A j \in 1..m : Stored(buffer, offset, n)[j] \in ByteValues
  BY <1>3, <1>6
<1>9. Stored(buffer, offset, n) = [j \in 1..m |-> Stored(buffer, offset, n)[j]]
  BY <1>5 DEF Stored
<1> QED
  BY <1>7, <1>8, <1>9

\* Inside a frame: the packet it belongs to and the sizes the code derives from it.
LEMMA InFrame ==
    ASSUME FramingInv, hci_packet_type # HCI_PACKET_TYPE_UNKNOWN
    PROVE  /\ Len(delivered) < Len(sent)
           /\ Current \in Packets
           /\ hci_packet_type = Current.type
           /\ hci_packet_type \in ReceivedTypes
           /\ FrameStart \in Nat
           /\ BodyLen(Current) \in Nat
           /\ PreambleSize \in 2..HCI_PREAMBLE_SIZE_MAX
           /\ PreambleSize <= BodyLen(Current)
           /\ FrameStart + 1 + BodyLen(Current) <= StreamLen
           /\ state = "HCI_PREAMBLE" => InPreamble
           /\ state # "HCI_PREAMBLE" => InPayload
<1>1. /\ Len(delivered) < Len(sent)
      /\ hci_packet_type = Current.type
      /\ state = "HCI_PREAMBLE" => InPreamble
      /\ state # "HCI_PREAMBLE" => InPayload
  BY DEF FramingInv, ParserInv
<1>2. Current \in Packets /\ FrameStart \in Nat /\ FrameStart + 1 + BodyLen(Current) <= StreamLen
  BY <1>1, CurrentFrame
<1>3. /\ Current.type \in ReceivedTypes
      /\ BodyLen(Current) \in Nat
      /\ preamble_size_for_type[Current.type] \in 2..HCI_PREAMBLE_SIZE_MAX
      /\ BodyLen(Current) >= preamble_size_for_type[Current.type]
  BY <1>2, PacketParts
<1>4. PreambleSize = preamble_size_for_type[Current.type]
  BY <1>1 DEF PreambleSize
<1>5. PreambleSize \in Nat /\ PreambleSize <= BodyLen(Current)
  BY <1>3, <1>4 DEF HCI_PREAMBLE_SIZE_MAX
<1> QED
  BY <1>1, <1>2, <1>3, <1>4, <1>5

\* What ReadSome leaves of the preamble: n more bytes of the frame are in it.
LEMMA PreambleStored ==
    ASSUME FramingInv, hci_packet_type # HCI_PACKET_TYPE_UNKNOWN, state = "HCI_PREAMBLE",
           NEW n \in Nat, ReadSome(n, PreambleSize - bytes_read),
           preamble' = Stored(preamble, bytes_read, n)
    PROVE  /\ preamble' \in [1..HCI_PREAMBLE_SIZE_MAX -> ByteValues]
           /\ \A j \in 1..(bytes_read + n) : preamble'[j] = Current.body[j]
           /\ bytes_read + n <= PreambleSize
           /\ pos' = FrameStart + 1 + bytes_read + n
           /\ pos' \in 0..moved
<1>1. /\ Len(delivered) < Len(sent)
      /\ FrameStart \in Nat /\ BodyLen(Current) \in Nat
      /\ PreambleSize \in Nat /\ PreambleSize <= HCI_PREAMBLE_SIZE_MAX
      /\ PreambleSize <= BodyLen(Current)
  BY InFrame DEF HCI_PREAMBLE_SIZE_MAX
<1>2. /\ pos = FrameStart + 1 + bytes_read /\ bytes_read < PreambleSize
      /\ \A j \in 1..bytes_read : preamble[j] = Current.body[j]
  BY InFrame DEF InPreamble
<1>3. bytes_read \in Nat /\ pos \in Nat /\ moved \in Nat /\ pos <= moved
  BY Positions
<1>4. n <= PreambleSize - bytes_read /\ n <= moved - pos /\ pos' = pos + n
  BY DEF ReadSome
<1>5. bytes_read + n <= PreambleSize /\ bytes_read + n <= BodyLen(Current)
  BY <1>1, <1>3, <1>4
<1>6. HCI_PREAMBLE_SIZE_MAX \in Nat
  BY DEF HCI_PREAMBLE_SIZE_MAX
<1>7. preamble \in [1..HCI_PREAMBLE_SIZE_MAX -> ByteValues]
  BY DEF FramingInv, TypeOK
<1>8. /\ preamble' \in [1..HCI_PREAMBLE_SIZE_MAX -> ByteValues]
      /\ \A j \in 1..HCI_PREAMBLE_SIZE_MAX :
            j <= bytes_read + n => preamble'[j] = Current.body[j]
  <2>1. /\ Stored(preamble, bytes_read, n) \in [1..HCI_PREAMBLE_SIZE_MAX -> ByteValues]
        /\ \A j \in 1..HCI_PREAMBLE_SIZE_MAX :
              j <= bytes_read + n => Stored(preamble, bytes_read, n)[j] = Current.body[j]
    <3> SUFFICES ASSUME NEW m \in Nat, preamble \in [1..m -> ByteValues]
                 PROVE  /\ Stored(preamble, bytes_read, n) \in [1..m -> ByteValues]
                        /\ \A j \in 1..m : j <= bytes_read + n =>
                              Stored(preamble, bytes_read, n)[j] = Current.body[j]
      BY <1>6, <1>7
    <3>1. Len(delivered) < Len(sent) /\ bytes_read \in Nat /\ n \in Nat
      BY <1>1, <1>3
    <3> QED
      BY <1>2, <1>5, <3>1, StoredCopies
  <2> QED
    BY <2>1
<1>9. \A j \in 1..(bytes_read + n) : j \in 1..HCI_PREAMBLE_SIZE_MAX /\ j <= bytes_read + n
  BY <1>1, <1>3, <1>5, <1>6
<1>10. pos' = FrameStart + 1 + bytes_read + n /\ pos' \in 0..moved
  BY <1>1, <1>2, <1>3, <1>4
<1> QED
  BY <1>5, <1>8, <1>9, <1>10

\* A part of the preamble: the first loop of HciPacketizer::OnDataReady.
LEMMA ReadPreambleFraming ==
    ASSUME FramingInv, NEW n \in Nat, ReadPreamble(n)
    PROVE  FramingInv'
<1>1. /\ UNCHANGED controller /\ UNCHANGED delivered
      /\ moved' = moved /\ blocked' = blocked /\ aborted' = aborted
      /\ hci_packet_type' = hci_packet_type /\ state' = state /\ packet' = packet
      /\ bytes_remaining' = bytes_remaining /\ bytes_read' = bytes_read + n
      /\ state = "HCI_PREAMBLE" /\ hci_packet_type # HCI_PACKET_TYPE_UNKNOWN
      /\ bytes_read + n < PreambleSize
  BY DEF ReadPreamble
<1>2. StreamInv' /\ DeliveredInOrder' /\ FrameStart' = FrameStart /\ Current' = Current
      /\ StreamLen' = StreamLen /\ (Len(delivered') < Len(sent') <=> Len(delivered) < Len(sent))
      /\ OnlyEmptyPacketsAbort'
  BY <1>1, FramesStay
<1>3. /\ preamble' \in [1..HCI_PREAMBLE_SIZE_MAX -> ByteValues]
      /\ \A j \in 1..(bytes_read + n) : preamble'[j] = Current.body[j]
      /\ pos' = FrameStart + 1 + bytes_read + n
      /\ pos' \in 0..moved
  BY <1>1, PreambleStored DEF ReadPreamble
<1>4. /\ Len(delivered) < Len(sent) /\ hci_packet_type = Current.type
      /\ FrameStart \in Nat /\ bytes_read \in Nat
  BY <1>1, InFrame, Positions
<1>5. TypeOK'
  BY <1>1, <1>2, <1>3, <1>4 DEF FramingInv, TypeOK, controller
<1>6. pos' = FrameStart + 1 + (bytes_read + n)
  BY <1>3, <1>4
<1>7. InPreamble'
  BY <1>1, <1>2, <1>3, <1>6 DEF InPreamble, PreambleSize
<1>8. ParserInv'
  BY <1>1, <1>2, <1>4, <1>7 DEF ParserInv
<1> QED
  BY <1>1, <1>2, <1>5, <1>8 DEF FramingInv

\* The end of the preamble: the length it tells is the length of the payload that follows,
\* and packet_ gets the size of the whole packet.
LEMMA CompletePreambleFraming ==
    ASSUME FramingInv, NEW n \in Nat, CompletePreamble(n)
    PROVE  FramingInv'
<1> DEFINE packet_length == HciGetPacketLengthForType(hci_packet_type, preamble')
<1>1. /\ UNCHANGED controller /\ UNCHANGED delivered
      /\ moved' = moved /\ blocked' = blocked /\ aborted' = aborted
      /\ hci_packet_type' = hci_packet_type /\ state' = "HCI_PAYLOAD"
      /\ packet' = [i \in 1..(PreambleSize + packet_length) |->
                       IF i <= PreambleSize THEN preamble'[i] ELSE 0]
      /\ bytes_remaining' = packet_length /\ bytes_read' = 0
      /\ state = "HCI_PREAMBLE" /\ hci_packet_type # HCI_PACKET_TYPE_UNKNOWN
      /\ bytes_read + n = PreambleSize
  BY DEF CompletePreamble, AnnouncedLength
<1>2. StreamInv' /\ DeliveredInOrder' /\ FrameStart' = FrameStart /\ Current' = Current
      /\ StreamLen' = StreamLen /\ (Len(delivered') < Len(sent') <=> Len(delivered) < Len(sent))
      /\ OnlyEmptyPacketsAbort'
  BY <1>1, FramesStay
<1>3. /\ preamble' \in [1..HCI_PREAMBLE_SIZE_MAX -> ByteValues]
      /\ \A j \in 1..(bytes_read + n) : preamble'[j] = Current.body[j]
      /\ pos' = FrameStart + 1 + bytes_read + n
      /\ pos' \in 0..moved
  BY <1>1, PreambleStored DEF CompletePreamble
<1>4. /\ Len(delivered) < Len(sent) /\ hci_packet_type = Current.type
      /\ Current \in Packets /\ hci_packet_type \in ReceivedTypes
      /\ FrameStart \in Nat /\ bytes_read \in Nat /\ BodyLen(Current) \in Nat
      /\ PreambleSize \in 2..HCI_PREAMBLE_SIZE_MAX /\ PreambleSize <= BodyLen(Current)
  BY <1>1, InFrame, Positions
<1>5. PreambleSize \in Nat /\ PreambleSize = preamble_size_for_type[Current.type]
  BY <1>4 DEF PreambleSize, HCI_PREAMBLE_SIZE_MAX
<1>6. \A j \in 1..PreambleSize : preamble'[j] = Current.body[j]
  BY <1>1, <1>3
<1>7. packet_length = BodyLen(Current) - PreambleSize
  <2>1. packet_length = HciGetPacketLengthForType(hci_packet_type, Current.body)
    BY <1>4, <1>5, <1>6, LengthInPreamble
  <2>2. HciGetPacketLengthForType(Current.type, Current.body) = PayloadLen(Current)
    BY <1>4, PacketParts
  <2> QED
    BY <1>4, <1>5, <2>1, <2>2 DEF PayloadLen
<1> HIDE DEF packet_length
<1>8. packet_length \in Nat /\ PreambleSize + packet_length = BodyLen(Current)
  BY <1>4, <1>5, <1>7
<1>9. packet' = [i \in 1..BodyLen(Current) |-> IF i <= PreambleSize THEN preamble'[i] ELSE 0]
  BY <1>1, <1>8
<1>10. packet' \in Seq(ByteValues) /\ Len(packet') = BodyLen(Current)
  <2>1. 0 \in ByteValues
    BY RadixAssumption DEF ByteValues, HCI_PACKET_TYPE_EVENT
  <2>2. ASSUME NEW i \in 1..BodyLen(Current), i <= PreambleSize
        PROVE  preamble'[i] \in ByteValues
    <3>1. i \in 1..HCI_PREAMBLE_SIZE_MAX
      BY <1>4, <2>2 DEF HCI_PREAMBLE_SIZE_MAX
    <3> QED
      BY <1>3, <3>1
  <2>3. packet' \in [1..BodyLen(Current) -> ByteValues]
    BY <1>9, <2>1, <2>2
  <2> QED
    BY <1>4, <2>3
<1>11. \A j \in 1..PreambleSize : packet'[j] = Current.body[j]
  BY <1>4, <1>5, <1>6, <1>9
<1>12. PreambleSize' = PreambleSize
  BY <1>1 DEF PreambleSize
<1>13. pos' = FrameStart + 1 + PreambleSize + 0 /\ PreambleSize + 0 = PreambleSize
  BY <1>1, <1>3, <1>4, <1>5
<1>14. TypeOK'
  BY <1>1, <1>2, <1>3, <1>8, <1>10 DEF FramingInv, TypeOK, controller
<1>15. packet_length = 0 => PayloadLen(Current) = 0
  BY <1>4, <1>5, <1>7 DEF PayloadLen
<1>16. InPayload'
  BY <1>1, <1>2, <1>8, <1>10, <1>11, <1>12, <1>13, <1>15 DEF InPayload
<1>17. ParserInv'
  BY <1>1, <1>2, <1>4, <1>16 DEF ParserInv
<1> QED
  BY <1>1, <1>2, <1>14, <1>17 DEF FramingInv

\* What ReadSome leaves of the packet: n more payload bytes are in it.
LEMMA PayloadStored ==
    ASSUME FramingInv, hci_packet_type # HCI_PACKET_TYPE_UNKNOWN, state # "HCI_PREAMBLE",
           NEW n \in Nat, ReadSome(n, bytes_remaining),
           packet' = Stored(packet, PreambleSize + bytes_read, n)
    PROVE  /\ packet' \in [1..BodyLen(Current) -> ByteValues]
           /\ packet' \in Seq(ByteValues)
           /\ Len(packet') = BodyLen(Current)
           /\ \A j \in 1..(PreambleSize + (bytes_read + n)) : packet'[j] = Current.body[j]
           /\ PreambleSize + (bytes_read + n) <= BodyLen(Current)
           /\ pos' = FrameStart + 1 + PreambleSize + (bytes_read + n)
           /\ pos' \in 0..moved
<1> DEFINE offset == PreambleSize + bytes_read
<1>1. /\ Len(delivered) < Len(sent)
      /\ FrameStart \in Nat /\ BodyLen(Current) \in Nat
      /\ PreambleSize \in Nat
  BY InFrame DEF HCI_PREAMBLE_SIZE_MAX
<1>2. /\ pos = FrameStart + 1 + PreambleSize + bytes_read
      /\ Len(packet) = BodyLen(Current)
      /\ PreambleSize + bytes_read + bytes_remaining = Len(packet)
      /\ \A j \in 1..offset : packet[j] = Current.body[j]
  BY InFrame DEF InPayload
<1>3. /\ bytes_read \in Nat /\ pos \in Nat /\ moved \in Nat /\ pos <= moved
      /\ bytes_remaining \in Nat
  BY Positions
<1>4. n <= bytes_remaining /\ n <= moved - pos /\ pos' = pos + n
  BY DEF ReadSome
<1>5. /\ offset \in Nat /\ pos = FrameStart + 1 + offset
      /\ offset + n <= BodyLen(Current)
      /\ offset + n = PreambleSize + (bytes_read + n)
  <2>1. pos = FrameStart + 1 + PreambleSize + bytes_read
    BY <1>2
  <2>2. PreambleSize + bytes_read + bytes_remaining = BodyLen(Current)
    BY <1>2
  <2>3. FrameStart \in Nat /\ BodyLen(Current) \in Nat /\ PreambleSize \in Nat
    BY <1>1
  <2>4. pos = FrameStart + 1 + offset
    BY <1>3, <2>1, <2>3
  <2>5. offset + n <= BodyLen(Current)
    BY <1>3, <1>4, <2>2, <2>3
  <2> QED
    BY <1>3, <2>3, <2>4, <2>5
<1>6. packet \in [1..BodyLen(Current) -> ByteValues]
  BY <1>2, LenProperties DEF FramingInv, TypeOK
<1>7. packet' = Stored(packet, offset, n)
  OBVIOUS
<1> HIDE DEF offset
<1>8. /\ packet' \in [1..BodyLen(Current) -> ByteValues]
      /\ \A j \in 1..BodyLen(Current) : j <= offset + n => packet'[j] = Current.body[j]
  <2> SUFFICES ASSUME NEW m \in Nat, packet \in [1..m -> ByteValues]
               PROVE  /\ Stored(packet, offset, n) \in [1..m -> ByteValues]
                      /\ \A j \in 1..m : j <= offset + n =>
                            Stored(packet, offset, n)[j] = Current.body[j]
    BY <1>1, <1>6, <1>7
  <2>1. Len(delivered) < Len(sent)
    BY <1>1
  <2> QED
    BY <1>2, <1>5, <2>1, StoredCopies
<1>9. packet' \in Seq(ByteValues) /\ Len(packet') = BodyLen(Current)
  BY <1>1, <1>8
<1>10. \A j \in 1..(offset + n) : packet'[j] = Current.body[j]
  <2>1. \A j \in 1..(offset + n) : j \in 1..BodyLen(Current) /\ j <= offset + n
    BY <1>1, <1>5
  <2> QED
    BY <1>8, <2>1
<1>11. pos' = FrameStart + 1 + PreambleSize + (bytes_read + n) /\ pos' \in 0..moved
  BY <1>1, <1>2, <1>3, <1>4
<1> QED
  BY <1>5, <1>8, <1>9, <1>10, <1>11

\* A part of the payload: the second loop of HciPacketizer::OnDataReady.
LEMMA ReadPayloadFraming ==
    ASSUME FramingInv, NEW n \in Nat, ReadPayload(n)
    PROVE  FramingInv'
<1>1. /\ UNCHANGED controller /\ UNCHANGED delivered
      /\ moved' = moved /\ blocked' = blocked /\ aborted' = aborted
      /\ hci_packet_type' = hci_packet_type /\ state' = state /\ preamble' = preamble
      /\ bytes_remaining' = bytes_remaining - n /\ bytes_read' = bytes_read + n
      /\ state = "HCI_PAYLOAD" /\ hci_packet_type # HCI_PACKET_TYPE_UNKNOWN
      /\ n < bytes_remaining
  BY DEF ReadPayload, CountDown
<1>2. StreamInv' /\ DeliveredInOrder' /\ FrameStart' = FrameStart /\ Current' = Current
      /\ StreamLen' = StreamLen /\ (Len(delivered') < Len(sent') <=> Len(delivered) < Len(sent))
      /\ OnlyEmptyPacketsAbort'
  BY <1>1, FramesStay
<1>3. /\ packet' \in Seq(ByteValues)
      /\ Len(packet') = BodyLen(Current)
      /\ \A j \in 1..(PreambleSize + (bytes_read + n)) : packet'[j] = Current.body[j]
      /\ pos' = FrameStart + 1 + PreambleSize + (bytes_read + n)
      /\ pos' \in 0..moved
  BY <1>1, PayloadStored DEF ReadPayload
<1>4. /\ Len(delivered) < Len(sent) /\ hci_packet_type = Current.type
      /\ FrameStart \in Nat /\ bytes_read \in Nat /\ bytes_remaining \in Nat
      /\ PreambleSize \in Nat
  BY <1>1, InFrame, Positions DEF HCI_PREAMBLE_SIZE_MAX
<1>5. /\ PreambleSize + bytes_read + bytes_remaining = BodyLen(Current)
      /\ bytes_remaining' \in Nat /\ bytes_remaining' > 0 /\ bytes_read' \in Nat
  <2>1. PreambleSize + bytes_read + bytes_remaining = BodyLen(Current)
    BY <1>1, InFrame DEF InPayload
  <2>2. bytes_remaining' \in Nat /\ bytes_remaining' > 0
    BY <1>1, <1>4
  <2>3. bytes_read' \in Nat
    BY <1>1, <1>4
  <2> QED
    BY <2>1, <2>2, <2>3
<1>6. TypeOK'
  BY <1>1, <1>2, <1>3, <1>5 DEF FramingInv, TypeOK, controller
<1>7. PreambleSize' = PreambleSize
  BY <1>1 DEF PreambleSize
<1>8. PreambleSize + bytes_read' + bytes_remaining' = BodyLen(Current)
  BY <1>1, <1>4, <1>5
<1>9. InPayload'
  BY <1>1, <1>2, <1>3, <1>5, <1>7, <1>8 DEF InPayload
<1>10. ParserInv'
  BY <1>1, <1>2, <1>4, <1>9 DEF ParserInv
<1> QED
  BY <1>1, <1>2, <1>6, <1>10 DEF FramingInv

\* Delivering a packet moves the start of the current frame to the end of it.
LEMMA NextFrame ==
    ASSUME FramingInv, Len(delivered) < Len(sent), UNCHANGED controller,
           Len(delivered') = Len(delivered) + 1
    PROVE  FrameStart' = FrameStart + 1 + BodyLen(Current)
<1> DEFINE N == Len(sent)
           D == Len(delivered)
<1>1. /\ N \in Nat /\ D \in Nat /\ D < N
      /\ sent' = sent /\ starts' = starts /\ StreamLen' = StreamLen
      /\ Len(delivered') = D + 1
  BY DEF FramingInv, TypeOK, controller, StreamLen
<1>2. /\ Current = sent[D + 1]
      /\ FrameStart = starts[D + 1]
  BY DEF Current, FrameStart
<1>3. /\ Current \in Packets /\ FrameStart \in Nat
      /\ BodyLen(Current) \in Nat
  BY CurrentFrame, PacketParts
<1>4. FrameStart' = IF D + 1 < N THEN starts[(D + 1) + 1] ELSE StreamLen
  BY <1>1 DEF FrameStart
<1>5. \A i \in 1..N :
         /\ i # 1 => starts[i] = starts[i - 1] + (BodyLen(sent[i - 1]) + 1)
         /\ i = N => starts[i] + (BodyLen(sent[i]) + 1) = StreamLen
  BY DEF FramingInv, StreamInv, FrameLen
<1> HIDE DEF N, D
<1>6. CASE D + 1 < N
  <2>1. starts[(D + 1) + 1] = starts[D + 1] + (BodyLen(sent[D + 1]) + 1)
    <3> DEFINE i == (D + 1) + 1
    <3>1. i \in 1..N /\ i # 1 /\ i - 1 = D + 1
      BY <1>1, <1>6
    <3> HIDE DEF i
    <3>2. starts[i] = starts[D + 1] + (BodyLen(sent[D + 1]) + 1)
      BY <1>5, <3>1
    <3> QED
      BY <3>2 DEF i
  <2>2. FrameStart' = FrameStart + (BodyLen(Current) + 1)
    BY <1>2, <1>4, <1>6, <2>1
  <2> QED
    BY <1>3, <2>2
<1>7. CASE D + 1 = N
  <2>1. starts[D + 1] + (BodyLen(sent[D + 1]) + 1) = StreamLen
    BY <1>1, <1>5, <1>7
  <2>2. FrameStart' = FrameStart + (BodyLen(Current) + 1)
    BY <1>1, <1>2, <1>4, <1>7, <2>1
  <2> QED
    BY <1>3, <2>2
<1> QED
  BY <1>1, <1>6, <1>7

\* The packet that CompletePacket gives to a callback is the current one.
LEMMA PacketCompleted ==
    ASSUME FramingInv, NEW n \in Nat, CompletePacket(n)
    PROVE  /\ Len(delivered) < Len(sent)
           /\ delivered' = Append(delivered, Current)
           /\ UNCHANGED aborted
           /\ packet' \in Seq(ByteValues)
           /\ pos' = FrameStart + 1 + BodyLen(Current)
           /\ pos' \in 0..moved
<1>1. /\ state # "HCI_PREAMBLE" /\ hci_packet_type # HCI_PACKET_TYPE_UNKNOWN
      /\ ReadSome(n, bytes_remaining) /\ n = bytes_remaining
      /\ packet' = Stored(packet, PreambleSize + bytes_read, n)
  BY DEF CompletePacket
<1>2. /\ packet' \in Seq(ByteValues)
      /\ Len(packet') = BodyLen(Current)
      /\ \A j \in 1..(PreambleSize + (bytes_read + n)) : packet'[j] = Current.body[j]
      /\ pos' = FrameStart + 1 + PreambleSize + (bytes_read + n)
      /\ pos' \in 0..moved
  BY <1>1, PayloadStored
<1>3. /\ Len(delivered) < Len(sent) /\ hci_packet_type = Current.type
      /\ hci_packet_type \in ReceivedTypes /\ Current \in Packets
      /\ FrameStart \in Nat /\ bytes_read \in Nat /\ BodyLen(Current) \in Nat
      /\ PreambleSize \in Nat
  BY <1>1, InFrame, Positions DEF HCI_PREAMBLE_SIZE_MAX
<1>4. PreambleSize + (bytes_read + n) = BodyLen(Current)
  <2>1. PreambleSize + bytes_read + bytes_remaining = BodyLen(Current)
    BY <1>1, InFrame DEF InPayload
  <2> QED
    BY <1>1, <1>3, <2>1
<1>5. pos' = FrameStart + 1 + BodyLen(Current)
  <2>1. pos' = FrameStart + 1 + PreambleSize + (bytes_read + n)
    BY <1>2
  <2> QED
    BY <1>1, <1>3, <1>4, <2>1
<1>6. packet' = Current.body
  <2>1. Current.body \in Seq(ByteValues) /\ Len(Current.body) = Len(packet')
    BY <1>2, <1>3, PacketParts DEF BodyLen
  <2>2. \A j \in 1..Len(packet') : packet'[j] = Current.body[j]
    BY <1>2, <1>4
  <2> QED
    BY <1>2, <2>1, <2>2, SeqEqual
<1>7. /\ delivered' = Append(delivered, [type |-> hci_packet_type, body |-> packet'])
      /\ UNCHANGED aborted
  BY <1>3 DEF CompletePacket
<1>8. Current = [type |-> hci_packet_type, body |-> packet']
  BY <1>3, <1>6, PacketParts
<1> QED
  BY <1>2, <1>3, <1>5, <1>7, <1>8

\* The end of the payload is the end of the frame.
LEMMA CompletePacketFraming ==
    ASSUME FramingInv, NEW n \in Nat, CompletePacket(n)
    PROVE  FramingInv'
<1>1. /\ UNCHANGED controller
      /\ moved' = moved /\ blocked' = blocked /\ preamble' = preamble
      /\ bytes_remaining' = 0 /\ state' = "HCI_PREAMBLE" /\ bytes_read' = 0
      /\ hci_packet_type' = HCI_PACKET_TYPE_UNKNOWN /\ ~aborted
  BY DEF CompletePacket, BackToPreamble, ReadyForType, Readable
<1>2. /\ Len(delivered) < Len(sent)
      /\ delivered' = Append(delivered, Current)
      /\ UNCHANGED aborted
      /\ packet' \in Seq(ByteValues)
      /\ pos' = FrameStart + 1 + BodyLen(Current)
      /\ pos' \in 0..moved
  BY PacketCompleted
<1>3. /\ delivered \in Seq(Packets) /\ Len(delivered) \in Nat
      /\ sent \in Seq(Packets) /\ Len(sent) \in Nat
      /\ \A i \in 1..Len(delivered) : delivered[i] = sent[i]
  BY DEF FramingInv, TypeOK, DeliveredInOrder
<1>4. Current \in Packets
  BY <1>2, CurrentFrame
<1>5. /\ delivered' \in Seq(Packets)
      /\ Len(delivered') = Len(delivered) + 1
      /\ delivered'[Len(delivered) + 1] = Current
      /\ \A i \in 1..Len(delivered) : delivered'[i] = delivered[i]
  BY <1>2, <1>3, <1>4, AppendProperties
<1>6. sent' = sent /\ starts' = starts /\ stream' = stream /\ StreamLen' = StreamLen
  BY <1>1 DEF controller, StreamLen
<1>7. TypeOK'
  BY <1>1, <1>2, <1>5, <1>6 DEF FramingInv, TypeOK
<1>8. StreamInv'
  BY <1>6 DEF FramingInv, StreamInv, FrameLen
<1>9. DeliveredInOrder'
  <2>1. \A i \in 1..(Len(delivered) + 1) : delivered'[i] = sent[i]
    BY <1>3, <1>5 DEF Current
  <2> QED
    BY <1>2, <1>3, <1>5, <1>6, <2>1 DEF DeliveredInOrder
<1>10. ParserInv'
  <2>1. pos' = FrameStart'
    BY <1>1, <1>2, <1>5, NextFrame
  <2> QED
    BY <1>1, <2>1 DEF ParserInv, BetweenFrames
<1>11. OnlyEmptyPacketsAbort'
  BY <1>1, <1>2 DEF OnlyEmptyPacketsAbort
<1> QED
  BY <1>7, <1>8, <1>9, <1>10, <1>11 DEF FramingInv

\* The CHECK of the payload loop can fail only on a packet without payload.
LEMMA EmptyPayloadFraming ==
    ASSUME FramingInv, EmptyPayloadAborts
    PROVE  FramingInv'
<1>1. /\ UNCHANGED <<controller, moved, pos, blocked, hci_packet_type, packetizer,
                     delivered>>
      /\ aborted' = TRUE
      /\ hci_packet_type # HCI_PACKET_TYPE_UNKNOWN
      /\ state # "HCI_PREAMBLE" /\ bytes_remaining = 0
  BY DEF EmptyPayloadAborts
<1>2. Len(delivered) < Len(sent) /\ PayloadLen(Current) = 0
  BY <1>1, InFrame DEF InPayload
<1>3. StreamInv' /\ DeliveredInOrder' /\ FrameStart' = FrameStart /\ Current' = Current
      /\ StreamLen' = StreamLen /\ (Len(delivered') < Len(sent') <=> Len(delivered) < Len(sent))
  BY <1>1, FramesStay
<1>4. TypeOK'
  BY <1>1, <1>3 DEF FramingInv, TypeOK, controller, packetizer
<1>5. ParserInv'
  BY <1>1, <1>3
     DEF FramingInv, ParserInv, BetweenFrames, InPreamble, InPayload, PreambleSize, packetizer
<1>6. OnlyEmptyPacketsAbort'
  BY <1>2, <1>3 DEF OnlyEmptyPacketsAbort, PayloadLen, BodyLen
<1> QED
  BY <1>3, <1>4, <1>5, <1>6 DEF FramingInv

\* Steps of other components leave the receive path as it is.
LEMMA StutterFraming == FramingInv /\ UNCHANGED vars => FramingInv'
<1> SUFFICES ASSUME FramingInv, UNCHANGED vars PROVE FramingInv'
  OBVIOUS
<1>1. UNCHANGED <<controller, moved, pos, blocked, hci_packet_type, packetizer,
                  delivered, aborted>>
  BY DEF vars
<1>2. StreamInv' /\ DeliveredInOrder' /\ FrameStart' = FrameStart /\ Current' = Current
      /\ StreamLen' = StreamLen /\ (Len(delivered') < Len(sent') <=> Len(delivered) < Len(sent))
      /\ OnlyEmptyPacketsAbort'
  BY <1>1, FramesStay
<1>3. TypeOK'
  BY <1>1, <1>2 DEF FramingInv, TypeOK, controller, packetizer
<1>4. ParserInv'
  BY <1>1, <1>2
     DEF FramingInv, ParserInv, BetweenFrames, InPreamble, InPayload, PreambleSize, packetizer
<1> QED
  BY <1>1, <1>2, <1>3, <1>4 DEF FramingInv

\* Every step of the controller, the forwarding callback and the parser keeps the framing.
LEMMA NextFraming == FramingInv /\ [Next]_vars => FramingInv'
<1> SUFFICES ASSUME FramingInv, Next PROVE FramingInv'
  BY StutterFraming
<1>1. CASE \E p \in Packets : ControllerSends(p)
  BY <1>1, SendFraming
<1>2. CASE Forward
  <2>1. PICK n \in 1..(StreamLen - moved) : ForwardTty(n) \/ ForwardTtyBlocks(n)
    BY <1>2 DEF Forward
  <2>2. n \in Nat
    BY <2>1, Positions
  <2> QED
    BY <2>1, <2>2, ForwardFraming
<1>3. CASE ReadType
  BY <1>3, ReadTypeFraming
<1>4. CASE \E n \in 1..(moved - pos) : OnDataReady(n)
  <2>1. PICK n \in 1..(moved - pos) : OnDataReady(n)
    BY <1>4
  <2>2. n \in Nat
    BY <2>1, Positions
  <2> QED
    BY <2>1, <2>2, ReadPreambleFraming, CompletePreambleFraming, ReadPayloadFraming,
       CompletePacketFraming DEF OnDataReady
<1>5. CASE EmptyPayloadAborts
  BY <1>5, EmptyPayloadFraming
<1> QED
  BY <1>1, <1>2, <1>3, <1>4, <1>5 DEF Next, Receive

-----------------------------------------------------------------------------
(* The theorems.                                                           *)

\* The framing invariant holds in every state the receive path can reach.
THEOREM FramingHolds == Spec => []FramingInv
BY InitFraming, NextFraming, PTL DEF Spec

\* However the reads of H4Protocol and HciPacketizer cut the stream, the
\* callbacks get the packets the controller sent, whole and in order.
THEOREM PacketsInOrder == Spec => []DeliveredInOrder
<1>1. FramingInv => DeliveredInOrder
  BY DEF FramingInv
<1> QED
  BY <1>1, FramingHolds, PTL

\* No read of HciPacketizer goes past the end of preamble_ or packet_.
THEOREM BuffersHold == Spec => []ReadsStayInBuffers
<1>1. FramingInv => ReadsStayInBuffers
  <2> SUFFICES ASSUME FramingInv, hci_packet_type # HCI_PACKET_TYPE_UNKNOWN
               PROVE  IF state = "HCI_PREAMBLE"
                      THEN bytes_read < PreambleSize /\ PreambleSize <= HCI_PREAMBLE_SIZE_MAX
                      ELSE PreambleSize + bytes_read + bytes_remaining = Len(packet)
    BY DEF ReadsStayInBuffers
  <2>1. PreambleSize <= HCI_PREAMBLE_SIZE_MAX
    BY InFrame DEF HCI_PREAMBLE_SIZE_MAX
  <2> QED
    BY <2>1, InFrame DEF InPreamble, InPayload
<1> QED
  BY <1>1, FramingHolds, PTL

\* No CHECK of the receive path fails but the one a packet without payload fails.
THEOREM OnlyEmptyPacketsFail == Spec => []OnlyEmptyPacketsAbort
<1>1. FramingInv => OnlyEmptyPacketsAbort
  BY DEF FramingInv
<1> QED
  BY <1>1, FramingHolds, PTL

\* As long as no packet is empty, the CHECKs of the receive path hold.
THEOREM NoCheckFails == ASSUME NoEmptyPayload PROVE Spec => []ChecksHold
<1>1. FramingInv => ChecksHold
  <2> SUFFICES ASSUME FramingInv, aborted PROVE FALSE
    BY DEF ChecksHold
  <2>1. Len(delivered) < Len(sent) /\ PayloadLen(Current) = 0
    BY DEF FramingInv, OnlyEmptyPacketsAbort
  <2>2. Current \in Packets /\ PayloadLen(Current) \in Int
    BY <2>1, CurrentFrame, PacketParts DEF PayloadLen, HCI_PREAMBLE_SIZE_MAX
  <2> QED
    BY <2>1, <2>2, NoEmptyPayload DEF NoEmptyPayload
<1> QED
  BY <1>1, FramingHolds, PTL

\* A step of the receive path is a step of the channel or does not concern it.
LEMMA StepIsChannelStep ==
    ASSUME FramingInv, [Next]_vars
    PROVE  [Channel!Next]_(Channel!vars)
<1>1. CASE \E p \in Packets : ControllerSends(p)
  BY <1>1 DEF ControllerSends, Channel!Next, Channel!Send
<1>2. CASE \E n \in 1..(moved - pos) : CompletePacket(n)
  <2>1. PICK n \in 1..(moved - pos) : CompletePacket(n)
    BY <1>2
  <2>2. n \in Nat
    BY <2>1, Positions
  <2>3. Len(delivered) < Len(sent) /\ delivered' = Append(delivered, Current)
    BY <2>1, <2>2, PacketCompleted
  <2>4. sent' = sent
    BY <2>1 DEF CompletePacket, controller
  <2> QED
    BY <2>3, <2>4 DEF Channel!Next, Channel!Deliver, Current
<1>3. CASE \/ Forward \/ ReadType \/ EmptyPayloadAborts \/ UNCHANGED vars
           \/ \E n \in 1..(moved - pos) :
                 ReadPreamble(n) \/ CompletePreamble(n) \/ ReadPayload(n)
  <2>1. UNCHANGED <<sent, delivered>>
    BY <1>3 DEF Forward, ForwardTty, ForwardTtyBlocks, ReadType, EmptyPayloadAborts, vars,
                ReadPreamble, CompletePreamble, ReadPayload, controller
  <2> QED
    BY <2>1 DEF Channel!vars
<1> QED
  BY <1>1, <1>2, <1>3 DEF Next, Receive, OnDataReady

\* The receive path is a channel that neither loses, duplicates, reorders nor
\* changes a packet: tty, shim socket, H4Protocol and HciPacketizer together.
THEOREM RefinesChannel == Spec => ImplementsChannel
<1>1. Init => Channel!Init
  BY DEF Init, Channel!Init
<1>2. FramingInv /\ [Next]_vars => [Channel!Next]_(Channel!vars)
  BY StepIsChannelStep
<1> QED
  BY <1>1, <1>2, FramingHolds, PTL DEF Spec, ImplementsChannel, Channel!SafetySpec

-----------------------------------------------------------------------------
(* The sending half.                                                       *)

Calls == [by : Senders, length : Nat]
WireBytes == [frame : 1..Len(begun), index : Nat]

SendTypeOK ==
    /\ begun \in Seq(Calls)
    /\ at \in [Senders -> {"idle", "type", "payload"}]
    /\ frame \in [Senders -> 0..Len(begun)]
    /\ next \in [Senders -> Nat]
    /\ wire \in Seq(WireBytes)
    /\ failed \subseteq 1..Len(begun)

\* A thread is inside the last frame that it has begun, at a byte of the WriteSafely call
\* that it is in, or past the last of them.
CallInv ==
    /\ \A f \in 1..Len(begun) : f <= frame[begun[f].by]
    /\ \A s \in Senders :
          at[s] # "idle" =>
              /\ frame[s] \in 1..Len(begun) /\ begun[frame[s]].by = s
              /\ next[s] <= LastByte(s) + 1
              /\ at[s] = "payload" => next[s] >= 1

Last(P, k) == k \in P /\ \A i \in P : i <= k

\* The byte before the next one of the frame is its last on the wire.
FrameInv ==
    \A s \in Senders :
        at[s] # "idle" =>
            /\ next[s] = 0 <=> PlacesOf(frame[s]) = {}
            /\ \A k \in PlacesOf(frame[s]) :
                   Last(PlacesOf(frame[s]), k) => wire[k].index = next[s] - 1

Whole(k) == wire[k].index = begun[wire[k].frame].length
Careful(s) == \A f \in failed : begun[f].by # s

\* So is it among the bytes of the thread, unless that has not begun to write the frame;
\* then the frame before is whole.
SenderInv ==
    \A s \in Senders :
        Careful(s) =>
            \A k \in PlacesBy(s) :
                Last(PlacesBy(s), k) =>
                    \/ at[s] = "idle" /\ Whole(k)
                    \/ at[s] # "idle" /\ wire[k].frame < frame[s] /\ Whole(k) /\ next[s] = 0
                    \/ at[s] # "idle" /\ wire[k].frame = frame[s] /\ wire[k].index = next[s] - 1

AllInOrder ==
    \A f \in 1..Len(begun) :
        /\ \A k \in PlacesOf(f) : First(PlacesOf(f), k) => wire[k].index = 0
        /\ \A j, k \in PlacesOf(f) :
               Adjacent(PlacesOf(f), j, k) => wire[k].index = wire[j].index + 1

Succeeds(j, k) ==
    IF wire[j].index < begun[wire[j].frame].length
    THEN wire[k] = [wire[j] EXCEPT !.index = @ + 1]
    ELSE wire[k].frame > wire[j].frame /\ wire[k].index = 0

SendersWhole ==
    \A s \in Senders :
        Careful(s) =>
            \A j, k \in PlacesBy(s) : Adjacent(PlacesBy(s), j, k) => Succeeds(j, k)

SendInv == SendTypeOK /\ CallInv /\ FrameInv /\ SenderInv /\ AllInOrder /\ SendersWhole
-----------------------------------------------------------------------------
(* Places on the wire. *)

\* A call that was made has a sender and a length.
LEMMA CallAt ==
    ASSUME SendTypeOK, NEW f \in 1..Len(begun)
    PROVE  begun[f] \in Calls /\ begun[f].by \in Senders /\ begun[f].length \in Nat
<1>1. begun[f] \in Calls
  BY ElementOfSeq DEF SendTypeOK
<1> QED
  BY <1>1 DEF Calls

\* A place is of a byte of a call that was made.
LEMMA PlacesAre ==
    ASSUME SendTypeOK, NEW k \in DOMAIN wire
    PROVE  /\ k \in Nat \ {0} /\ k <= Len(wire) /\ wire[k] \in WireBytes
           /\ wire[k].frame \in 1..Len(begun) /\ wire[k].index \in Nat
           /\ wire[k] = [frame |-> wire[k].frame, index |-> wire[k].index]
           /\ begun[wire[k].frame].by \in Senders /\ begun[wire[k].frame].length \in Nat
<1>1. DOMAIN wire = 1..Len(wire) /\ Len(wire) \in Nat /\ wire[k] \in WireBytes
  BY LenProperties, ElementOfSeq DEF SendTypeOK
<1>2. wire[k].frame \in 1..Len(begun) /\ wire[k].index \in Nat
      /\ wire[k] = [frame |-> wire[k].frame, index |-> wire[k].index]
  BY <1>1 DEF WireBytes
<1>3. begun[wire[k].frame] \in Calls
  BY <1>2, CallAt
<1> QED
  BY <1>1, <1>2, <1>3 DEF Calls

\* Steps that leave the wire alone, and the calls made, leave the places alone.
LEMMA WireKept ==
    ASSUME SendInv, UNCHANGED <<begun, wire>>, failed \subseteq failed'
    PROVE  AllInOrder' /\ SendersWhole' /\ (\A f : PlacesOf(f)' = PlacesOf(f))
           /\ (\A s : PlacesBy(s)' = PlacesBy(s))
<1>1. /\ \A f : PlacesOf(f)' = PlacesOf(f)
      /\ \A s : PlacesBy(s)' = PlacesBy(s)
      /\ \A s : Careful(s)' => Careful(s)
      /\ \A j, k : Succeeds(j, k)' = Succeeds(j, k)
  BY DEF PlacesOf, PlacesBy, Careful, Succeeds
<1> QED
  BY <1>1 DEF SendInv, AllInOrder, SendersWhole

\* The places N come after the places P: the first of them follows the last of P, and they
\* follow one another.
Follow(P, N, w, n) ==
    /\ \A k : Last(P \cup N, k) => k = w + n
    /\ \A k \in N : First(P \cup N, k) => P = {} /\ k = w + 1
    /\ \A k \in P : First(P \cup N, k) => First(P, k)
    /\ \A j, k \in P : Adjacent(P \cup N, j, k) => Adjacent(P, j, k)
    /\ \A j \in P, k \in N : Adjacent(P \cup N, j, k) => Last(P, j) /\ k = w + 1
    /\ \A j, k \in N : Adjacent(P \cup N, j, k) => k = j + 1
    /\ \A j \in N, k \in P : ~Adjacent(P \cup N, j, k)

LEMMA PlacesAppended ==
    ASSUME NEW w \in Nat, NEW n \in Nat \ {0}, NEW P \in SUBSET (1..w), NEW N,
           N = (w + 1)..(w + n)
    PROVE  Follow(P, N, w, n)
<1>1. w + n \in N /\ w + 1 \in N /\ \A i \in N : i \in Nat /\ w < i /\ w + 1 <= i /\ i <= w + n
  OBVIOUS
<1>2. \A i \in P : i \in Nat /\ i <= w
  OBVIOUS
<1>3. ASSUME NEW k, Last(P \cup N, k) PROVE k = w + n
  <2>1. k \in P \cup N /\ w + n <= k
    BY <1>1, <1>3 DEF Last
  <2> QED
    BY <1>1, <1>2, <2>1
<1>4. ASSUME NEW k \in N, First(P \cup N, k) PROVE P = {} /\ k = w + 1
  <2>1. k <= w + 1 /\ \A i \in P : k <= i
    BY <1>1, <1>4 DEF First
  <2> QED
    BY <1>1, <1>2, <2>1
<1>5. /\ \A k \in P : First(P \cup N, k) => First(P, k)
      /\ \A j, k \in P : Adjacent(P \cup N, j, k) => Adjacent(P, j, k)
  BY DEF First, Adjacent
<1>6. ASSUME NEW j \in P, NEW k \in N, Adjacent(P \cup N, j, k)
      PROVE  Last(P, j) /\ k = w + 1
  <2>1. w + 1 <= j \/ k <= w + 1
    BY <1>1, <1>6 DEF Adjacent
  <2>2. k = w + 1
    BY <1>1, <1>2, <2>1
  <2>3. ASSUME NEW i \in P PROVE i <= j
    <3>1. i <= j \/ k <= i
      BY <1>6 DEF Adjacent
    <3> QED
      BY <1>1, <1>2, <3>1
  <2> QED
    BY <2>2, <2>3 DEF Last
<1>7. ASSUME NEW j \in N, NEW k \in N, Adjacent(P \cup N, j, k)
      PROVE  k = j + 1
  <2>1. j \in Nat /\ k \in Nat /\ j < k
    BY <1>1, <1>7 DEF Adjacent
  <2>2. j + 1 \in N
    BY <1>1, <2>1
  <2>3. j + 1 <= j \/ k <= j + 1
    BY <1>7, <2>2 DEF Adjacent
  <2> QED
    BY <2>1, <2>3
<1>8. ASSUME NEW j \in N, NEW k \in P PROVE ~Adjacent(P \cup N, j, k)
  BY <1>1, <1>2 DEF Adjacent
<1> QED
  BY <1>3, <1>4, <1>5, <1>6, <1>7, <1>8 DEF Follow

-----------------------------------------------------------------------------
(* The steps of a thread. *)

\* A new call puts no byte on the wire: the last of the thread belongs to the call before.
LEMMA SendStep ==
    ASSUME SendInv, NEW s \in Senders, NEW length \in 0..MaxPayload, Send(s, length)
    PROVE  SendInv'
<1> USE DEF SendInv
<1> DEFINE n == Len(begun) + 1
<1> DEFINE new == [by |-> s, length |-> length]
<1>0. /\ at[s] = "idle" /\ begun' = Append(begun, new) /\ UNCHANGED <<wire, failed>>
      /\ at' = [at EXCEPT ![s] = "type"]
      /\ next' = [next EXCEPT ![s] = 0]
      /\ frame' = [frame EXCEPT ![s] = Len(begun')]
  BY DEF Send
<1>1. new \in Calls /\ Len(begun) \in Nat
  BY SendBoundsAssumption, LenProperties DEF Calls, SendTypeOK
<1>2. /\ begun' \in Seq(Calls) /\ Len(begun') = n
      /\ \A f \in 1..Len(begun) : begun'[f] = begun[f]
      /\ begun'[n] = new
  BY <1>0, <1>1, AppendProperties DEF SendTypeOK
<1> HIDE DEF new
<1>3. new.by = s /\ new.length = length
  BY DEF new
<1>4. /\ at'[s] = "type" /\ next'[s] = 0 /\ frame'[s] = n
      /\ \A u \in Senders : u # s => at'[u] = at[u] /\ next'[u] = next[u] /\ frame'[u] = frame[u]
  BY <1>0, <1>2 DEF SendTypeOK
<1>5. SendTypeOK'
  <2>1. /\ at' \in [Senders -> {"idle", "type", "payload"}] /\ next' \in [Senders -> Nat]
    BY <1>0 DEF SendTypeOK
  <2>2. frame' \in [Senders -> 0..Len(begun')]
    BY <1>0, <1>1, <1>2 DEF SendTypeOK
  <2>3. WireBytes \subseteq WireBytes'
    BY <1>1, <1>2 DEF WireBytes
  <2>4. wire' \in Seq(WireBytes')
    BY <1>0, <2>3, SeqMonotonic DEF SendTypeOK
  <2>5. failed' \subseteq 1..Len(begun')
    BY <1>0, <1>1, <1>2 DEF SendTypeOK
  <2> QED
    BY <1>2, <2>1, <2>2, <2>4, <2>5 DEF SendTypeOK
<1>6. ASSUME NEW f \in 1..Len(begun) PROVE f # n /\ f \in 1..n /\ begun'[f] = begun[f]
  BY <1>1, <1>2
<1>7. /\ \A f : PlacesOf(f)' = PlacesOf(f)
      /\ \A u : PlacesBy(u)' = PlacesBy(u)
      /\ PlacesOf(n) = {}
  BY <1>0, <1>1, <1>6, PlacesAre DEF PlacesOf, PlacesBy
<1>8. \A j, k \in DOMAIN wire : /\ Succeeds(j, k)' = Succeeds(j, k)
                                /\ Whole(k)' = Whole(k)
  BY <1>0, <1>6, PlacesAre DEF Succeeds, Whole
<1>9. \A u \in Senders : Careful(u)' => Careful(u)
  BY <1>0, <1>6 DEF Careful, SendTypeOK
<1>10. CallInv'
  <2>1. ASSUME NEW f \in 1..Len(begun') PROVE f <= frame'[begun'[f].by]
    <3>1. CASE f = n
      BY <1>1, <1>2, <1>3, <1>4, <3>1
    <3>2. CASE f # n
      <4>1. f \in 1..Len(begun) /\ begun'[f] = begun[f] /\ begun[f].by \in Senders
        BY <1>1, <1>2, <3>2, CallAt
      <4>2. f <= frame[begun[f].by]
        BY <4>1 DEF CallInv
      <4> QED
        BY <1>1, <1>4, <4>1, <4>2
    <3> QED
      BY <3>1, <3>2
  <2>2. ASSUME NEW u \in Senders, at'[u] # "idle"
        PROVE  /\ frame'[u] \in 1..Len(begun') /\ begun'[frame'[u]].by = u
               /\ next'[u] <= LastByte(u)' + 1
               /\ at'[u] = "payload" => next'[u] >= 1
    <3>1. CASE u = s
      BY <1>1, <1>2, <1>3, <1>4, <3>1 DEF LastByte
    <3>2. CASE u # s
      <4>1. /\ at[u] # "idle" /\ frame'[u] = frame[u] /\ next'[u] = next[u] /\ at'[u] = at[u]
        BY <1>4, <2>2, <3>2
      <4>2. frame[u] \in 1..Len(begun) /\ LastByte(u)' = LastByte(u)
        BY <1>6, <4>1 DEF CallInv, LastByte
      <4> QED
        BY <1>1, <1>2, <1>6, <4>1, <4>2 DEF CallInv
    <3> QED
      BY <3>1, <3>2
  <2> QED
    BY <2>1, <2>2 DEF CallInv
<1>11. FrameInv'
  <2> SUFFICES ASSUME NEW u \in Senders, at'[u] # "idle"
               PROVE  /\ next'[u] = 0 <=> PlacesOf(frame'[u]) = {}
                      /\ \A k \in PlacesOf(frame'[u]) :
                             Last(PlacesOf(frame'[u]), k) => wire[k].index = next'[u] - 1
    BY <1>0, <1>7 DEF FrameInv
  <2>1. CASE u = s
    BY <1>4, <1>7, <2>1
  <2>2. CASE u # s
    BY <1>4, <2>2 DEF FrameInv
  <2> QED
    BY <2>1, <2>2
<1>12. SenderInv'
  <2> SUFFICES ASSUME NEW u \in Senders, Careful(u)', NEW k \in PlacesBy(u), Last(PlacesBy(u), k)
               PROVE  \/ at'[u] = "idle" /\ Whole(k)
                      \/ at'[u] # "idle" /\ wire[k].frame < frame'[u] /\ Whole(k) /\ next'[u] = 0
                      \/ /\ at'[u] # "idle" /\ wire[k].frame = frame'[u]
                         /\ wire[k].index = next'[u] - 1
    <3>1. \A u \in Senders : \A k \in PlacesBy(u) : Whole(k)' = Whole(k)
      BY <1>8 DEF PlacesBy
    <3>2. \A u : \A k : Last(PlacesBy(u), k)' = Last(PlacesBy(u), k)
      BY <1>7 DEF Last
    <3> QED
      BY <1>0, <1>7, <3>1, <3>2 DEF SenderInv
  <2>1. \/ at[u] = "idle" /\ Whole(k)
        \/ at[u] # "idle" /\ wire[k].frame < frame[u] /\ Whole(k) /\ next[u] = 0
        \/ at[u] # "idle" /\ wire[k].frame = frame[u] /\ wire[k].index = next[u] - 1
    BY <1>9 DEF SenderInv
  <2>2. CASE u = s
    <3>1. wire[k].frame < n
      BY <1>1, PlacesAre DEF PlacesBy
    <3> QED
      BY <1>0, <1>4, <2>1, <2>2, <3>1
  <2>3. CASE u # s
    BY <1>4, <2>1, <2>3
  <2> QED
    BY <2>2, <2>3
<1>13. AllInOrder'
  <2> SUFFICES ASSUME NEW f \in 1..Len(begun')
               PROVE  /\ \A k \in PlacesOf(f) : First(PlacesOf(f), k) => wire[k].index = 0
                      /\ \A j, k \in PlacesOf(f) :
                             Adjacent(PlacesOf(f), j, k) => wire[k].index = wire[j].index + 1
    BY <1>0, <1>7 DEF AllInOrder
  <2>1. CASE f = n
    BY <1>7, <2>1
  <2>2. CASE f # n
    <3>1. f \in 1..Len(begun)
      BY <1>1, <1>2, <2>2
    <3> QED
      BY <3>1 DEF AllInOrder
  <2> QED
    BY <2>1, <2>2
<1>14. SendersWhole'
  BY <1>7, <1>8, <1>9 DEF SendersWhole, PlacesBy
<1> QED
  BY <1>5, <1>10, <1>11, <1>12, <1>13, <1>14

\* The bytes that a write() has accepted follow those that were there.
LEMMA WriteStep ==
    ASSUME SendInv, NEW s \in Senders, NEW to \in 0..MaxPayload, Write(s, to)
    PROVE  SendInv'
<1> USE DEF SendInv
<1>w. PICK w : w = Len(wire)
  OBVIOUS
<1>f. PICK f : f = frame[s]
  OBVIOUS
<1>m. PICK m : m = next[s]
  OBVIOUS
<1>n. PICK n : n = to - m + 1
  OBVIOUS
<1>new. PICK new : new = Bytes(s, m, to)
  OBVIOUS
<1>N. PICK N : N = (w + 1)..(w + n)
  OBVIOUS
<1>0. /\ at[s] # "idle" /\ to \in m..LastByte(s)
      /\ wire' = wire \o new /\ next' = [next EXCEPT ![s] = to + 1]
      /\ UNCHANGED <<begun, at, frame, failed>>
  BY <1>m, <1>new DEF Write, Progress
<1>1. /\ w \in Nat /\ m \in Nat /\ to \in Nat /\ n \in Nat \ {0} /\ f \in 1..Len(begun)
      /\ m <= to /\ to <= LastByte(s) /\ begun[f].by = s
      /\ begun[f].length \in Nat /\ LastByte(s) \in 0..begun[f].length
  <2>1. w \in Nat /\ m \in Nat /\ f \in 1..Len(begun) /\ begun[f].by = s
    BY <1>0, <1>w, <1>f, <1>m, LenProperties DEF SendTypeOK, CallInv
  <2>2. begun[f].length \in Nat
    BY <2>1, CallAt
  <2>3. LastByte(s) \in 0..begun[f].length
    BY <1>f, <2>2 DEF LastByte
  <2>4. m <= to /\ to <= LastByte(s) /\ to \in Nat
    BY <1>0, <2>1, <2>2, <2>3
  <2>5. n \in Nat \ {0}
    BY <1>n, <2>1, <2>4
  <2> QED
    BY <2>1, <2>2, <2>3, <2>4, <2>5
<1>2. /\ new \in Seq(WireBytes) /\ Len(new) = n
      /\ \A i \in 1..n : new[i] = [frame |-> f, index |-> m + i - 1]
  <2>1. \A i \in 1..n : [frame |-> f, index |-> m + i - 1] \in WireBytes
    BY <1>1 DEF WireBytes
  <2>2. new = [i \in 1..n |-> [frame |-> f, index |-> m + i - 1]]
    BY <1>f, <1>n, <1>new DEF Bytes
  <2>3. new \in [1..n -> WireBytes]
    BY <2>1, <2>2
  <2>4. new \in Seq(WireBytes)
    BY <1>1, <2>3, SeqDef
  <2>5. Len(new) \in Nat /\ DOMAIN new = 1..Len(new) /\ DOMAIN new = 1..n
    BY <2>3, <2>4, LenProperties
  <2>6. Len(new) = n
    <3>1. n \in 1..Len(new)
      BY <1>1, <2>5
    <3>2. Len(new) \in 1..n
      BY <2>5, <3>1
    <3>3. n <= Len(new) /\ Len(new) <= n /\ n \in Nat /\ Len(new) \in Nat
      BY <1>1, <2>5, <3>1, <3>2
    <3> QED
      BY <3>3
  <2> QED
    BY <2>2, <2>4, <2>6
<1>3. /\ wire' \in Seq(WireBytes) /\ Len(wire') = w + n
      /\ \A k \in 1..w : wire'[k] = wire[k]
      /\ \A k \in (w + 1)..(w + n) : wire'[k] = [frame |-> f, index |-> m + (k - w) - 1]
  <2>1. /\ wire' \in Seq(WireBytes) /\ Len(wire') = w + n
        /\ \A k \in 1..(w + n) : wire'[k] = IF k <= w THEN wire[k] ELSE new[k - w]
    <3>1. wire \in Seq(WireBytes)
      BY DEF SendTypeOK
    <3>2. /\ wire \o new \in Seq(WireBytes) /\ Len(wire \o new) = Len(wire) + Len(new)
          /\ \A i \in 1..(Len(wire) + Len(new)) :
                 (wire \o new)[i] = IF i <= Len(wire) THEN wire[i] ELSE new[i - Len(wire)]
      BY <1>2, <3>1, ConcatProperties
    <3> QED
      BY <1>0, <1>2, <1>w, <3>2
  <2>2. ASSUME NEW k \in (w + 1)..(w + n) PROVE wire'[k] = [frame |-> f, index |-> m + (k - w) - 1]
    <3>1. k - w \in 1..n /\ k \in 1..(w + n) /\ ~(k <= w)
      BY <1>1
    <3> QED
      BY <1>2, <2>1, <3>1
  <2>3. ASSUME NEW k \in 1..w PROVE wire'[k] = wire[k]
    <3>1. k \in 1..(w + n) /\ k <= w
      BY <1>1
    <3> QED
      BY <2>1, <3>1
  <2> QED
    BY <2>1, <2>2, <2>3
<1>4. DOMAIN wire = 1..w /\ DOMAIN wire' = 1..(w + n)
  BY <1>3, <1>w, LenProperties DEF SendTypeOK
<1>5. /\ \A k \in N : wire'[k].frame = f /\ wire'[k].index = m + (k - w) - 1
      /\ \A k \in N : k \in Nat /\ w < k /\ k <= w + n /\ k \notin DOMAIN wire
      /\ \A k \in DOMAIN wire : k \in Nat /\ k <= w /\ wire'[k] = wire[k]
      /\ DOMAIN wire' = DOMAIN wire \cup N
      /\ w + 1 \in N /\ w + n \in N
  <2>1. ASSUME NEW k \in N PROVE wire'[k].frame = f /\ wire'[k].index = m + (k - w) - 1
    <3>1. wire'[k] = [frame |-> f, index |-> m + (k - w) - 1]
      BY <1>3, <1>N
    <3> QED
      BY <3>1
  <2>2. \A k \in DOMAIN wire : k \in Nat /\ k <= w /\ wire'[k] = wire[k]
    BY <1>1, <1>3, <1>4
  <2>3. /\ \A k \in N : k \in Nat /\ w < k /\ k <= w + n /\ k \notin DOMAIN wire
        /\ w + 1 \in N /\ w + n \in N
    BY <1>1, <1>4, <1>N
  <2>4. 1..(w + n) = 1..w \cup N
    BY <1>1, <1>N
  <2> QED
    BY <1>4, <2>1, <2>2, <2>3, <2>4
<1>6. /\ PlacesOf(f)' = PlacesOf(f) \cup N
      /\ \A g : g # f => PlacesOf(g)' = PlacesOf(g)
  <2>1. \A g : PlacesOf(g)' = {k \in DOMAIN wire : wire[k].frame = g} \cup {k \in N : f = g}
    BY <1>5 DEF PlacesOf
  <2> QED
    BY <2>1 DEF PlacesOf
<1>7. /\ PlacesBy(s)' = PlacesBy(s) \cup N
      /\ \A u : u # s => PlacesBy(u)' = PlacesBy(u)
  <2>1. \A u : PlacesBy(u)' =
                   {k \in DOMAIN wire : begun[wire[k].frame].by = u} \cup {k \in N : s = u}
    BY <1>0, <1>1, <1>5 DEF PlacesBy
  <2> QED
    BY <2>1 DEF PlacesBy
<1>8. next'[s] = to + 1 /\ \A u \in Senders : u # s => next'[u] = next[u]
  BY <1>0 DEF SendTypeOK
<1>9. SendTypeOK'
  <2>1. next' \in [Senders -> Nat]
    BY <1>0, <1>1 DEF SendTypeOK
  <2>2. wire' \in Seq(WireBytes')
    BY <1>0, <1>3 DEF WireBytes
  <2> QED
    BY <1>0, <2>1, <2>2 DEF SendTypeOK
<1>10. CallInv'
  <2>1. \A u \in Senders : LastByte(u)' = LastByte(u)
    BY <1>0 DEF LastByte
  <2>2. next'[s] <= LastByte(s) + 1 /\ next'[s] >= 1
    BY <1>1, <1>8
  <2> QED
    BY <1>0, <1>8, <2>1, <2>2 DEF CallInv
<1>11. ASSUME NEW P \in SUBSET DOMAIN wire PROVE Follow(P, N, w, n)
  <2>1. P \in SUBSET (1..w) /\ w \in Nat /\ n \in Nat \ {0}
    BY <1>1, <1>4
  <2> QED
    BY <1>N, <2>1, PlacesAppended
<1>12. /\ \A g : PlacesOf(g) \in SUBSET DOMAIN wire
       /\ \A u : PlacesBy(u) \in SUBSET DOMAIN wire
  BY DEF PlacesOf, PlacesBy
<1>13. /\ wire'[w + n].frame = f /\ wire'[w + n].index = to
       /\ wire'[w + 1].frame = f /\ wire'[w + 1].index = m
       /\ wire'[w + 1] = [frame |-> f, index |-> m]
  <2>1. ASSUME NEW k \in N, NEW i, m + (k - w) - 1 = i PROVE wire'[k] = [frame |-> f, index |-> i]
    BY <1>3, <1>N, <2>1
  <2>2. wire'[w + n] = [frame |-> f, index |-> to]
    <3>1. PICK k \in N : k = w + n
      BY <1>5
    <3>2. m + (k - w) - 1 = to
      BY <1>1, <1>n, <3>1
    <3> QED
      BY <2>1, <3>1, <3>2
  <2>3. wire'[w + 1] = [frame |-> f, index |-> m]
    <3>1. PICK k \in N : k = w + 1
      BY <1>5
    <3>2. m + (k - w) - 1 = m
      BY <1>1, <1>n, <3>1
    <3> QED
      BY <2>1, <3>1, <3>2
  <2> QED
    BY <2>2, <2>3
<1>14. FrameInv'
  <2> SUFFICES ASSUME NEW u \in Senders, at[u] # "idle", NEW g, g = frame[u]
               PROVE  /\ next'[u] = 0 <=> PlacesOf(g)' = {}
                      /\ \A k \in PlacesOf(g)' :
                             Last(PlacesOf(g)', k) => wire'[k].index = next'[u] - 1
    BY <1>0 DEF FrameInv, PlacesOf
  <2>1. CASE u = s
    <3>1. /\ PlacesOf(g)' = PlacesOf(f) \cup N /\ next'[u] = to + 1 /\ to + 1 # 0
          /\ PlacesOf(f) \in SUBSET DOMAIN wire
      BY <1>1, <1>6, <1>8, <1>12, <1>f, <2>1
    <3>2. PlacesOf(g)' # {}
      BY <1>5, <3>1
    <3>3. ASSUME NEW k, Last(PlacesOf(f) \cup N, k) PROVE wire'[k].index = to
      BY <1>11, <1>13, <3>1, <3>3 DEF Follow
    <3>4. to + 1 - 1 = to
      BY <1>1
    <3>5. next'[u] - 1 = to
      BY <3>1, <3>4
    <3>6. g = f
      BY <1>f, <2>1
    <3> QED
      BY <1>6, <3>1, <3>2, <3>3, <3>5, <3>6
  <2>2. CASE u # s
    <3>1. g # f
      BY <1>1, <1>f, <2>2 DEF CallInv
    <3>2. \A k \in PlacesOf(g) : wire'[k] = wire[k]
      BY <1>5, <1>12
    <3>3. /\ next[u] = 0 <=> PlacesOf(g) = {}
          /\ \A k \in PlacesOf(g) :
                 Last(PlacesOf(g), k) => wire[k].index = next[u] - 1
      BY <2>2 DEF FrameInv
    <3>4. PlacesOf(g)' = PlacesOf(g) /\ next'[u] = next[u]
      BY <1>6, <1>8, <2>2, <3>1
    <3> QED
      BY <3>2, <3>3, <3>4
  <2> QED
    BY <2>1, <2>2
<1>15. \A u \in Senders : Careful(u)' <=> Careful(u)
  BY <1>0 DEF Careful
<1>16. SenderInv'
  <2> SUFFICES ASSUME NEW u \in Senders, Careful(u), NEW k \in PlacesBy(u)', Last(PlacesBy(u)', k)
               PROVE  \/ at[u] = "idle" /\ Whole(k)'
                      \/ at[u] # "idle" /\ wire'[k].frame < frame[u] /\ Whole(k)' /\ next'[u] = 0
                      \/ /\ at[u] # "idle" /\ wire'[k].frame = frame[u]
                         /\ wire'[k].index = next'[u] - 1
    BY <1>0, <1>15 DEF SenderInv
  <2>1. CASE u = s
    <3>1. PlacesBy(u)' = PlacesBy(s) \cup N /\ PlacesBy(s) \in SUBSET DOMAIN wire
      BY <1>7, <1>12, <2>1
    <3>2. k = w + n
      <4>1. Follow(PlacesBy(s), N, w, n)
        BY <1>11, <3>1
      <4>2. Last(PlacesBy(s) \cup N, k)
        BY <3>1
      <4> QED
        BY <4>1, <4>2 DEF Follow
    <3>3. next'[u] - 1 = to
      BY <1>1, <1>8, <2>1
    <3> QED
      BY <1>0, <1>13, <1>f, <2>1, <3>2, <3>3
  <2>2. CASE u # s
    <3>1. PlacesBy(u)' = PlacesBy(u) /\ wire'[k] = wire[k] /\ next'[u] = next[u]
      BY <1>5, <1>7, <1>8, <1>12, <2>2
    <3>2. Whole(k)' = Whole(k)
      BY <1>0, <3>1 DEF Whole
    <3> QED
      BY <3>1, <3>2 DEF SenderInv
  <2> QED
    BY <2>1, <2>2
<1>17. AllInOrder'
  <2> SUFFICES ASSUME NEW g \in 1..Len(begun)
               PROVE  /\ \A k \in PlacesOf(g)' : First(PlacesOf(g)', k) => wire'[k].index = 0
                      /\ \A j, k \in PlacesOf(g)' :
                             Adjacent(PlacesOf(g)', j, k) => wire'[k].index = wire'[j].index + 1
    BY <1>0 DEF AllInOrder
  <2>0. \A k \in PlacesOf(g) : wire'[k] = wire[k]
    BY <1>5, <1>12
  <2>1. CASE g # f
    BY <1>6, <2>0, <2>1 DEF AllInOrder
  <2>2. CASE g = f
    <3> DEFINE P == PlacesOf(f)
    <3>1. /\ P \in SUBSET DOMAIN wire /\ PlacesOf(g)' = P \cup N
          /\ m = 0 <=> P = {}
          /\ \A k \in P : Last(P, k) => wire[k].index = m - 1
          /\ \A k \in P : First(P, k) => wire[k].index = 0
          /\ \A j, k \in P : Adjacent(P, j, k) => wire[k].index = wire[j].index + 1
      <4>1. /\ next[s] = 0 <=> PlacesOf(f) = {}
            /\ \A k \in PlacesOf(f) : Last(PlacesOf(f), k) => wire[k].index = next[s] - 1
        BY <1>0, <1>f DEF FrameInv
      <4> QED
        BY <1>1, <1>6, <1>12, <1>m, <2>2, <4>1 DEF AllInOrder
    <3>2. \A k \in P : wire'[k] = wire[k]
      BY <2>0, <2>2
    <3> HIDE DEF P
    <3>3. wire'[w + 1].index = m
      BY <1>13
    <3>4. ASSUME NEW k \in P \cup N, First(P \cup N, k) PROVE wire'[k].index = 0
      <4>1. CASE k \in P
        BY <1>11, <3>1, <3>2, <3>4, <4>1 DEF Follow
      <4>2. CASE k \in N
        BY <1>11, <3>1, <3>3, <3>4, <4>2 DEF Follow
      <4> QED
        BY <4>1, <4>2
    <3>5. ASSUME NEW j \in P \cup N, NEW k \in P \cup N, Adjacent(P \cup N, j, k)
          PROVE  wire'[k].index = wire'[j].index + 1
      <4>1. CASE j \in P /\ k \in P
        BY <1>11, <3>1, <3>2, <3>5, <4>1 DEF Follow
      <4>2. CASE j \in P /\ k \in N
        <5>1. Last(P, j) /\ k = w + 1
          BY <1>11, <3>1, <3>5, <4>2 DEF Follow
        <5>2. wire'[j].index = m - 1 /\ wire'[k].index = m
          BY <3>1, <3>2, <3>3, <4>2, <5>1
        <5> QED
          BY <1>1, <5>2
      <4>3. CASE j \in N /\ k \in N
        <5>1. k = j + 1
          BY <1>11, <3>1, <3>5, <4>3 DEF Follow
        <5>2. /\ wire'[j].index = m + (j - w) - 1 /\ wire'[k].index = m + (k - w) - 1
              /\ j \in Nat
          BY <1>5, <4>3
        <5> QED
          BY <1>1, <5>1, <5>2
      <4> QED
        BY <1>11, <3>1, <3>5, <4>1, <4>2, <4>3 DEF Follow
    <3> QED
      BY <3>1, <3>4, <3>5
  <2> QED
    BY <2>1, <2>2
<1>18. SendersWhole'
  <2> SUFFICES ASSUME NEW u \in Senders, Careful(u), NEW j \in PlacesBy(u)', NEW k \in PlacesBy(u)',
                      Adjacent(PlacesBy(u)', j, k)
               PROVE  Succeeds(j, k)'
    BY <1>15 DEF SendersWhole
  <2>0. \A i \in PlacesBy(u) : wire'[i] = wire[i]
    BY <1>5, <1>12
  <2>1. CASE u # s
    <3>1. PlacesBy(u)' = PlacesBy(u) /\ Succeeds(j, k)
      BY <1>7, <2>1 DEF SendersWhole
    <3> QED
      BY <1>0, <2>0, <3>1 DEF Succeeds
  <2>2. CASE u = s
    <3> DEFINE P == PlacesBy(s)
    <3>1. /\ P \in SUBSET DOMAIN wire /\ PlacesBy(u)' = P \cup N
          /\ j \in P \cup N /\ k \in P \cup N /\ Adjacent(P \cup N, j, k)
          /\ \A i \in P : i \in PlacesBy(u) /\ wire'[i] = wire[i]
      BY <1>7, <1>12, <2>0, <2>2
    <3>1a. /\ \A i \in P : Last(P, i) =>
                  \/ wire[i].frame < f /\ Whole(i) /\ m = 0
                  \/ wire[i].frame = f /\ wire[i].index = m - 1
           /\ \A i, l \in P : Adjacent(P, i, l) => Succeeds(i, l)
      BY <1>0, <1>f, <1>m, <2>2 DEF SenderInv, SendersWhole
    <3> HIDE DEF P
    <3>2. CASE j \in P /\ k \in P
      <4>1. Succeeds(j, k)
        BY <1>11, <3>1, <3>1a, <3>2 DEF Follow
      <4> QED
        BY <1>0, <3>1, <3>2, <4>1 DEF Succeeds
    <3>3. CASE j \in P /\ k \in N
      <4>1. Last(P, j) /\ k = w + 1
        BY <1>11, <3>1, <3>3 DEF Follow
      <4>2. /\ wire'[j] = wire[j] /\ wire'[k] = [frame |-> f, index |-> m]
        BY <1>13, <3>1, <3>3, <4>1
      <4>3. \/ wire[j].frame < f /\ Whole(j) /\ m = 0
            \/ wire[j].frame = f /\ wire[j].index = m - 1
        BY <3>1a, <3>3, <4>1
      <4>4. j \in DOMAIN wire
        BY <3>1, <3>3
      <4>5. /\ wire[j] = [frame |-> wire[j].frame, index |-> wire[j].index]
            /\ wire[j].index \in Nat /\ wire[j].frame \in 1..Len(begun)
            /\ begun[wire[j].frame].length \in Nat
        BY <4>4, PlacesAre
      <4>6. CASE wire[j].frame < f /\ Whole(j) /\ m = 0
        <5>1. ~(wire[j].index < begun[wire[j].frame].length)
          BY <4>5, <4>6 DEF Whole
        <5>2. wire'[k].frame > wire'[j].frame /\ wire'[k].index = 0
          BY <1>1, <4>2, <4>5, <4>6
        <5> QED
          BY <1>0, <4>2, <5>1, <5>2 DEF Succeeds
      <4>7. CASE wire[j].frame = f /\ wire[j].index = m - 1
        <5>1. wire[j].index < begun[wire[j].frame].length /\ wire[j].index + 1 = m
          <6>1. wire[j].index + 1 = m
            BY <1>1, <4>5, <4>7
          <6>2. m <= begun[f].length
            BY <1>1
          <6> QED
            BY <1>1, <4>5, <4>7, <6>1, <6>2
        <5>2. wire'[k] = [wire[j] EXCEPT !.index = @ + 1]
          BY <4>2, <4>5, <4>7, <5>1
        <5> QED
          BY <1>0, <4>2, <5>1, <5>2 DEF Succeeds
      <4> QED
        BY <4>3, <4>6, <4>7
    <3>4. CASE j \in N /\ k \in N
      <4>1. k = j + 1
        BY <1>11, <3>1, <3>4 DEF Follow
      <4>2. /\ wire'[j] = [frame |-> f, index |-> m + (j - w) - 1]
            /\ wire'[k] = [frame |-> f, index |-> m + (j - w)]
        <5>1. /\ wire'[j] = [frame |-> f, index |-> m + (j - w) - 1]
              /\ wire'[k] = [frame |-> f, index |-> m + (k - w) - 1]
              /\ j \in Nat
          BY <1>3, <1>5, <1>N, <3>4
        <5>2. m + (k - w) - 1 = m + (j - w)
          BY <1>1, <4>1, <5>1
        <5> QED
          BY <5>1, <5>2
      <4>3. wire'[j].index < begun[wire'[j].frame].length
        <5>1. j \in Nat /\ j + 1 <= w + n /\ w < j
          BY <1>5, <3>4, <4>1
        <5>2. m + (j - w) - 1 < begun[f].length
          <6>1. m + (j - w) - 1 < to /\ to <= begun[f].length
            BY <1>1, <1>n, <5>1
          <6>2. m + (j - w) - 1 \in Int
            BY <1>1, <5>1
          <6> QED
            BY <1>1, <6>1, <6>2
        <5> QED
          BY <4>2, <5>2
      <4>4. wire'[k] = [wire'[j] EXCEPT !.index = @ + 1]
        <5>1. (m + (j - w) - 1) + 1 = m + (j - w)
          <6>1. j \in Nat
            BY <1>5, <3>4
          <6> QED
            BY <1>1, <6>1
        <5> QED
          BY <4>2, <5>1
      <4> QED
        BY <1>0, <4>3, <4>4 DEF Succeeds
    <3> QED
      <4>1. ~(j \in N /\ k \in P)
        BY <1>11, <3>1 DEF Follow
      <4> QED
        BY <3>1, <3>2, <3>3, <3>4, <4>1
  <2> QED
    BY <2>1, <2>2
<1> QED
  BY <1>9, <1>10, <1>14, <1>16, <1>17, <1>18


\* The type byte is out: the payload comes next.
LEMMA BeginPayloadStep ==
    ASSUME SendInv, NEW s \in Senders, BeginPayload(s)
    PROVE  SendInv'
<1> USE DEF SendInv
<1>0. /\ at[s] = "type" /\ next[s] > LastByte(s)
      /\ at' = [at EXCEPT ![s] = "payload"] /\ next' = [next EXCEPT ![s] = 1]
      /\ UNCHANGED <<begun, frame, wire, failed>>
  BY DEF BeginPayload, Transmitted
<1>1. /\ next[s] = 1 /\ next' = next
      /\ frame[s] \in 1..Len(begun) /\ begun[frame[s]].by = s
  BY <1>0 DEF CallInv, LastByte, SendTypeOK
<1>2. begun[frame[s]].length \in Nat
  BY <1>1, CallAt
<1>3. at'[s] = "payload" /\ \A u \in Senders : u # s => at'[u] = at[u]
  BY <1>0 DEF SendTypeOK
<1>4. \A u \in Senders : at'[u] = "idle" <=> at[u] = "idle"
  BY <1>0, <1>3
<1>5. SendTypeOK'
  <2>1. at' \in [Senders -> {"idle", "type", "payload"}]
    BY <1>0 DEF SendTypeOK
  <2> QED
    BY <1>0, <1>1, <2>1 DEF SendTypeOK, WireBytes
<1>6. CallInv'
  <2>1. LastByte(s)' = begun[frame[s]].length
    BY <1>0, <1>3 DEF LastByte
  <2>2. \A u \in Senders : u # s => LastByte(u)' = LastByte(u)
    BY <1>0, <1>3 DEF LastByte
  <2> QED
    BY <1>0, <1>1, <1>2, <1>3, <2>1, <2>2 DEF CallInv
<1>7. /\ AllInOrder' /\ SendersWhole' /\ (\A f : PlacesOf(f)' = PlacesOf(f))
      /\ \A u : PlacesBy(u)' = PlacesBy(u)
  BY <1>0, WireKept
<1>8. FrameInv'
  BY <1>0, <1>1, <1>4, <1>7 DEF FrameInv
<1>9. SenderInv'
  BY <1>0, <1>1, <1>4, <1>7 DEF SenderInv, Careful, Whole
<1> QED
  BY <1>5, <1>6, <1>7, <1>8, <1>9

\* A Send that returns has put its whole frame on the wire.
LEMMA SendReturnsStep ==
    ASSUME SendInv, NEW s \in Senders, SendReturns(s)
    PROVE  SendInv'
<1> USE DEF SendInv
<1>0. /\ at[s] = "payload" /\ next[s] > LastByte(s)
      /\ at' = [at EXCEPT ![s] = "idle"]
      /\ UNCHANGED <<begun, frame, next, wire, failed>>
  BY DEF SendReturns, Transmitted
<1>1. next[s] = begun[frame[s]].length + 1 /\ next[s] >= 1 /\ frame[s] \in 1..Len(begun)
      /\ begun[frame[s]].length \in Nat
  <2>1. frame[s] \in 1..Len(begun) /\ next[s] <= LastByte(s) + 1 /\ next[s] >= 1
    BY <1>0 DEF CallInv
  <2>2. begun[frame[s]].length \in Nat /\ next[s] \in Nat
    BY <2>1, CallAt DEF SendTypeOK
  <2> QED
    BY <1>0, <2>1, <2>2 DEF LastByte
<1>3. at'[s] = "idle" /\ \A u \in Senders : u # s => at'[u] = at[u]
  BY <1>0 DEF SendTypeOK
<1>5. SendTypeOK'
  <2>1. at' \in [Senders -> {"idle", "type", "payload"}]
    BY <1>0 DEF SendTypeOK
  <2> QED
    BY <1>0, <2>1 DEF SendTypeOK, WireBytes
<1>6. CallInv'
  <2>2. \A u \in Senders : u # s => LastByte(u)' = LastByte(u)
    BY <1>0, <1>3 DEF LastByte
  <2> QED
    BY <1>0, <1>3, <2>2 DEF CallInv
<1>7. /\ AllInOrder' /\ SendersWhole' /\ (\A f : PlacesOf(f)' = PlacesOf(f))
      /\ \A u : PlacesBy(u)' = PlacesBy(u)
  BY <1>0, WireKept
<1>8. FrameInv'
  BY <1>0, <1>3, <1>7 DEF FrameInv
<1>9. SenderInv'
  <2> SUFFICES ASSUME NEW u \in Senders, Careful(u), NEW k \in PlacesBy(u), Last(PlacesBy(u), k)
               PROVE  \/ at'[u] = "idle" /\ Whole(k)
                      \/ at'[u] # "idle" /\ wire[k].frame < frame[u] /\ Whole(k) /\ next[u] = 0
                      \/ at'[u] # "idle" /\ wire[k].frame = frame[u] /\ wire[k].index = next[u] - 1
    BY <1>0, <1>7 DEF SenderInv, Careful, Whole
  <2>1. \/ at[u] = "idle" /\ Whole(k)
        \/ at[u] # "idle" /\ wire[k].frame < frame[u] /\ Whole(k) /\ next[u] = 0
        \/ at[u] # "idle" /\ wire[k].frame = frame[u] /\ wire[k].index = next[u] - 1
    BY DEF SenderInv
  <2>2. CASE u = s
    <3>1. wire[k].frame = frame[s] /\ wire[k].index = next[s] - 1
      BY <1>0, <1>1, <2>1, <2>2
    <3>2. Whole(k)
      BY <1>1, <3>1 DEF Whole
    <3> QED
      BY <1>3, <2>2, <3>2
  <2>3. CASE u # s
    BY <1>3, <2>1, <2>3
  <2> QED
    BY <2>2, <2>3
<1> QED
  BY <1>5, <1>6, <1>7, <1>8, <1>9

\* After an error nothing is said of the thread's frames as a whole.
LEMMA WriteFailsStep ==
    ASSUME SendInv, NEW s \in Senders, WriteFails(s)
    PROVE  SendInv'
<1> USE DEF SendInv
<1>0. /\ at[s] # "idle" /\ at' = [at EXCEPT ![s] = "idle"] /\ failed' = failed \cup {frame[s]}
      /\ UNCHANGED <<begun, frame, next, wire>>
  BY DEF WriteFails
<1>1. frame[s] \in 1..Len(begun) /\ begun[frame[s]].by = s
  BY <1>0 DEF CallInv
<1>3. at'[s] = "idle" /\ \A u \in Senders : u # s => at'[u] = at[u]
  BY <1>0 DEF SendTypeOK
<1>5. SendTypeOK'
  <2>1. at' \in [Senders -> {"idle", "type", "payload"}]
    BY <1>0 DEF SendTypeOK
  <2>2. failed' \subseteq 1..Len(begun)
    BY <1>0, <1>1 DEF SendTypeOK
  <2> QED
    BY <1>0, <2>1, <2>2 DEF SendTypeOK, WireBytes
<1>6. CallInv'
  <2>2. \A u \in Senders : u # s => LastByte(u)' = LastByte(u)
    BY <1>0, <1>3 DEF LastByte
  <2> QED
    BY <1>0, <1>3, <2>2 DEF CallInv
<1>7. /\ AllInOrder' /\ SendersWhole' /\ (\A f : PlacesOf(f)' = PlacesOf(f))
      /\ \A u : PlacesBy(u)' = PlacesBy(u)
  BY <1>0, WireKept
<1>8. FrameInv'
  BY <1>0, <1>3, <1>7 DEF FrameInv
<1>9. SenderInv'
  <2>1. \A u \in Senders : Careful(u)' => Careful(u) /\ u # s
    BY <1>0, <1>1 DEF Careful
  <2>2. \A k : Whole(k)' = Whole(k)
    BY <1>0 DEF Whole
  <2> QED
    BY <1>0, <1>3, <1>7, <2>1, <2>2 DEF SenderInv
<1> QED
  BY <1>5, <1>6, <1>7, <1>8, <1>9

LEMMA InitSends == InitSend => SendInv
<1> SUFFICES ASSUME InitSend PROVE SendInv
  OBVIOUS
<1>1. begun = <<>> /\ wire = <<>> /\ Len(begun) = 0 /\ DOMAIN wire = {}
      /\ begun \in Seq(Calls) /\ wire \in Seq(WireBytes)
  BY EmptySeq DEF InitSend
<1>2. \A u : PlacesBy(u) = {}
  BY <1>1 DEF PlacesBy
<1>3. 1..Len(begun) = {}
  BY <1>1
<1>4. SendTypeOK
  BY <1>1 DEF InitSend, SendTypeOK
<1> QED
  BY <1>2, <1>3, <1>4 DEF InitSend, SendInv, CallInv, FrameInv, SenderInv, AllInOrder, SendersWhole

LEMMA NextSends == SendInv /\ [NextSend]_sendVars => SendInv'
<1> SUFFICES ASSUME SendInv, [NextSend]_sendVars PROVE SendInv'
  OBVIOUS
<1>1. ASSUME NEW s \in Senders, NEW length \in 0..MaxPayload, Send(s, length) PROVE SendInv'
  BY <1>1, SendStep
<1>2. ASSUME NEW s \in Senders, SenderStep(s) PROVE SendInv'
  BY <1>2, WriteStep, BeginPayloadStep, SendReturnsStep DEF SenderStep
<1>3. ASSUME NEW s \in Senders, WriteFails(s) PROVE SendInv'
  BY <1>3, WriteFailsStep
<1>4. CASE UNCHANGED sendVars
  <2>1. UNCHANGED <<begun, at, frame, next, wire, failed>>
    BY <1>4 DEF sendVars
  <2>2. /\ AllInOrder' /\ SendersWhole' /\ (\A f : PlacesOf(f)' = PlacesOf(f))
        /\ \A u : PlacesBy(u)' = PlacesBy(u)
    BY <2>1, WireKept
  <2>3. SendTypeOK' /\ CallInv'
    BY <2>1 DEF SendInv, SendTypeOK, WireBytes, CallInv, LastByte
  <2>4. FrameInv' /\ SenderInv'
    BY <2>1, <2>2 DEF SendInv, FrameInv, SenderInv, Careful, Whole
  <2> QED
    BY <2>2, <2>3, <2>4 DEF SendInv
<1> QED
  BY <1>1, <1>2, <1>3, <1>4 DEF NextSend

\* Frames are on the wire in order, and whole but for what the other thread puts between
\* their bytes and for errors, for any number of threads and frames of any length.
THEOREM FramesAreWhole == SendSpec => []WireIsFramed
<1>1. InitSend => SendInv
  BY InitSends
<1>2. SendInv /\ [NextSend]_sendVars => SendInv'
  BY NextSends
<1>3. SendInv => WireIsFramed
  <2> SUFFICES ASSUME SendInv PROVE WireIsFramed
    OBVIOUS
  <2>1. ASSUME NEW f, PlacesOf(f) # {} PROVE f \in 1..Len(begun)
    BY <2>1, PlacesAre DEF PlacesOf, SendInv
  <2>2. FramesInOrder
    BY <2>1 DEF SendInv, AllInOrder, FramesInOrder
  <2> QED
    BY <2>2 DEF SendInv, SendersWhole, Careful, Succeeds, WireIsFramed
<1> QED
  BY <1>1, <1>2, <1>3, PTL DEF SendSpec
=============================================================================
