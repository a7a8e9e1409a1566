------------------------- MODULE RecvFramingProofs -------------------------
(***************************************************************************)
(* The stream buffer of the receive path, for every stream, every way the  *)
(* bytes arrive and every capacity larger than a size field can express.   *)
(* That CapacityAssumption is what the argument turns on: the code has a   *)
(* buffer of 65536 bytes and a 16-bit size field, and nothing else keeps   *)
(* recv from being offered no room, whose 0 would read as end of stream.   *)
(* That the packets come out as they were sent, if they have one size,     *)
(* follows from where the parsing loop stands in the stream.               *)
(***************************************************************************)
EXTENDS RecvFraming, TLAPS

\* Clean leaves nothing in front of what is left.
AtFront == readPos = 0

Inv ==
  /\ TypeOK
  /\ AtFront
  /\ RoomToReceive
  /\ ParsedWithinBuffer
  /\ ClosesOnlyAtEnd
  /\ BufferHoldsRest
  /\ NoStrandedBytes

\* Whatever the buffer holds, the size PacketParsing reads is a number smaller
\* than the buffer.
LEMMA PacketSizeBound ==
  ASSUME TypeOK, HeaderSize \in Nat \ {0}
  PROVE  PacketSize \in Nat /\ PacketSize < Capacity
<1>1. CASE buffer[readPos] \in Offset
  <2>1. sizeAt[buffer[readPos]] \in Values
    BY <1>1 DEF TypeOK
  <2>2. QED
    BY <1>1, <2>1, ValuesAssumption, CapacityAssumption DEF PacketSize
<1>2. CASE buffer[readPos] \notin Offset
  BY <1>2, CapacityAssumption DEF PacketSize
<1>3. QED
  BY <1>1, <1>2

\* The empty buffer of an idle session.
LEMMA InitInv == Init => Inv
<1> SUFFICES ASSUME Init PROVE Inv
  OBVIOUS
<1> USE StreamLenAssumption, CapacityAssumption, HeaderSizeAssumption DEF Init
<1>1. TypeOK
  <2>1. sizeAt \in [Offset -> Values]
    OBVIOUS
  <2>2. buffer \in [0 .. Capacity - 1 -> 0 .. StreamLen]
    BY DEF Blank
  <2>3. /\ arrived \in 0 .. StreamLen /\ taken \in 0 .. arrived
        /\ readPos \in 0 .. Capacity /\ writePos \in readPos .. Capacity
        /\ processLen \in 0 .. Capacity
        /\ boundaries \subseteq 0 .. StreamLen
        /\ frames \in Seq(Seq(0 .. StreamLen))
    OBVIOUS
  <2>4. QED
    BY <2>1, <2>2, <2>3 DEF TypeOK
<1>2. RoomToReceive /\ AtFront
  BY DEF RoomToReceive, WriteableSize, AtFront
<1>3. ParsedWithinBuffer /\ ClosesOnlyAtEnd /\ NoStrandedBytes
  BY DEF ParsedWithinBuffer, ClosesOnlyAtEnd, NoStrandedBytes
<1>4. BufferHoldsRest
  BY DEF BufferHoldsRest
<1>5. QED
  BY <1>1, <1>2, <1>3, <1>4 DEF Inv

\* The peer's steps leave the buffer alone and announce themselves.
LEMMA PeerKeepsInv == ASSUME Inv, PeerSends \/ PeerFinishes PROVE Inv'
<1> USE StreamLenAssumption
    DEF Inv, TypeOK, PeerSends, PeerFinishes, streamBuffer, stream
<1>1. TypeOK'
  <2>1. arrived' \in 0 .. StreamLen /\ taken' \in 0 .. arrived'
    <3>1. CASE PeerSends
      <4>1. PICK n \in 1 .. StreamLen - arrived : arrived' = arrived + n
        BY <3>1
      <4>2. QED
        BY <3>1, <4>1
    <3>2. CASE PeerFinishes
      BY <3>2
    <3>3. QED
      BY <3>1, <3>2
  <2>2. QED
    BY <2>1
<1>2. RoomToReceive' /\ AtFront' /\ ParsedWithinBuffer'
  BY DEF RoomToReceive, WriteableSize, AtFront, ParsedWithinBuffer,
         ReadableSize
<1>3. ClosesOnlyAtEnd' /\ NoStrandedBytes'
  BY DEF ClosesOnlyAtEnd, NoStrandedBytes
<1>4. BufferHoldsRest'
  BY DEF BufferHoldsRest
<1>5. QED
  BY <1>1, <1>2, <1>3, <1>4

\* A successful recv appends what it took behind what the buffer holds.
LEMMA RecvKeepsInv == ASSUME Inv, Recv PROVE Inv'
<1> USE StreamLenAssumption, CapacityAssumption
<1>1. PICK n \in 1 .. arrived - taken :
        /\ n <= Capacity - writePos
        /\ buffer' = [i \in DOMAIN buffer |->
                        IF i \in writePos .. writePos + n - 1
                          THEN taken + (i - writePos) ELSE buffer[i]]
        /\ writePos' = writePos + n
        /\ taken' = taken + n
  BY DEF Recv, WriteableSize
<1>2. /\ processLen' = 0 /\ pc' = "parse" /\ readPos' = readPos
      /\ arrived' = arrived /\ finished' = finished /\ sizeAt' = sizeAt
      /\ edge' = edge /\ result' = result
      /\ boundaries' = boundaries /\ frames' = frames
  BY DEF Recv, peer, stream
<1>3. readPos = 0 /\ readPos' = 0
  BY <1>2 DEF Inv, AtFront
<1>4. TypeOK'
  <2>1. buffer' \in [0 .. Capacity - 1 -> 0 .. StreamLen]
    BY <1>1 DEF Inv, TypeOK
  <2>2. QED
    BY <1>1, <1>2, <1>3, <2>1 DEF Inv, TypeOK
<1>5. RoomToReceive' /\ AtFront' /\ ClosesOnlyAtEnd' /\ NoStrandedBytes'
  BY <1>2, <1>3 DEF RoomToReceive, AtFront, ClosesOnlyAtEnd, NoStrandedBytes
<1>6. ParsedWithinBuffer'
  BY <1>1, <1>2, <1>3, <1>4 DEF ParsedWithinBuffer, ReadableSize, TypeOK
<1>7. BufferHoldsRest'
  <2> SUFFICES ASSUME NEW i \in 0 .. writePos' - 1
               PROVE  buffer'[i] = taken' - writePos' + i
    BY <1>3 DEF BufferHoldsRest
  <2>1. i \in 0 .. Capacity - 1 /\ DOMAIN buffer = 0 .. Capacity - 1
    BY <1>1, <1>3 DEF Inv, TypeOK
  <2>2. CASE i \in 0 .. writePos - 1
    BY <1>1, <1>3, <2>1, <2>2 DEF Inv, TypeOK, BufferHoldsRest
  <2>3. CASE i \in writePos .. writePos + n - 1
    BY <1>1, <2>1, <2>3 DEF Inv, TypeOK
  <2>4. QED
    BY <1>1, <1>3, <2>2, <2>3 DEF Inv, TypeOK
<1>8. QED
  BY <1>4, <1>5, <1>6, <1>7 DEF Inv

\* What the parsing leaves is less than one packet, so that moving it to the
\* front makes room.
LEMMA ParseEndsKeepsInv == ASSUME Inv, ParseEnds PROVE Inv'
<1> USE StreamLenAssumption, CapacityAssumption, HeaderSizeAssumption
<1> DEFINE r == readPos + processLen
<1>1. /\ pc = "parse" /\ processLen <= ReadableSize /\ readPos = 0
      /\ ~WholePacket
  BY DEF ParseEnds, Inv, ParsedWithinBuffer, AtFront
<1>2. /\ Clean(r) /\ pc' = "recv" /\ result' = result /\ processLen' = 0
      /\ sizeAt' = sizeAt /\ arrived' = arrived /\ finished' = finished
      /\ taken' = taken /\ edge' = edge
      /\ boundaries' = boundaries /\ frames' = frames
  BY <1>1 DEF ParseEnds, AfterParsing, peer, stream
<1>3. r \in 0 .. writePos /\ r = processLen
  BY <1>1 DEF Inv, TypeOK, ReadableSize
<1>4. writePos' = writePos - r /\ readPos' = 0
  BY <1>2 DEF Clean
<1>5. writePos - r < Capacity
  <2>1. Unparsed = writePos - r
    BY <1>1 DEF Unparsed, ReadableSize, Inv, TypeOK
  <2>2. PacketSize \in Nat /\ PacketSize < Capacity
    BY PacketSizeBound DEF Inv
  <2>3. Unparsed < HeaderSize \/ Unparsed < PacketSize
    BY <1>1, <1>3, <2>1, <2>2 DEF WholePacket, Inv, TypeOK
  <2>4. QED
    BY <1>3, <2>1, <2>2, <2>3 DEF Inv, TypeOK
<1>6. TypeOK'
  <2>1. buffer' \in [0 .. Capacity - 1 -> 0 .. StreamLen]
    BY <1>2, <1>3 DEF Clean, Inv, TypeOK
  <2>2. QED
    BY <1>2, <1>3, <1>4, <2>1 DEF Inv, TypeOK
<1>7. RoomToReceive'
  BY <1>3, <1>4, <1>5 DEF RoomToReceive, WriteableSize, Inv, TypeOK
<1>8. AtFront' /\ ParsedWithinBuffer' /\ ClosesOnlyAtEnd' /\ NoStrandedBytes'
  BY <1>2, <1>4 DEF AtFront, ParsedWithinBuffer, ClosesOnlyAtEnd,
                    NoStrandedBytes
<1>9. BufferHoldsRest'
  <2> SUFFICES ASSUME NEW i \in 0 .. writePos - r - 1
               PROVE  buffer'[i] = taken - (writePos - r) + i
    BY <1>2, <1>4 DEF BufferHoldsRest
  <2>1. i \in DOMAIN buffer /\ r + i \in readPos .. writePos - 1 /\ i < writePos - r
    BY <1>1, <1>3 DEF Inv, TypeOK
  <2>2. buffer'[i] = buffer[r + i]
    BY <1>2, <2>1 DEF Clean
  <2>3. buffer[r + i] = taken - writePos + (r + i)
    BY <2>1 DEF Inv, BufferHoldsRest
  <2>4. QED
    BY <1>3, <2>1, <2>2, <2>3 DEF Inv, TypeOK
<1>10. QED
  BY <1>6, <1>7, <1>8, <1>9 DEF Inv

\* The other steps leave the buffer and its positions alone.
LEMMA OthersKeepInv ==
  ASSUME Inv, ReadEvent \/ RecvReturnsZero \/ RecvWouldBlock \/ ParsePacket
                \/ ParseSpins
  PROVE  Inv'
<1> USE StreamLenAssumption, CapacityAssumption
    DEF peer, stream, streamBuffer
<1>1. CASE ReadEvent
  BY <1>1 DEF ReadEvent, Inv, TypeOK, AtFront, RoomToReceive, WriteableSize,
              ParsedWithinBuffer, ReadableSize, ClosesOnlyAtEnd,
              BufferHoldsRest, NoStrandedBytes
<1>2. CASE RecvReturnsZero
  <2>1. WriteableSize > 0
    BY <1>2 DEF RecvReturnsZero, Inv, RoomToReceive
  <2>2. arrived = taken /\ finished
    BY <1>2, <2>1 DEF RecvReturnsZero
  <2>3. QED
    BY <1>2, <2>2 DEF RecvReturnsZero, Inv, TypeOK, AtFront, RoomToReceive,
         WriteableSize, ParsedWithinBuffer, ReadableSize, ClosesOnlyAtEnd,
         BufferHoldsRest, NoStrandedBytes
<1>3. CASE RecvWouldBlock
  BY <1>3 DEF RecvWouldBlock, Inv, TypeOK, AtFront, RoomToReceive,
       WriteableSize, ParsedWithinBuffer, ReadableSize, ClosesOnlyAtEnd,
       BufferHoldsRest, NoStrandedBytes
<1>4. CASE ParsePacket
  <2>1. PacketSize \in Nat
    BY PacketSizeBound, HeaderSizeAssumption DEF Inv
  <2>2. /\ processLen' = processLen + PacketSize
        /\ PacketSize <= writePos - readPos - processLen
    BY <1>4, <2>1
       DEF ParsePacket, WholePacket, Unparsed, ReadableSize, Inv, TypeOK
  <2>3. /\ processLen' \in 0 .. Capacity
        /\ processLen' <= writePos - readPos
    BY <2>1, <2>2 DEF Inv, TypeOK
  <2>4. frames' \in Seq(Seq(0 .. StreamLen))
    <3> DEFINE frame == [i \in 1 .. PacketSize |->
                           buffer[readPos + processLen + i - 1]]
    <3>1. ASSUME NEW i \in 1 .. PacketSize
          PROVE  buffer[readPos + processLen + i - 1] \in 0 .. StreamLen
      <4>1. readPos + processLen + i - 1 \in 0 .. Capacity - 1
        BY <2>1, <2>2 DEF Inv, TypeOK
      <4>2. QED
        BY <4>1 DEF Inv, TypeOK
    <3>2. frame \in Seq(0 .. StreamLen)
      BY <2>1, <3>1
    <3>3. frames' = Append(frames, frame)
      BY <1>4 DEF ParsePacket
    <3> HIDE DEF frame
    <3>4. QED
      BY <3>2, <3>3 DEF Inv, TypeOK
  <2>5. QED
    BY <1>4, <2>3, <2>4 DEF ParsePacket, Inv, TypeOK, AtFront, RoomToReceive,
         ParsedWithinBuffer, ReadableSize, ClosesOnlyAtEnd, BufferHoldsRest,
         NoStrandedBytes
<1>5. CASE ParseSpins
  BY <1>5 DEF ParseSpins, Inv, TypeOK, AtFront, RoomToReceive, WriteableSize,
       ParsedWithinBuffer, ReadableSize, ClosesOnlyAtEnd, BufferHoldsRest,
       NoStrandedBytes
<1>6. QED
  BY <1>1, <1>2, <1>3, <1>4, <1>5

LEMMA InvInductive == SafeSpec => []Inv
<1>1. Inv /\ [Next]_vars => Inv'
  <2> SUFFICES ASSUME Inv, [Next]_vars PROVE Inv'
    OBVIOUS
  <2>1. CASE PeerSends \/ PeerFinishes
    BY <2>1, PeerKeepsInv
  <2>2. CASE Recv
    BY <2>2, RecvKeepsInv
  <2>3. CASE ParseEnds
    BY <2>3, ParseEndsKeepsInv
  <2>4. CASE ReadEvent \/ RecvReturnsZero \/ RecvWouldBlock \/ ParsePacket
               \/ ParseSpins
    BY <2>4, OthersKeepInv
  <2>5. CASE UNCHANGED vars
    BY <2>5 DEF vars, Inv, TypeOK, AtFront, RoomToReceive, WriteableSize,
         ParsedWithinBuffer, ReadableSize, ClosesOnlyAtEnd, BufferHoldsRest,
         NoStrandedBytes
  <2>6. QED
    BY <2>1, <2>2, <2>3, <2>4, <2>5 DEF Next, ProcessRecv, PacketParsing
<1>2. QED
  BY <1>1, InitInv, PTL DEF SafeSpec

----------------------------------------------------------------------------
\* The positions of the stream buffer stay in order and inside it.
THEOREM TypeInvariant == SafeSpec => []TypeOK
<1>1. Inv => TypeOK
  BY DEF Inv
<1>2. QED
  BY <1>1, InvInductive, PTL

\* recv is always offered room: an unfinished packet never fills the buffer.
THEOREM RoomToReceiveHolds == SafeSpec => []RoomToReceive
<1>1. Inv => RoomToReceive
  BY DEF Inv
<1>2. QED
  BY <1>1, InvInductive, PTL

\* PacketParsing stays within the bytes received, whatever the sizes it reads.
THEOREM ParsedWithinBufferHolds == SafeSpec => []ParsedWithinBuffer
<1>1. Inv => ParsedWithinBuffer
  BY DEF Inv
<1>2. QED
  BY <1>1, InvInductive, PTL

\* A session is closed by its input only at the end of the stream, with every
\* byte taken from the socket.
THEOREM ClosesOnlyAtEndHolds == SafeSpec => []ClosesOnlyAtEnd
<1>1. Inv => ClosesOnlyAtEnd
  BY DEF Inv
<1>2. QED
  BY <1>1, InvInductive, PTL

\* The buffer holds, in order, exactly the bytes received and not handed over.
THEOREM BufferHoldsRestHolds == SafeSpec => []BufferHoldsRest
<1>1. Inv => BufferHoldsRest
  BY DEF Inv
<1>2. QED
  BY <1>1, InvInductive, PTL

\* No byte waits in the socket of an idle session without an edge to come.
THEOREM NoStrandedBytesHolds == SafeSpec => []NoStrandedBytes
<1>1. Inv => NoStrandedBytes
  BY DEF Inv
<1>2. QED
  BY <1>1, InvInductive, PTL

----------------------------------------------------------------------------
(***************************************************************************)
(* What OnRecv is given.  Each turn of the parsing begins where the last   *)
(* packet ended.  It takes the size that stands at the start of the        *)
(* buffer, so that what it hands over is a packet only if the packet at    *)
(* the start has the size of this one: with one size for all, the start of *)
(* the buffer and the place parsed to are both boundaries of the stream.   *)
(***************************************************************************)

AtBoundary ==
  /\ taken - ReadableSize \in boundaries
  /\ Parsed \in boundaries
  /\ FramesArePackets

ParsesInTurn ==
  /\ pc \in {"idle", "recv"} => processLen = 0
  /\ FramesTile
  /\ Uniform => AtBoundary

\* A closed framing is kept by every step: the stream does not change.
FramedStream == Framed(sizeAt, boundaries)

\* The steps that hand nothing over and do not move the place parsed to.
LEMMA SamePlace ==
  ASSUME ParsesInTurn, UNCHANGED <<sizeAt, boundaries, frames>>,
         Parsed' = Parsed,
         \/ (taken - ReadableSize)' = taken - ReadableSize
         \/ (taken - ReadableSize)' = Parsed,
         (pc \in {"idle", "recv"} => processLen = 0)'
  PROVE  ParsesInTurn'
<1>1. FramesTile'
  BY DEF ParsesInTurn, FramesTile, FrameEnd
<1>2. FramesArePackets' = FramesArePackets /\ Uniform' = Uniform
  BY DEF FramesArePackets, Uniform
<1>3. Uniform => AtBoundary'
  BY <1>2 DEF ParsesInTurn, AtBoundary
<1>4. QED
  BY <1>1, <1>2, <1>3 DEF ParsesInTurn

\* OnRecv gets the next packet.
LEMMA ParsePacketInTurn ==
  ASSUME Inv, FramedStream, ParsesInTurn, ParsePacket
  PROVE  ParsesInTurn'
<1> USE StreamLenAssumption, CapacityAssumption, HeaderSizeAssumption
<1> DEFINE size == PacketSize
           base == taken - ReadableSize
           frame == [i \in 1 .. size |-> buffer[readPos + processLen + i - 1]]
<1>0. PICK last \in Nat : last = Len(frames)
  BY DEF Inv, TypeOK
<1>1. /\ frames' = Append(frames, frame)
      /\ processLen' = processLen + size
      /\ pc = "parse" /\ pc' = "parse"
      /\ UNCHANGED <<sizeAt, boundaries, taken, readPos, writePos>>
  BY DEF ParsePacket, peer, stream, streamBuffer
<1>2. size \in Nat /\ size > 0
  BY PacketSizeBound DEF Inv, ParsePacket
<1>3. /\ writePos - readPos - processLen >= HeaderSize
      /\ writePos - readPos - processLen >= size
  BY <1>2 DEF ParsePacket, WholePacket, Unparsed, ReadableSize
<1> HIDE DEF size
<1>4. /\ taken \in Nat /\ taken <= StreamLen /\ readPos = 0
      /\ writePos \in Nat /\ processLen \in Nat /\ writePos <= Capacity
  BY DEF Inv, TypeOK, AtFront
<1>5. /\ base = taken - writePos
      /\ Parsed = taken - writePos + processLen
      /\ Parsed' = Parsed + size
  BY <1>1, <1>2, <1>4 DEF Parsed, ReadableSize
<1>6. \A i \in 1 .. size : frame[i] = Parsed + i - 1
  <2>1. ASSUME NEW i \in 1 .. size
        PROVE  buffer[readPos + processLen + i - 1] = Parsed + i - 1
    <3>1. readPos + processLen + i - 1 \in readPos .. writePos - 1
      BY <1>2, <1>3, <1>4
    <3>2. buffer[readPos + processLen + i - 1]
            = taken - writePos + (readPos + processLen + i - 1)
      BY <3>1 DEF Inv, BufferHoldsRest
    <3>3. QED
      BY <1>2, <1>4, <1>5, <3>2
  <2>2. QED
    BY <2>1
<1>7. DOMAIN frame = 1 .. size /\ Len(frame) = size /\ frame # <<>>
  BY <1>2
<1>8. /\ Len(frames') = last + 1 /\ DOMAIN frames = 1 .. last
      /\ last \in Nat
      /\ DOMAIN frames' = 1 .. last + 1
      /\ frames'[last + 1] = frame
      /\ \A k \in 1 .. last : frames'[k] = frames[k]
  <2>1. frames \in Seq(Seq(0 .. StreamLen))
    BY DEF Inv, TypeOK
  <2> HIDE DEF frame
  <2>2. QED
    BY <1>0, <1>1, <2>1
<1> HIDE DEF frame, base
<1>9. ASSUME NEW k \in 0 .. last PROVE FrameEnd(k)' = FrameEnd(k)
  BY <1>8 DEF FrameEnd
<1>10. FrameEnd(last) = Parsed
  BY <1>0 DEF ParsesInTurn, FramesTile
<1>11. FramesTile'
  <2>1. ASSUME NEW k \in DOMAIN frames'
        PROVE  /\ frames'[k] # <<>>
               /\ \A i \in DOMAIN frames'[k] :
                    frames'[k][i] = FrameEnd(k - 1)' + i - 1
    <3>1. CASE k \in 1 .. last
      <4>1. FrameEnd(k - 1)' = FrameEnd(k - 1)
        BY <1>8, <1>9, <3>1
      <4>2. frames'[k] = frames[k]
        BY <1>8, <3>1
      <4>3. QED
        BY <1>8, <3>1, <4>1, <4>2 DEF ParsesInTurn, FramesTile
    <3>2. CASE k = last + 1
      <4>1. FrameEnd(k - 1)' = Parsed
        BY <1>8, <1>9, <1>10, <3>2
      <4>2. QED
        BY <1>6, <1>7, <1>8, <3>2, <4>1
    <3>3. QED
      BY <1>8, <3>1, <3>2
  <2>2. FrameEnd(Len(frames))' = Parsed'
    <3>1. FrameEnd(last + 1)' = frame[1] + Len(frame)
      BY <1>8 DEF FrameEnd
    <3>2. frame[1] = Parsed
      BY <1>2, <1>4, <1>5, <1>6
    <3>3. QED
      BY <1>5, <1>7, <1>8, <3>1, <3>2
  <2>3. QED
    BY <2>1, <2>2 DEF FramesTile
<1>12. ASSUME Uniform PROVE AtBoundary'
  <2>1. base \in boundaries /\ Parsed \in boundaries /\ FramesArePackets
    BY <1>12 DEF ParsesInTurn, AtBoundary, base
  <2>2. base \in Offset /\ Parsed \in Offset
    <3>1. boundaries \subseteq 0 .. StreamLen
      BY DEF Inv, TypeOK
    <3>2. base < StreamLen /\ Parsed < StreamLen
      BY <1>3, <1>4, <1>5
    <3>3. QED
      BY <2>1, <3>1, <3>2 DEF Offset
  <2>3. size = sizeAt[base]
    <3>1. 0 \in readPos .. writePos - 1
      BY <1>3, <1>4
    <3>2. buffer[readPos] = base
      BY <1>4, <1>5, <3>1 DEF Inv, BufferHoldsRest
    <3>3. QED
      BY <2>2, <3>2 DEF size, PacketSize
  <2>4. sizeAt[Parsed] = size
    BY <1>12, <2>1, <2>2, <2>3 DEF Uniform
  <2>5. Parsed' <= StreamLen
    BY <1>2, <1>3, <1>4, <1>5
  <2>6. Parsed' \in boundaries'
    BY <1>1, <1>5, <2>1, <2>2, <2>4, <2>5 DEF FramedStream, Framed
  <2>7. (taken - ReadableSize)' \in boundaries'
    BY <1>1, <2>1 DEF base, ReadableSize
  <2>8. FramesArePackets'
    <3>1. ASSUME NEW k \in DOMAIN frames'
          PROVE  /\ frames'[k][1] \in boundaries' \cap Offset
                 /\ frames'[k] = [i \in 1 .. sizeAt'[frames'[k][1]] |->
                                    frames'[k][1] + i - 1]
      <4>1. CASE k \in 1 .. last
        <5>1. /\ frames[k][1] \in boundaries \cap Offset
              /\ frames[k] = [i \in 1 .. sizeAt[frames[k][1]] |->
                                frames[k][1] + i - 1]
          BY <1>8, <2>1, <4>1 DEF FramesArePackets
        <5>2. frames'[k] = frames[k]
          BY <1>8, <4>1
        <5>3. QED
          BY <1>1, <5>1, <5>2
      <4>2. CASE k = last + 1
        <5>1. frames'[k] = frame /\ frame[1] = Parsed
          BY <1>2, <1>4, <1>5, <1>6, <1>8, <4>2
        <5>2. frame = [i \in 1 .. size |-> Parsed + i - 1]
          BY <1>6 DEF frame
        <5>3. QED
          BY <1>1, <2>1, <2>2, <2>4, <5>1, <5>2
      <4>3. QED
        BY <1>8, <4>1, <4>2
    <3>2. QED
      BY <3>1 DEF FramesArePackets
  <2>9. QED
    BY <2>6, <2>7, <2>8 DEF AtBoundary
<1>13. Uniform' = Uniform
  BY <1>1 DEF Uniform
<1>14. QED
  BY <1>1, <1>11, <1>12, <1>13 DEF ParsesInTurn

LEMMA ParsesInTurnHolds == SafeSpec => [](FramedStream /\ ParsesInTurn)
<1> USE StreamLenAssumption, CapacityAssumption
<1>1. Init => FramedStream /\ ParsesInTurn
  <2> SUFFICES ASSUME Init PROVE FramedStream /\ ParsesInTurn
    OBVIOUS
  <2>1. /\ frames = <<>> /\ processLen = 0 /\ taken - ReadableSize = 0
        /\ Parsed = 0 /\ DOMAIN frames = {} /\ Len(frames) = 0
    BY DEF Init, Parsed, ReadableSize
  <2>2. FramedStream /\ 0 \in boundaries
    BY DEF Init, FramedStream, Framed
  <2>3. FramesTile /\ FramesArePackets
    BY <2>1 DEF FramesTile, FramesArePackets, FrameEnd
  <2>4. QED
    BY <2>1, <2>2, <2>3 DEF ParsesInTurn, AtBoundary
<1>2. Inv /\ FramedStream /\ ParsesInTurn /\ [Next]_vars
        => (FramedStream /\ ParsesInTurn)'
  <2> SUFFICES ASSUME Inv, FramedStream, ParsesInTurn, [Next]_vars
               PROVE  FramedStream' /\ ParsesInTurn'
    OBVIOUS
  <2>0. UNCHANGED <<sizeAt, boundaries>>
    BY DEF Next, PeerSends, PeerFinishes, ReadEvent, ProcessRecv, Recv,
           RecvReturnsZero, RecvWouldBlock, PacketParsing, ParsePacket,
           ParseSpins, ParseEnds, vars, peer, stream
  <2>1. FramedStream'
    BY <2>0 DEF FramedStream
  <2>2. /\ taken \in Nat /\ readPos = 0 /\ writePos \in Nat
        /\ processLen \in Nat
    BY DEF Inv, TypeOK, AtFront
  <2>3. pc \in {"idle", "recv"} => processLen = 0
    BY DEF ParsesInTurn
  <2>4. CASE \/ PeerSends \/ PeerFinishes \/ ReadEvent \/ RecvReturnsZero
             \/ RecvWouldBlock \/ ParseSpins \/ UNCHANGED vars
    <3>1. /\ UNCHANGED <<frames, taken, readPos, writePos, processLen>>
          /\ pc' \in {"idle", "recv"} => pc \in {"idle", "recv"}
      BY <2>4 DEF PeerSends, PeerFinishes, ReadEvent, RecvReturnsZero,
                  RecvWouldBlock, ParseSpins, vars, streamBuffer
    <3>2. Parsed' = Parsed /\ (taken - ReadableSize)' = taken - ReadableSize
      BY <3>1 DEF Parsed, ReadableSize
    <3>3. QED
      BY <2>0, <2>1, <2>3, <3>1, <3>2, SamePlace
  <2>5. CASE Recv
    <3>1. PICK n \in 1 .. arrived - taken :
            writePos' = writePos + n /\ taken' = taken + n
      BY <2>5 DEF Recv
    <3>2. /\ frames' = frames /\ readPos' = readPos /\ processLen' = 0
          /\ processLen = 0 /\ pc' = "parse"
      BY <2>3, <2>5 DEF Recv
    <3>3. n \in Nat
      BY <2>2 DEF Inv, TypeOK
    <3>4. Parsed' = Parsed /\ (taken - ReadableSize)' = taken - ReadableSize
      BY <2>2, <3>1, <3>2, <3>3 DEF Parsed, ReadableSize
    <3>5. QED
      BY <2>0, <2>1, <3>2, <3>4, SamePlace
  <2>6. CASE ParseEnds
    <3>1. /\ frames' = frames /\ taken' = taken /\ readPos' = 0
          /\ writePos' = writePos - (readPos + processLen)
          /\ processLen' = 0
      BY <2>6 DEF ParseEnds, Clean, Inv, ParsedWithinBuffer
    <3>2. Parsed' = Parsed /\ (taken - ReadableSize)' = Parsed
      BY <2>2, <3>1 DEF Parsed, ReadableSize
    <3>3. QED
      BY <2>0, <2>1, <3>1, <3>2, SamePlace
  <2>7. CASE ParsePacket
    BY <2>1, <2>7, ParsePacketInTurn
  <2>8. QED
    BY <2>1, <2>4, <2>5, <2>6, <2>7 DEF Next, ProcessRecv, PacketParsing
<1>3. QED
  BY <1>1, <1>2, InvInductive, PTL DEF SafeSpec

\* What OnRecv is given tiles the stream, and is one packet at a time if the
\* peer's packets have all one size, wherever recv cuts the stream.
THEOREM StreamRestoredHolds == SafeSpec => []StreamRestored
<1>1. ParsesInTurn => StreamRestored
  BY DEF ParsesInTurn, AtBoundary, StreamRestored
<1>2. QED
  BY <1>1, ParsesInTurnHolds, PTL

=============================================================================
