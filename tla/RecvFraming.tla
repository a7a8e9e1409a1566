---------------------------- MODULE RecvFraming ----------------------------
(***************************************************************************)
(* The receive path of one connected Session: the edge-triggered EPOLLIN   *)
(* event, ProcessRecv's loop over recv, the StreamBuffer with its two      *)
(* positions, and PacketParsing, which hands packets to OnRecv.            *)
(*                                                                         *)
(* The peer's stream is abstracted to offsets; all that matters of its     *)
(* bytes is what the uint16 at an offset would say if it were read as the  *)
(* size field of a packet header.  The buffer holds offsets, so that a     *)
(* byte overwritten, moved or skipped by mistake shows.                    *)
(***************************************************************************)
EXTENDS Naturals, Sequences

CONSTANTS StreamLen,     \* bytes the peer will send
          HeaderSize,    \* sizeof(PacketHeader)
          Sizes,         \* the packet sizes the peer uses
          Values,        \* what two bytes may say, in a header or out of it
          Capacity       \* of the stream buffer; 65536 in the code

ASSUME StreamLenAssumption == StreamLen \in Nat
ASSUME HeaderSizeAssumption == HeaderSize \in Nat \ {0}
ASSUME ValuesAssumption == Values \subseteq Nat /\ Sizes \subseteq Values
ASSUME SizesAssumption == \A n \in Sizes : HeaderSize <= n

\* A size field is narrower than the buffer is long: uint16 against 65536.
ASSUME CapacityAssumption ==
  /\ Capacity \in Nat
  /\ HeaderSize <= Capacity
  /\ \A n \in Values : n < Capacity

Offset == 0 .. StreamLen - 1

\* A place of the buffer that nothing was written to.
Blank == StreamLen

VARIABLES
  sizeAt,      \* the stream: the size field one would read at each offset
  boundaries,  \* the stream: where its packets begin, and where the last ends
  arrived,     \* bytes that have reached the socket
  finished,    \* the peer has closed its side
  taken,       \* bytes taken from the socket by recv
  edge,        \* an EPOLLIN edge is due to be reported
  buffer,      \* StreamBuffer::_buffer, as stream offsets
  readPos,     \* StreamBuffer::_readPos
  writePos,    \* StreamBuffer::_writePos
  pc,          \* "idle", "recv", "parse", "spin" or "closed"
  processLen,  \* PacketParsing's local
  result,      \* what ProcessRecv returned last
  frames       \* history: the packets handed to OnRecv

vars == <<sizeAt, boundaries, arrived, finished, taken, edge, buffer, readPos,
          writePos, pc, processLen, result, frames>>

stream == <<sizeAt, boundaries>>
peer == <<stream, arrived, finished>>
streamBuffer == <<buffer, readPos, writePos>>

\* The peer frames what it sends: a packet begins where the one before it ends,
\* and at every beginning stands a legal size.
Framed(sz, bounds) ==
  /\ 0 \in bounds
  /\ \A m \in bounds \cap Offset :
       /\ sz[m] \in Sizes
       /\ m + sz[m] <= StreamLen => m + sz[m] \in bounds
  /\ \A n \in bounds \ {0} : \E m \in bounds \cap Offset : m + sz[m] = n

Init ==
  /\ sizeAt \in [Offset -> Values]
  /\ boundaries \in SUBSET (0 .. StreamLen)
  /\ Framed(sizeAt, boundaries)
  /\ arrived = 0
  /\ finished = FALSE
  /\ taken = 0
  /\ edge = FALSE
  /\ buffer = [i \in 0 .. Capacity - 1 |-> Blank]
  /\ readPos = 0
  /\ writePos = 0
  /\ pc = "idle"
  /\ processLen = 0
  /\ result = "NetworkEventDispatched"
  /\ frames = <<>>

ReadableSize == writePos - readPos
WriteableSize == Capacity - writePos

----------------------------------------------------------------------------
\* Bytes arrive: an edge for epoll.
PeerSends ==
  /\ ~finished
  /\ \E n \in 1 .. StreamLen - arrived : arrived' = arrived + n
  /\ edge' = TRUE
  /\ UNCHANGED <<stream, finished, taken, streamBuffer, pc, processLen, result,
                 frames>>

PeerFinishes ==
  /\ ~finished
  /\ finished' = TRUE
  /\ edge' = TRUE
  /\ UNCHANGED <<stream, arrived, taken, streamBuffer, pc, processLen, result,
                 frames>>

\* The dispatcher visits the EPOLLIN event; ProcessRecv starts.
ReadEvent ==
  /\ pc = "idle"
  /\ edge
  /\ edge' = FALSE
  /\ pc' = "recv"
  /\ UNCHANGED <<peer, taken, streamBuffer, processLen, result, frames>>

\* recv returns between one byte and what the buffer can take; OnWrite.
Recv ==
  /\ pc = "recv"
  /\ \E n \in 1 .. arrived - taken :
       /\ n <= WriteableSize
       /\ buffer' = [i \in DOMAIN buffer |->
                       IF i \in writePos .. writePos + n - 1
                         THEN taken + (i - writePos) ELSE buffer[i]]
       /\ writePos' = writePos + n
       /\ taken' = taken + n
  /\ processLen' = 0
  /\ pc' = "parse"
  /\ UNCHANGED <<peer, edge, readPos, result, frames>>

\* recv returns 0: the end of the stream, or no room to read into.
RecvReturnsZero ==
  /\ pc = "recv"
  /\ (arrived = taken /\ finished) \/ WriteableSize = 0
  /\ pc' = "closed"
  /\ result' = "GracefulClose"
  /\ UNCHANGED <<peer, taken, edge, streamBuffer, processLen, frames>>

\* recv returns -1 with EAGAIN.
RecvWouldBlock ==
  /\ pc = "recv"
  /\ arrived = taken /\ ~finished
  /\ WriteableSize > 0
  /\ pc' = "idle"
  /\ result' = "NetworkEventDispatched"
  /\ UNCHANGED <<peer, taken, edge, streamBuffer, processLen, frames>>

----------------------------------------------------------------------------
Unparsed == ReadableSize - processLen

\* The size field that PacketParsing reads: of the packet at the start of the
\* buffer, in every turn of the loop.
PacketSize == IF buffer[readPos] \in Offset THEN sizeAt[buffer[readPos]] ELSE 0

WholePacket == Unparsed >= HeaderSize /\ Unparsed >= PacketSize

\* Mutant: OnRecv always gets the start of the buffer.
ParseFromStart ==
  /\ pc = "parse"
  /\ WholePacket
  /\ PacketSize > 0
  /\ frames' = Append(frames, [i \in 1 .. PacketSize |-> buffer[readPos + i - 1]])
  /\ processLen' = processLen + PacketSize
  /\ UNCHANGED <<peer, taken, edge, streamBuffer, pc, result>>

\* A turn of PacketParsing that finds a packet: OnRecv.
ParsePacket ==
  /\ pc = "parse"
  /\ WholePacket
  /\ PacketSize > 0
  /\ frames' = Append(frames, [i \in 1 .. PacketSize |->
                                 buffer[readPos + processLen + i - 1]])
  /\ processLen' = processLen + PacketSize
  /\ UNCHANGED <<peer, taken, edge, streamBuffer, pc, result>>

\* A size of zero is a packet that uses up nothing: the loop goes on for ever.
ParseSpins ==
  /\ pc = "parse"
  /\ WholePacket
  /\ PacketSize = 0
  /\ pc' = "spin"
  /\ UNCHANGED <<peer, taken, edge, streamBuffer, processLen, result, frames>>

\* Mutants: what is left stays where it is; the positions move and the bytes
\* do not.
CleanNothing(r) == readPos' = r /\ UNCHANGED <<buffer, writePos>>

CleanPositions(r) ==
  readPos' = 0 /\ writePos' = writePos - r /\ UNCHANGED buffer

\* StreamBuffer::Clean after OnRead moved the read position to r: what is left
\* moves to the front.
Clean(r) ==
  /\ buffer' = [i \in DOMAIN buffer |->
                  IF i < writePos - r THEN buffer[r + i] ELSE buffer[i]]
  /\ readPos' = 0
  /\ writePos' = writePos - r

\* Mutant: one recv for each event, though the event is edge-triggered.
AfterParsingDone == "idle"

\* ProcessRecv reads until EAGAIN.
AfterParsing == "recv"

\* The end of the parsing: OnRead and Clean, and ProcessRecv reads again.
ParseEnds ==
  /\ pc = "parse"
  /\ ~WholePacket
  /\ IF processLen <= ReadableSize
       THEN /\ Clean(readPos + processLen)
            /\ pc' = AfterParsing
            /\ UNCHANGED result
       ELSE /\ pc' = "closed"
            /\ result' = "InvalidPacketData"
            /\ UNCHANGED streamBuffer
  /\ processLen' = 0
  /\ UNCHANGED <<peer, taken, edge, frames>>

ProcessRecv == Recv \/ RecvReturnsZero \/ RecvWouldBlock
PacketParsing == ParsePacket \/ ParseSpins \/ ParseEnds

Next == PeerSends \/ PeerFinishes \/ ReadEvent \/ ProcessRecv \/ PacketParsing

\* The dispatcher visits reported events and goes on with what it has begun.
Fairness == WF_vars(ReadEvent) /\ WF_vars(ProcessRecv) /\ WF_vars(PacketParsing)

SafeSpec == Init /\ [][Next]_vars

Spec == SafeSpec /\ Fairness

----------------------------------------------------------------------------
TypeOK ==
  /\ sizeAt \in [Offset -> Values]
  /\ boundaries \subseteq 0 .. StreamLen
  /\ arrived \in 0 .. StreamLen
  /\ finished \in BOOLEAN
  /\ taken \in 0 .. arrived
  /\ edge \in BOOLEAN
  /\ buffer \in [0 .. Capacity - 1 -> 0 .. StreamLen]
  /\ readPos \in 0 .. Capacity
  /\ writePos \in readPos .. Capacity
  /\ pc \in {"idle", "recv", "parse", "spin", "closed"}
  /\ processLen \in 0 .. Capacity
  /\ result \in {"NetworkEventDispatched", "GracefulClose", "InvalidPacketData"}
  /\ frames \in Seq(Seq(0 .. StreamLen))

\* The buffer never fills up with one unfinished packet: recv always has room
\* to read into, and its 0 always means the end of the stream.
RoomToReceive == pc \in {"idle", "recv"} => WriteableSize > 0

\* Parsing never runs past the bytes received, so ProcessRecv reports a close
\* only if the peer closed, after the last byte.
ParsedWithinBuffer == pc \in {"parse", "spin"} => processLen <= ReadableSize

ClosesOnlyAtEnd ==
  pc = "closed" => result = "GracefulClose" /\ finished /\ taken = arrived

\* The buffer holds the bytes received and not yet handed over, in their order:
\* neither the copy to the front nor a partial read damages a packet.
BufferHoldsRest ==
  \A i \in readPos .. writePos - 1 : buffer[i] = taken - writePos + i

\* How far into the stream the first k packets handed over have come, and how
\* far the parsing has.
FrameEnd(k) == IF k = 0 THEN 0 ELSE frames[k][1] + Len(frames[k])
Parsed == taken - ReadableSize + processLen

\* The handed over packets tile the stream from its beginning: no byte is
\* skipped or handed over twice.
FramesTile ==
  /\ \A k \in DOMAIN frames :
       /\ frames[k] # <<>>
       /\ \A i \in DOMAIN frames[k] : frames[k][i] = FrameEnd(k - 1) + i - 1
  /\ FrameEnd(Len(frames)) = Parsed

\* OnRecv gets a packet from its first byte, with its whole length, and
\* nothing else.
FramesArePackets ==
  \A k \in DOMAIN frames :
    LET first == frames[k][1]
    IN  /\ first \in boundaries \cap Offset
        /\ frames[k] = [i \in 1 .. sizeAt[first] |-> first + i - 1]

\* The packets of the stream have all one size.
Uniform == \A m, n \in boundaries \cap Offset : sizeAt[m] = sizeAt[n]

\* What OnRecv is given tiles the stream, and if the peer's packets have all one
\* size, each call gets one packet, however the packets are cut up and received
\* together (MCRecvFramingMixed shows why no more can be said).
StreamRestored == FramesTile /\ (Uniform => FramesArePackets)

\* The edge-triggered event is not used up while bytes wait in the socket.
NoStrandedBytes == pc = "idle" /\ taken < arrived => edge

\* A packet of such a peer that has arrived in full is handed over, unless the
\* session closes.
ArrivedIsHandedOver ==
  \A n \in 1 .. StreamLen :
    (Uniform /\ arrived >= n /\ n \in boundaries)
      ~> (Parsed >= n \/ pc = "closed")
=============================================================================
