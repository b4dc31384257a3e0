---------------------------- MODULE PacketFinder ----------------------------
(***************************************************************************)
(* The packet finder of packet_finder.c: a circular byte buffer that one   *)
(* state machine parses in place.  PutBytes flushes, copies what fits and  *)
(* then runs the parser over every byte it has; here the copy is one step  *)
(* and each pass of the parser's loop is one, and no other call happens    *)
(* until the loop ends.  Start offsets of finished packets wait in a       *)
(* ByteQueue of eight-bit cells.                                           *)
(*                                                                         *)
(* The debug printing is left out.  PeekPacket changes only out_buffer and *)
(* is the operator PacketAt; GetPacketCopy is a peek and a drop.           *)
(* Pointers into the buffer are indices.  An operator whose name ends in   *)
(* _Mutated is a plausible bug in the operator that follows it; the model  *)
(* never uses it.                                                          *)
(***************************************************************************)
EXTENDS Integers, Sequences

CONSTANTS PacketBufferSize,       \* PACKET_BUFFER_SIZE
          MaxData,                \* kMaxPacketDataSize
          StartByte,              \* kStartByte
          ByteMod,                \* byte values, 256
          IndexMod,               \* values an index_queue cell holds, 256
          IndexSize,              \* GENERIC_PF_INDEX_DATA_SIZE
          MakeCrc(_),             \* crc_helper.c, on one byte
          ByteUpdateCrc(_, _),    \* crc_helper.c
          Chunks                  \* the byte strings PutBytes is called with

ByteValue == 0 .. ByteMod - 1
CrcValue == 0 .. ByteMod * ByteMod - 1
Cell == 0 .. PacketBufferSize - 1

ASSUME SizeAssumption ==
  /\ PacketBufferSize \in Nat \ {0} /\ IndexMod \in Nat \ {0}
  /\ ByteMod \in Nat \ {0} /\ IndexSize \in Nat \ {0}
(* The length byte is read again in state kStart, so no length may look    *)
(* like a start byte: 59 < 0x55.                                           *)
ASSUME StartAssumption == StartByte \in ByteValue /\ MaxData \in Nat /\ MaxData < StartByte
(* A CRC is a uint16_t. *)
ASSUME CrcAssumption ==
  \A byte \in ByteValue, crc \in CrcValue :
    MakeCrc(byte) \in CrcValue /\ ByteUpdateCrc(crc, byte) \in CrcValue
ASSUME ChunksAssumption == Chunks \subseteq Seq(ByteValue)

VARIABLES start_data, end_data,   \* first byte kept, and the cell after the last
          buffer,                 \* the cells
          pf,                     \* the fields of the parser
          packet_indices,         \* ByteQueue of packet starts
          parsing,                \* a call of PutBytes is in its loop
          buffer_status           \* what the last call of PutBytes returns

vars == <<start_data, end_data, buffer, pf, packet_indices, parsing, buffer_status>>

BQ == INSTANCE ByteQueueOps WITH DataSize <- IndexSize, Item <- 0 .. IndexMod - 1

State == {"kStart", "kLen", "kType", "kData", "kCRCL", "kCRCH"}
SUCCESS == 0
BUFFER_OVERFLOW == -1

(* InitPacketFinder on a GenericInterface in zeroed static storage; it     *)
(* leaves the buffer, data_bytes and the CRC fields as they are.           *)
Init ==
  /\ start_data = 0 /\ end_data = 0
  /\ buffer = [i \in Cell |-> 0]
  /\ pf = [state |-> "kStart", parse_index |-> 0, packet_start_index |-> 0,
           received_length |-> 0, expected_crc |-> 0, received_crc |-> 0,
           data_bytes |-> 0]
  /\ packet_indices = BQ!InitBQ([i \in 0 .. IndexSize - 1 |-> 0])
  /\ parsing = FALSE
  /\ buffer_status = SUCCESS
-----------------------------------------------------------------------------
FlushUnusedBytes_Mutated ==
  IF BQ!IsEmptyBQ(packet_indices) THEN pf.parse_index
                                  ELSE BQ!PeekByteBQ(packet_indices)

(* Where FlushUnusedBytes puts start_data: at the oldest waiting packet,   *)
(* else at the packet being parsed.                                        *)
FlushUnusedBytes ==
  IF BQ!IsEmptyBQ(packet_indices) THEN pf.packet_start_index
                                  ELSE BQ!PeekByteBQ(packet_indices)

Lesser(m, n) == IF m < n THEN m ELSE n

(* Free cells at end_data and, when the data is not wrapped round the end, *)
(* at the beginning of the buffer; one cell always stays free.             *)
EndSpace(start) ==
  IF end_data < start THEN start - end_data - 1
  ELSE IF start = 0 THEN PacketBufferSize - 1 - end_data
  ELSE PacketBufferSize - end_data

StartSpace(start) == IF end_data < start \/ start = 0 THEN 0 ELSE start - 1

(* The two memcpys of PutBytes and the new end_data. *)
FirstHalf(start, bytes) == Lesser(EndSpace(start), Len(bytes))

SecondHalf(start, bytes) ==
  Lesser(StartSpace(start), Len(bytes) - FirstHalf(start, bytes))

CopiedBuffer(start, bytes) ==
  LET first  == FirstHalf(start, bytes)
      second == SecondHalf(start, bytes)
  IN  [i \in Cell |->
         IF i >= end_data /\ i < end_data + first THEN bytes[i - end_data + 1]
         ELSE IF i < second THEN bytes[first + i + 1]
         ELSE buffer[i]]

CopiedEnd(start, bytes) ==
  LET end == end_data + FirstHalf(start, bytes)
  IN  IF SecondHalf(start, bytes) > 0 THEN SecondHalf(start, bytes)
      ELSE IF end > PacketBufferSize - 1 THEN 0
      ELSE end

(* PutBytes up to its parser loop. *)
PutBytes(bytes) ==
  LET start == FlushUnusedBytes
  IN  /\ ~parsing
      /\ start_data' = start
      /\ buffer' = CopiedBuffer(start, bytes)
      /\ end_data' = CopiedEnd(start, bytes)
      /\ buffer_status' =
           IF FirstHalf(start, bytes) + SecondHalf(start, bytes) = Len(bytes)
           THEN SUCCESS ELSE BUFFER_OVERFLOW
      /\ parsing' = TRUE
      /\ UNCHANGED <<pf, packet_indices>>
-----------------------------------------------------------------------------
IncrementParseIndex(i) ==
  IF i + 1 >= PacketBufferSize THEN i + 1 - PacketBufferSize ELSE i + 1

ThisByte == buffer[pf.parse_index]
NextIndex == IncrementParseIndex(pf.parse_index)

(* One pass of the parser's loop, in the given state, that changes the     *)
(* parser to parser.                                                       *)
Parse(state, parser) ==
  /\ parsing
  /\ pf.parse_index # end_data
  /\ pf.state = state
  /\ pf' = parser
  /\ UNCHANGED <<start_data, end_data, buffer, parsing, buffer_status>>

ParseStart_Mutated ==
  /\ Parse("kStart",
           [pf EXCEPT !.state = IF ThisByte = StartByte THEN "kLen" ELSE "kStart",
                      !.parse_index = NextIndex])
  /\ UNCHANGED packet_indices

ParseStart ==
  /\ Parse("kStart",
           [pf EXCEPT !.state = IF ThisByte = StartByte THEN "kLen" ELSE "kStart",
                      !.parse_index = NextIndex,
                      !.packet_start_index = NextIndex])
  /\ UNCHANGED packet_indices

ParseLen_Mutated ==
  /\ Parse("kLen",
           IF ThisByte <= MaxData
           THEN [pf EXCEPT !.state = "kType",
                           !.packet_start_index = pf.parse_index,
                           !.received_length = ThisByte,
                           !.expected_crc = MakeCrc(ThisByte),
                           !.parse_index = NextIndex]
           ELSE [pf EXCEPT !.state = "kStart",
                           !.packet_start_index = pf.parse_index,
                           !.parse_index = NextIndex])
  /\ UNCHANGED packet_indices

ParseLen_Unchecked ==
  /\ Parse("kLen", [pf EXCEPT !.state = "kType",
                              !.packet_start_index = pf.parse_index,
                              !.received_length = ThisByte,
                              !.expected_crc = MakeCrc(ThisByte),
                              !.parse_index = NextIndex])
  /\ UNCHANGED packet_indices

(* An unreasonable length is looked at again as a possible start byte. *)
ParseLen ==
  /\ Parse("kLen",
           IF ThisByte <= MaxData
           THEN [pf EXCEPT !.state = "kType",
                           !.packet_start_index = pf.parse_index,
                           !.received_length = ThisByte,
                           !.expected_crc = MakeCrc(ThisByte),
                           !.parse_index = NextIndex]
           ELSE [pf EXCEPT !.state = "kStart",
                           !.packet_start_index = pf.parse_index])
  /\ UNCHANGED packet_indices

ParseType ==
  /\ Parse("kType",
           [pf EXCEPT !.expected_crc = ByteUpdateCrc(@, ThisByte),
                      !.state = IF pf.received_length > 0 THEN "kData" ELSE "kCRCL",
                      !.data_bytes = 0,
                      !.parse_index = NextIndex])
  /\ UNCHANGED packet_indices

ParseData ==
  /\ Parse("kData",
           [pf EXCEPT !.expected_crc = ByteUpdateCrc(@, ThisByte),
                      !.data_bytes = @ + 1,
                      !.state = IF pf.data_bytes + 1 >= pf.received_length
                                THEN "kCRCL" ELSE "kData",
                      !.parse_index = NextIndex])
  /\ UNCHANGED packet_indices

ParseCRCL ==
  /\ Parse("kCRCL",
           [pf EXCEPT !.received_crc = ThisByte,
                      !.state = "kCRCH",
                      !.parse_index = NextIndex])
  /\ UNCHANGED packet_indices

ReceivedCrc == pf.received_crc + ByteMod * ThisByte

(* The start of a good packet is queued as a uint8_t, and the status of    *)
(* PutByteBQ is not looked at.                                             *)
AcceptPacket ==
  /\ pf.expected_crc = ReceivedCrc
  /\ Parse("kCRCH",
           [pf EXCEPT !.received_crc = ReceivedCrc,
                      !.state = "kStart",
                      !.parse_index = NextIndex])
  /\ packet_indices' = BQ!PutByteBQ(packet_indices, pf.packet_start_index % IndexMod)

RejectPacket_Mutated ==
  /\ pf.expected_crc # ReceivedCrc
  /\ Parse("kCRCH",
           [pf EXCEPT !.received_crc = ReceivedCrc,
                      !.state = "kLen",
                      !.parse_index = pf.packet_start_index])
  /\ UNCHANGED packet_indices

(* After a bad CRC the parser starts over at the assumed length byte. *)
RejectPacket ==
  /\ pf.expected_crc # ReceivedCrc
  /\ Parse("kCRCH",
           [pf EXCEPT !.received_crc = ReceivedCrc,
                      !.state = "kStart",
                      !.parse_index = pf.packet_start_index])
  /\ UNCHANGED packet_indices

ParserStep ==
  \/ ParseStart \/ ParseLen \/ ParseType \/ ParseData \/ ParseCRCL
  \/ AcceptPacket \/ RejectPacket

(* The loop has caught up with end_data and PutBytes returns. *)
Exhausted ==
  /\ parsing
  /\ pf.parse_index = end_data
  /\ parsing' = FALSE
  /\ UNCHANGED <<start_data, end_data, buffer, pf, packet_indices, buffer_status>>
-----------------------------------------------------------------------------
PacketLength(start) == buffer[start] + 1
ReturnIndex(start) == IF start + 1 >= PacketBufferSize THEN 0 ELSE start + 1

CellsOf(from, count) == [k \in 1 .. count |-> buffer[from + k - 1]]

PacketAt_Mutated(start) ==
  LET index  == ReturnIndex(start)
      length == PacketLength(start)
      at_end == PacketBufferSize - index
  IN  IF index + length < PacketBufferSize
      THEN CellsOf(index, length)
      ELSE CellsOf(index, at_end) \o CellsOf(0, length)

(* The type and data bytes PeekPacket shows of the packet whose length     *)
(* byte is at start: in place when they are contiguous, else copied in two *)
(* parts to out_buffer.                                                    *)
PacketAt(start) ==
  LET index  == ReturnIndex(start)
      length == PacketLength(start)
      at_end == PacketBufferSize - index
  IN  IF index + length < PacketBufferSize
      THEN CellsOf(index, length)
      ELSE CellsOf(index, at_end) \o CellsOf(0, length - at_end)

DropPacket ==
  LET start == BQ!PeekByteBQ(packet_indices)
      rest  == BQ!GetByteBQ(packet_indices)
      after == ReturnIndex(start) + PacketLength(start)
  IN  /\ ~parsing
      /\ ~BQ!IsEmptyBQ(packet_indices)
      /\ packet_indices' = rest
      /\ start_data' = IF ~BQ!IsEmptyBQ(rest) THEN BQ!PeekByteBQ(rest)
                       ELSE IF after >= PacketBufferSize
                       THEN after - PacketBufferSize
                       ELSE after
      /\ UNCHANGED <<end_data, buffer, pf, parsing, buffer_status>>

Next ==
  \/ \E bytes \in Chunks : PutBytes(bytes)
  \/ ParserStep
  \/ Exhausted
  \/ DropPacket

(* The loop of PutBytes runs to its end: nothing can interrupt a call. *)
Spec == Init /\ [][Next]_vars /\ WF_vars(ParserStep \/ Exhausted)
-----------------------------------------------------------------------------
TypeOK ==
  /\ start_data \in Cell /\ end_data \in Cell
  /\ buffer \in [Cell -> ByteValue]
  /\ pf \in [state : State, parse_index : Cell, packet_start_index : Cell,
             received_length : 0 .. MaxData, expected_crc : CrcValue,
             received_crc : CrcValue, data_bytes : 0 .. MaxData]
  /\ packet_indices \in BQ!ByteQueue
  /\ parsing \in BOOLEAN
  /\ buffer_status \in {SUCCESS, BUFFER_OVERFLOW}

(* Cells from one index forward to another. *)
Distance(from, to) == IF to >= from THEN to - from ELSE to - from + PacketBufferSize

(* The place count cells after one, going round an array of size cells.    *)
Round(place, count, size) ==
  IF place + count >= size THEN place + count - size ELSE place + count

(* The kept bytes between two indices. *)
Span(from, to) ==
  [k \in 1 .. Distance(from, to) |-> buffer[Round(from, k - 1, PacketBufferSize)]]

(* The items of a ByteQueue, oldest first; those of packet_indices are the *)
(* offsets of the waiting packets.                                         *)
Items(q) == [k \in 1 .. q.count |-> q.data[Round(q.start, k - 1, IndexSize)]]

Waiting == Items(packet_indices)

(* The bytes the parser has not decided about: the candidate packet with   *)
(* its start byte, whose cell may have been freed, and what follows it.    *)
Pending ==
  IF pf.state = "kStart"
  THEN Span(pf.parse_index, end_data)
  ELSE <<StartByte>> \o Span(pf.packet_start_index, end_data)

Ready == [k \in 1 .. Len(Waiting) |-> PacketAt(Waiting[k])]

Stream == INSTANCE PacketStream
          WITH pending <- Pending, ready <- Ready, QueueCapacity <- IndexSize - 1

(* Exactly the well formed packets of the received bytes are handed out,   *)
(* in order and unchanged: no resynchronisation skips a byte a packet      *)
(* could start at, and no copy overwrites a byte still needed.             *)
ImplementsPacketStream == Stream!Spec

(* The parser works inside the bytes that are kept, and the waiting        *)
(* packets lie before it in order.                                         *)
ParserInsideData ==
  parsing =>
    /\ Distance(start_data, pf.parse_index) <= Distance(start_data, end_data)
    /\ Distance(start_data, pf.packet_start_index)
         <= Distance(start_data, pf.parse_index)
    /\ \A k \in 1 .. Len(Waiting) - 1 :
         Distance(start_data, Waiting[k]) < Distance(start_data, Waiting[k + 1])

(* When PutBytes returns it has found every packet that has arrived        *)
(* completely: what stays pending is a proper beginning of a packet.       *)
NothingLeftUnparsed == ~parsing => Stream!Undecided

(* Bytes that belong to no waiting packet and to no started one never pile *)
(* up: with no packet waiting, PutBytes finds at most the longest packet   *)
(* without its start byte in the buffer, however much noise has arrived.   *)
NoiseIsFlushed ==
  ~parsing /\ BQ!IsEmptyBQ(packet_indices)
    => Distance(FlushUnusedBytes, end_data) <= MaxData + 4

(* Every call of PutBytes returns: starting over after a bad CRC always    *)
(* makes progress.                                                         *)
PutBytesReturns == parsing ~> ~parsing
=============================================================================
