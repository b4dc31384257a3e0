---------------------------- MODULE PacketStream ----------------------------
(***************************************************************************)
(* What a packet finder promises: bytes go in at one end, and every well   *)
(* formed packet among them comes out at the other, in order, exactly      *)
(* once.  A byte is given up only when no packet can start at it.          *)
(*                                                                         *)
(*   | StartByte | length | type | length data bytes | crcL | crcH |       *)
(***************************************************************************)
EXTENDS Integers, Sequences

CONSTANTS StartByte, MaxData,       \* the start symbol, the longest data
          ByteMod,                  \* number of byte values
          MakeCrc(_),               \* CRC of one byte
          ByteUpdateCrc(_, _),      \* CRC so far and the next byte
          QueueCapacity,            \* finished packets that can wait
          Chunks                    \* byte strings that can arrive

VARIABLES pending,   \* bytes not yet given up nor turned into a packet
          ready      \* type and data of the packets found, oldest first

vars == <<pending, ready>>

Init == pending = <<>> /\ ready = <<>>

(* The CRC of a non-empty byte string. *)
CrcOf(s) ==
  LET crc[i \in 1 .. Len(s)] ==
        IF i = 1 THEN MakeCrc(s[1]) ELSE ByteUpdateCrc(crc[i - 1], s[i])
  IN  crc[Len(s)]

FrameLen(s) == s[2] + 5

LengthSeen(s) == Len(s) >= 2
FrameComplete(s) == LengthSeen(s) /\ Len(s) >= FrameLen(s)

CrcGood(s) ==
  CrcOf(SubSeq(s, 2, FrameLen(s) - 2))
    = s[FrameLen(s) - 1] + ByteMod * s[FrameLen(s)]

(* The first pending byte cannot be the start of a packet. *)
NoPacketHere ==
  \/ pending[1] # StartByte
  \/ LengthSeen(pending) /\ pending[2] > MaxData
  \/ FrameComplete(pending) /\ ~CrcGood(pending)

PacketHere ==
  /\ pending[1] = StartByte
  /\ FrameComplete(pending)
  /\ pending[2] <= MaxData
  /\ CrcGood(pending)

(* What does not fit of the bytes that arrive is lost. *)
Receive(bytes) ==
  /\ \E n \in 0 .. Len(bytes) : pending' = pending \o SubSeq(bytes, 1, n)
  /\ UNCHANGED ready

Skip ==
  /\ pending # <<>>
  /\ NoPacketHere
  /\ pending' = Tail(pending)
  /\ UNCHANGED ready

(* A packet found while QueueCapacity others wait is lost. *)
Emit ==
  /\ pending # <<>>
  /\ PacketHere
  /\ pending' = SubSeq(pending, FrameLen(pending) + 1, Len(pending))
  /\ ready' = IF Len(ready) < QueueCapacity
              THEN Append(ready, SubSeq(pending, 3, FrameLen(pending) - 2))
              ELSE ready

Drop ==
  /\ ready # <<>>
  /\ ready' = Tail(ready)
  /\ UNCHANGED pending

Next == (\E bytes \in Chunks : Receive(bytes)) \/ Skip \/ Emit \/ Drop

Spec == Init /\ [][Next]_vars

(* Every pending byte may still turn out to belong to a packet. *)
Undecided == pending = <<>> \/ ~(NoPacketHere \/ PacketHere)
=============================================================================
