--------------------------- MODULE MCPacketFinder ---------------------------
(***************************************************************************)
(* An instance of PacketFinder for TLC: three byte values, of which 2 is the *)
(* start byte, at most one data byte, and a stand-in for the CRC that      *)
(* depends on every byte and on their order.                               *)
(***************************************************************************)
EXTENDS PacketFinder

MCByteUpdateCrc(crc, data) == (2 * crc + data + 1) % (ByteMod * ByteMod)
MCMakeCrc(data) == MCByteUpdateCrc(ByteMod * ByteMod - 1, data)

Crc1(length, type) == MCByteUpdateCrc(MCMakeCrc(length), type)
Crc2(length, type, data) == MCByteUpdateCrc(Crc1(length, type), data)
Footer(crc) == <<crc % ByteMod, crc \div ByteMod>>

Short(type) == <<StartByte, 0, type>> \o Footer(Crc1(0, type))
Long(type, data) == <<StartByte, 1, type, data>> \o Footer(Crc2(1, type, data))

(* Two whole packets, and a start of a packet that is never finished with  *)
(* a whole one behind it: the parser takes the second for the end of the   *)
(* first and has to start over inside it.                                  *)
Frames == {Short(0), Long(1, 2), <<StartByte, 1>> \o Short(1)}
=============================================================================
