-------------------------- MODULE GenericInterface --------------------------
(***************************************************************************)
(* The sending half of class GenericInterface: SendPacket queues a packet  *)
(* as three runs of bytes in a BipBuffer and GetTxBytes hands out all that *)
(* is queued, with a length that has only eight bits.                      *)
(*                                                                         *)
(* A byte is a pair of the message it belongs to and its place in the      *)
(* packet: three header bytes, the data, two CRC bytes.  What the bytes    *)
(* say does not matter here, only which of them get out.                   *)
(***************************************************************************)
EXTENDS BipBufferOps, SequencesExt

CONSTANTS Msg,              \* the messages that are sent
          DataLen,          \* length of the data of each
          LengthMod,        \* values a uint8_t holds, 256
          MaxSent           \* bound: bytes sent between two GetTxBytes

ASSUME MsgAssumption == DataLen \in [Msg -> 0 .. LengthMod - 1]
ASSUME LengthAssumption == LengthMod \in Nat \ {0} /\ MaxSent \in Nat

VARIABLES tx,               \* tx_bipbuf and tx_buffer: [bip, mem]
          due              \* the packets sent since the last GetTxBytes

interfaceVars == <<tx, due>>

PacketBytes(msg) == [k \in 1 .. DataLen[msg] + 5 |-> <<msg, k>>]
Header(msg) == SubSeq(PacketBytes(msg), 1, 3)
Data(msg) == SubSeq(PacketBytes(msg), 4, DataLen[msg] + 3)
Footer(msg) == SubSeq(PacketBytes(msg), DataLen[msg] + 4, DataLen[msg] + 5)

Cell == 0 .. BufLen - 1
Unwritten == <<"unwritten", 0>>

Bytes(block) == [k \in 1 .. block.sz |-> tx.mem[block.ix + k - 1]]

InterfaceInit ==
  /\ tx = [bip |-> Cleared, mem |-> [i \in Cell |-> Unwritten]]
  /\ due = <<>>
-----------------------------------------------------------------------------
SendBytes_Mutated(t, bytes) ==
  LET block == ReserveBlock(t.bip, Len(bytes))
  IN  [bip |-> Commit(Reserve(t.bip, Len(bytes)), block.sz),
       mem |-> [i \in Cell |->
                  IF i >= block.ix /\ i < block.ix + block.sz
                  THEN bytes[i - block.ix + 1]
                  ELSE t.mem[i]]]

(* All the bytes are queued or, when the block Reserve grants is shorter,  *)
(* none of them.                                                           *)
SendBytes(t, bytes) ==
  LET block    == ReserveBlock(t.bip, Len(bytes))
      reserved == Reserve(t.bip, Len(bytes))
  IN  IF block.sz = Len(bytes)
      THEN [bip |-> Commit(reserved, block.sz),
            mem |-> [i \in Cell |->
                       IF i >= block.ix /\ i < block.ix + block.sz
                       THEN bytes[i - block.ix + 1]
                       ELSE t.mem[i]]]
      ELSE [bip |-> Commit(reserved, 0), mem |-> t.mem]

(* The status of each SendBytes is ignored and SendPacket returns 1.       *)
SendPacket(msg) ==
  /\ Len(due) + Len(PacketBytes(msg)) <= MaxSent
  /\ tx' = SendBytes(SendBytes(SendBytes(tx, Header(msg)), Data(msg)), Footer(msg))
  /\ due' = due \o PacketBytes(msg)

(* The two memcpys of GetTxBytes: the second block is placed where the     *)
(* truncated length of the first says.                                     *)
FirstBlock == GetContiguousBlock(tx.bip)
AfterFirst == DecommitBlock(tx.bip, FirstBlock.sz)
SecondBlock == GetContiguousBlock(AfterFirst)

DataOut_Mutated == Bytes(SecondBlock)

(* The bytes of data_out that length_out says are there. *)
DataOut ==
  LET at    == FirstBlock.sz % LengthMod
      first == Bytes(FirstBlock)
      both  == SubSeq(first, 1, at) \o Bytes(SecondBlock)
               \o SubSeq(first, at + SecondBlock.sz + 1, FirstBlock.sz)
  IN  SubSeq(both, 1, (at + SecondBlock.sz) % LengthMod)

(* With nothing queued GetTxBytes returns 0 and leaves length_out alone.   *)
GetTxBytes ==
  /\ FirstBlock.sz > 0
  /\ tx' = [tx EXCEPT !.bip = DecommitBlock(AfterFirst, SecondBlock.sz)]
  /\ due' = <<>>

InterfaceNext == GetTxBytes \/ \E msg \in Msg : SendPacket(msg)

InterfaceSpec == InterfaceInit /\ [][InterfaceNext]_interfaceVars
-----------------------------------------------------------------------------
(* The bytes now in the buffer, oldest first. *)
Queued == Bytes(GetContiguousBlock(tx.bip))
          \o Bytes(Block(tx.bip.ixb, tx.bip.szb))

(* As long as the packets sent since the last GetTxBytes are shorter than  *)
(* the buffer, GetTxBytes hands out exactly those packets, whole and in    *)
(* order.                                                                  *)
WholePacketsWhenRoom ==
  [][GetTxBytes /\ Len(due) < BufLen => DataOut = due]_interfaceVars

(* A run of bytes is never cut, whatever room is left: the header, the     *)
(* data and the CRC of a packet are each queued completely or not at all.  *)
RunsWhole ==
  \A k \in DOMAIN Queued :
    LET msg    == Queued[k][1]
        place  == Queued[k][2]
        starts == {1, 4, DataLen[msg] + 4}
        ends   == {3, DataLen[msg] + 3, DataLen[msg] + 5}
    IN  /\ place \notin starts => k > 1 /\ Queued[k - 1] = <<msg, place - 1>>
        /\ place \notin ends =>
             k < Len(Queued) /\ Queued[k + 1] = <<msg, place + 1>>
=============================================================================
