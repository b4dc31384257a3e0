----------------------------- MODULE MCBuffers ------------------------------
(***************************************************************************)
(* The byte buffers of the communication library under TLC: an instance of *)
(* ByteQueue, one of BipBuffer, and a PacketFinder that is given any       *)
(* bytes.  They share no state, so a behaviour uses one of them and the    *)
(* others stay as they were initialised.                                   *)
(***************************************************************************)
EXTENDS ByteQueue, BipBuffer

VARIABLES start_data, end_data, buffer, pf, packet_indices, parsing, buffer_status,
          used      \* the buffer this behaviour uses

finderVars == <<start_data, end_data, buffer, pf, packet_indices, parsing, buffer_status>>

(* Two byte values, and a stand-in for the CRC that depends on every byte  *)
(* and on their order.                                                     *)
MCByteUpdateCrc(crc, data) == (2 * crc + data + 1) % 4
MCMakeCrc(data) == MCByteUpdateCrc(3, data)

(* Any byte, alone or with another. *)
AnyBytes == [1 .. 1 -> Byte] \cup [1 .. 2 -> Byte]

Finder == INSTANCE PacketFinder
          WITH PacketBufferSize <- 7, MaxData <- 0, StartByte <- 1, ByteMod <- 2,
               IndexMod <- 7, IndexSize <- 2, MakeCrc <- MCMakeCrc,
               ByteUpdateCrc <- MCByteUpdateCrc, Chunks <- AnyBytes

QueueIdle == bq = InitBQ([i \in Index |-> 0]) /\ ret = 1
BipIdle == bip = Cleared /\ mem = [i \in Cell |-> 0]

BuffersInit ==
  /\ Finder!Init
  /\ \/ used = "queue" /\ QueueInit /\ BipIdle
     \/ used = "bip" /\ Init /\ QueueIdle
     \/ used = "finder" /\ QueueIdle /\ BipIdle

UseQueue == used = "queue" /\ QueueNext /\ UNCHANGED <<bip, mem, finderVars, used>>
UseBip == used = "bip" /\ Next /\ UNCHANGED <<bq, ret, finderVars, used>>
UseFinder == used = "finder" /\ Finder!Next /\ UNCHANGED <<bq, ret, bip, mem, used>>

BuffersSpec ==
  BuffersInit /\ [][UseQueue \/ UseBip \/ UseFinder]_<<bip, mem, bq, ret, finderVars, used>>

(* From any bytes exactly the well formed packets come out, in order.      *)
FindsPackets == Finder!ImplementsPacketStream
=============================================================================
