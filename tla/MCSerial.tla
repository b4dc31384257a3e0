------------------------------ MODULE MCSerial ------------------------------
(***************************************************************************)
(* The two ends of serial ports under TLC: the sending half of a           *)
(* GenericInterface and the receiving of the IMU's packets.  They share no *)
(* state, so a behaviour uses one of them and the other stays as it was    *)
(* initialised.                                                            *)
(*                                                                         *)
(* Three messages of different lengths are sent, such as a get, a set of   *)
(* one byte and a set of several, through a buffer as long as the          *)
(* eight-bit length has values, which is what GENERIC_TX_BUFFER_SIZE is.   *)
(* The UM7 sends two attitudes, which are batches of five registers, and a *)
(* health packet, which has the data of one register and is no batch.  No  *)
(* two bytes of an attitude's angles are the same.  Left, cut short after  *)
(* its third byte and followed by Right, adds up.                          *)
(***************************************************************************)
EXTENDS Imu, GenericInterface

CONSTANTS get, setByte, setWord

MCDataLen == (get :> 1) @@ (setByte :> 2) @@ (setWord :> 6)

Attitude(data) == [type |-> 212, address |-> EULER, data |-> data]

Left   == Attitude(<<1, 2, 3, 4, 5, 6, 0, 0, 7, 8, 9, 1, 2, 3, 0, 0, 1, 2, 3, 4>>)
Right  == Attitude(<<6, 5, 4, 3, 2, 1, 0, 0, 0, 0, 0, 0, 5, 69, 0, 0, 4, 3, 2, 1>>)
Health == [type |-> 128, address |-> 85, data |-> <<0, 4, 0, 12>>]

MCPackets == {Left, Right, Health}

VARIABLE used           \* what this behaviour uses

ImuIdle == Init /\ sending = Health /\ sent = 0

SerialInit ==
  \/ used = "interface" /\ InterfaceInit /\ ImuIdle
  \/ used = "imu" /\ Init /\ InterfaceInit

UseInterface == used = "interface" /\ InterfaceNext /\ UNCHANGED <<used, vars>>
UseImu == used = "imu" /\ Next /\ UNCHANGED <<used, interfaceVars>>

(* Of an earlier packet, what the parser knows makes no difference, and of *)
(* a packet, the data make none unless they can be saved.                  *)
InPacket == um7.state \in {"PT", "DATA", "CHK1", "CHK0"}
Overruns == 4 * BatchLength(um7.type) > DataSize
CanBeSaved(i) ==
  InPacket /\ um7.address \in {EULER, ACCEL} /\ (i < um7.data_index \/ Overruns)
DataSeen == [i \in 0 .. DataSize - 1 |-> IF CanBeSaved(i) THEN um7.data[i] ELSE 0]

Known ==
  IF InPacket THEN [um7 EXCEPT !.data = DataSeen]
  ELSE [um7 EXCEPT !.data = DataSeen, !.type = 0, !.address = 0, !.data_length = 0,
                   !.data_index = 0, !.checksum1 = 0]

View == <<used, [vars EXCEPT ![1] = Known], interfaceVars>>

SerialSpec == SerialInit /\ [][UseInterface \/ UseImu]_<<used, vars, interfaceVars>>
=============================================================================
