-------------------------------- MODULE Imu ---------------------------------
(***************************************************************************)
(* The IMU side of the control loop: class UM7, which finds the packets of *)
(* the sensor in the bytes of a serial port, and updateImu, which feeds it *)
(* all bytes there are.  The sensor sends while updateImu reads; it may    *)
(* have been in the middle of a packet at power-up, and a packet may be    *)
(* cut short.                                                              *)
(***************************************************************************)
EXTENDS Integers, SequencesExt

CONSTANTS Packets,          \* the sensor's: [type, address, data]
          DataSize,         \* length of UM7::data, 30
          MaxLine,          \* bound: bytes waiting in the serial port
          MaxCuts,          \* bound: packets cut short
          MaxMissed         \* packets that may be lost after a cut one

ASSUME PacketsAssumption ==
  \A p \in Packets : /\ p.type \in 0 .. 255 /\ p.address \in 0 .. 255
                     /\ p.data \in Seq(0 .. 255) /\ Len(p.data) <= DataSize

EULER == 112                \* DREG_EULER_PHI_THETA
ACCEL == 101                \* DREG_ACCEL_PROC_X
s == 115
n == 110
p == 112

VARIABLES um7,              \* the object: its parser, roll .. yaw, ax .. az
          line,             \* bytes in the serial port, each with a mark
          sending, sent,    \* the sensor's packet, and how much is out
          pc, worked,       \* updateImu
          missed,           \* angle packets lost since the last cut or save,
                            \* -1: the parser has overrun its data since
          cuts,             \* packets cut so far
          taken,            \* the bytes since the last "snp"; not in the code
          accident          \* whether the angles are of a broken packet that
                            \* adds up; not in the code

vars == <<um7, line, sending, sent, pc, worked, missed, cuts, taken, accident>>
-----------------------------------------------------------------------------
(* What the packet type byte says, and the fields encode derives from it.  *)
HasData(type) == (type \div 128) % 2 = 1
IsBatch(type) == (type \div 64) % 2 = 1
BatchLength(type) == (type \div 4) % 16
DataLength(type) ==
  IF ~HasData(type) THEN 0 ELSE IF IsBatch(type) THEN 4 * BatchLength(type) ELSE 4

Sum(bytes) == FoldLeft(LAMBDA a, b : a + b, 0, bytes)
First(data, k) == [i \in 1 .. k |-> data[i - 1]]

Checksum(type, address, bytes) == (s + n + p + type + address + Sum(bytes)) % 65536

(* The bytes roll, pitch and yaw are made of, and those of ax, ay, az.     *)
Save(u) ==
  IF ~IsBatch(u.type) THEN u
  ELSE IF u.address = EULER THEN [u EXCEPT !.angles = First(u.data, 6)]
  ELSE IF u.address = ACCEL THEN [u EXCEPT !.accel = First(u.data, 12)]
  ELSE u

Verified_Mutated(u, checksum0) == TRUE

Verified(u, checksum0) ==
  u.checksum1 * 256 + checksum0 = Checksum(u.type, u.address, First(u.data, u.data_length))

DataEnds_Mutated(u, index) == index > 4 * BatchLength(u.type)

(* The length that ends the data is the batch length, batch or not. *)
DataEnds(u, index) == index >= 4 * BatchLength(u.type)

(* One byte of data, to be stored at data_index.  data has room for        *)
(* DataSize bytes, the type byte can ask for twice as many, and nothing    *)
(* stops the writes there: behind data are data_length, data_index, which  *)
(* the increment may or may not read again, and fields whose values do not *)
(* matter now.                                                             *)
Stored(u, c) ==
  CASE u.data_index < DataSize     -> {[u EXCEPT !.data[u.data_index] = c, !.data_index = @ + 1]}
    [] u.data_index = DataSize     -> {[u EXCEPT !.data_length = c, !.data_index = @ + 1]}
    [] u.data_index = DataSize + 1 -> {[u EXCEPT !.data_index = i % 256] : i \in {u.data_index + 1, c + 1}}
    [] OTHER                       -> {[u EXCEPT !.data_index = (@ + 1) % 256]}

(* What can become of the object with one more byte.  The checksum of more *)
(* bytes than data holds is that of unknown memory.                        *)
Encode(u, c) ==
  CASE u.state = "ZERO" -> {[u EXCEPT !.state = IF c = s THEN "S" ELSE "ZERO"]}
    [] u.state = "S"    -> {[u EXCEPT !.state = IF c = n THEN "SN" ELSE "ZERO"]}
    [] u.state = "SN"   -> {[u EXCEPT !.state = IF c = p THEN "SNP" ELSE "ZERO"]}
    [] u.state = "SNP"  -> {[u EXCEPT !.state = "PT", !.type = c, !.data_index = 0,
                                      !.data_length = DataLength(c)]}
    [] u.state = "PT"   -> {[u EXCEPT !.state = IF c = 137 THEN "ZERO" ELSE "DATA",
                                      !.address = c, !.data_index = 0]}
    [] u.state = "DATA" -> {[v EXCEPT !.state = IF DataEnds(v, v.data_index) THEN "CHK1" ELSE @]
                              : v \in Stored(u, c)}
    [] u.state = "CHK1" -> {[u EXCEPT !.state = "CHK0", !.checksum1 = c]}
    [] u.state = "CHK0" ->
         LET outcomes == IF u.data_length > DataSize THEN {u, Save(u)}
                         ELSE IF Verified(u, c) THEN {Save(u)} ELSE {u}
         IN  {[v EXCEPT !.state = "ZERO"] : v \in outcomes}

(* The object is a global: its fields start as zeros. *)
UM7 == [state |-> "ZERO", type |-> 0, address |-> 0,
        data |-> [i \in 0 .. DataSize - 1 |-> 0], data_length |-> 0, data_index |-> 0,
        checksum1 |-> 0, angles |-> <<>>, accel |-> <<>>]
-----------------------------------------------------------------------------
Frame(packet) ==
  LET sum == Checksum(packet.type, packet.address, packet.data)
  IN  <<s, n, p, packet.type, packet.address>> \o packet.data
      \o <<sum \div 256, sum % 256>>

(* Whether encode knows where such a packet ends. *)
Plain(packet) == HasData(packet.type) /\ IsBatch(packet.type)

(* The mark of a packet's last byte.  After a cut packet, or one the       *)
(* parser takes the wrong length of, it has to find its place again.       *)
EndMark == IF ~Plain(sending) THEN "cut" ELSE IF sending.address = EULER THEN "end" ELSE ""

Init ==
  /\ um7 = UM7
  /\ line = <<>>
  /\ sending \in Packets
  /\ sent \in 0 .. Len(Frame(sending)) - 1
  /\ pc = "elsewhere" /\ worked = FALSE
  /\ missed = 0 /\ cuts = 0
  /\ taken = <<>> /\ accident = FALSE

Arrive(mark) == line' = Append(line, <<Frame(sending)[sent + 1], mark>>)

(* One more byte of the packet, or the last one and the next packet.       *)
SendByte ==
  /\ Len(line) < MaxLine
  /\ IF sent + 1 < Len(Frame(sending))
     THEN Arrive("") /\ sent' = sent + 1 /\ UNCHANGED sending
     ELSE Arrive(EndMark) /\ sent' = 0 /\ sending' \in Packets
  /\ UNCHANGED <<um7, pc, worked, missed, cuts, taken, accident>>

(* The rest of the packet is lost. *)
CutPacket ==
  /\ Len(line) < MaxLine
  /\ sent + 1 < Len(Frame(sending))
  /\ cuts < MaxCuts /\ cuts' = cuts + 1
  /\ Arrive("cut") /\ sent' = 0 /\ sending' \in Packets
  /\ UNCHANGED <<um7, pc, worked, missed, taken, accident>>

CallUpdateImu ==
  /\ pc = "elsewhere"
  /\ pc' = "reading" /\ worked' = FALSE
  /\ UNCHANGED <<um7, line, sending, sent, missed, cuts, taken, accident>>

(* Whether this byte completes a packet with angles and they are saved.    *)
Saves(c) ==
  /\ um7.state = "CHK0" /\ um7.data_length <= DataSize /\ Verified(um7, c)
  /\ IsBatch(um7.type) /\ um7.address = EULER

(* Counting stops once the parser has written past its data.               *)
Missed(c, mark) ==
  IF Saves(c) THEN 0
  ELSE IF missed = -1 \/ (um7.state = "DATA" /\ um7.data_index = DataSize) THEN -1
  ELSE IF mark = "cut" THEN 0
  ELSE IF mark = "end" THEN missed + 1
  ELSE missed

(* The bytes the parser has taken for a packet, from the type on; no more  *)
(* of them once data is full.                                              *)
Taken(c) ==
  IF um7.state \in {"ZERO", "S", "SN"} \/ (um7.state = "DATA" /\ um7.data_index >= DataSize)
  THEN <<>> ELSE Append(taken, c)

(* They are as many as their type says and their sum is right, and yet     *)
(* they are no packet of the sensor: a packet that was cut, with the       *)
(* beginning of the next ones for its rest.                                *)
AddsUp(bytes) ==
  LET k == 4 * BatchLength(bytes[1]) + 2
  IN  /\ Len(bytes) = k + 2
      /\ (s + n + p + Sum(SubSeq(bytes, 1, k))) % 65536 = bytes[k + 1] * 256 + bytes[k + 2]

ByAccident(bytes) ==
  AddsUp(bytes) /\ \A packet \in Packets : bytes # SubSeq(Frame(packet), 4, Len(Frame(packet)))

(* One turn of the loop of updateImu, which ignores what encode returns.   *)
ReadByte ==
  LET c == Head(line)[1]
      mark == Head(line)[2]
  IN  /\ pc = "reading" /\ line # <<>>
      /\ um7' \in Encode(um7, c)
      /\ line' = Tail(line)
      /\ worked' = TRUE
      /\ missed' = Missed(c, mark)
      /\ taken' = IF um7.state = "CHK0" THEN <<>> ELSE Taken(c)
      /\ accident' = IF Saves(c) THEN ByAccident(Taken(c)) ELSE accident
      /\ UNCHANGED <<sending, sent, pc, cuts>>

(* Nothing is left: updateImu returns worked. *)
Return ==
  /\ pc = "reading" /\ line = <<>>
  /\ pc' = "elsewhere"
  /\ UNCHANGED <<um7, line, sending, sent, worked, missed, cuts, taken, accident>>

Next == SendByte \/ CutPacket \/ CallUpdateImu \/ ReadByte \/ Return

Spec == Init /\ [][Next]_vars
-----------------------------------------------------------------------------
(* The angles are those of one packet of the sensor wherever packets were  *)
(* cut.  The sum is all that protects them: the bytes of a cut packet and  *)
(* of the next ones that happen to add up are the one exception, and what  *)
(* an earlier packet has left in data is none.                             *)
AnglesFromOnePacket ==
  um7.angles # <<>> =>
    \/ \E packet \in Packets : packet.address = EULER /\ um7.angles = SubSeq(packet.data, 1, 6)
    \/ accident

(* The parser finds its place again: after a packet that was cut, or one   *)
(* whose length it gets wrong, at most MaxMissed angle packets are lost,   *)
(* unless the broken packet made it write past its data.                   *)
SoonInStep == missed <= MaxMissed
=============================================================================
