----------------------------- MODULE MotorLink ------------------------------
(***************************************************************************)
(* The motor side of the control loop, motors.ino: N motor controllers,    *)
(* each on a serial port of its own, with a client object and a            *)
(* GenericInterface each and one communication_buffer for all of them.     *)
(*                                                                         *)
(* The loop runs setVal for every motor, then syncMotor for every motor:   *)
(* queue the requests, write what is queued, read what has arrived and     *)
(* parse it.  The controllers answer in their own time, so what a sync     *)
(* reads are the replies of earlier cycles, of this one, or none.          *)
(*                                                                         *)
(* A GenericInterface is used here by what its own modules establish:      *)
(* packets go out whole and in order while they fit (GenericInterface),    *)
(* and the packets that come in are found whole and in order               *)
(* (PacketFinder).  A frame of which only a part has arrived stays with    *)
(* the finder and is parsed with a later sync, as if it had arrived later. *)
(***************************************************************************)
EXTENDS Integers, SequencesExt

CONSTANTS N,                \* number of motors
          Gains,            \* entries motSetup sets, in order
          Obs,              \* entries syncMotor asks for, in order
          TxSize,           \* GENERIC_TX_BUFFER_SIZE
          Faulty,           \* motors whose line may lose a packet, and whose
          BadSizes,         \*   replies may have one of these sizes
          MaxCycle          \* bound: cycles of the loop

ASSUME NAssumption == N \in Nat \ {0}
ASSUME EntriesAssumption ==
  /\ Gains \in Seq(STRING) /\ Obs \in Seq(STRING) /\ Obs # <<>>
  /\ IsInjective(Gains \o Obs) /\ "CmdAngle" \notin ToSet(Gains) \union ToSet(Obs)
ASSUME FaultyAssumption == Faulty \subseteq 1 .. N /\ BadSizes \subseteq Nat
ASSUME MaxCycleAssumption == MaxCycle \in Nat

(* One sync's packets fit, as the sketch's do: the settings of motSetup    *)
(* and a command, 11 bytes each, and the requests, 7 bytes each.           *)
ASSUME TxSizeAssumption == TxSize \in Nat /\ 11 * (Len(Gains) + 1) + 7 * Len(Obs) <= TxSize

Motor == 1 .. N
Entry == ToSet(Gains) \union ToSet(Obs) \union {"CmdAngle"}
ObsEntry == ToSet(Obs)

VARIABLES tx,               \* com's outgoing packets
          toMotor,          \* written to the serial port, not yet handled
          fromMotor,        \* sent by the controller, not yet read
          buffer, length,   \* communication_buffer, communication_length
          owner,            \* whose entries entry_array points to, 0: none
          value, fresh,     \* value_ and is_fresh_ of the clients' entries
          motor,            \* what the controller was set to
          pc, at,           \* the statement of the loop, and for which motor
          cycle             \* number of the cycle

loop == <<pc, at, cycle>>
vars == <<tx, toMotor, fromMotor, buffer, length, owner, value, fresh, motor, loop>>

(* A packet as PeekPacket shows it: size counts type and data, so that     *)
(* there are size - 3 bytes after the type, the sub and the obj bytes.     *)
(* stamp is the cycle that asked; it is not in the packet and only tells   *)
(* packets apart.                                                          *)
Packet == [motor : Motor, dir : {"get", "set", "reply"}, entry : Entry,
           size : {3, 7} \union BadSizes, stamp : 0 .. MaxCycle]

Get(m, e) == [motor |-> m, dir |-> "get", entry |-> e, size |-> 3, stamp |-> cycle]
Set(m, e) == [motor |-> m, dir |-> "set", entry |-> e, size |-> 7, stamp |-> cycle]

Reply(m, e, size, stamp) ==
  [motor |-> m, dir |-> "reply", entry |-> e, size |-> size, stamp |-> stamp]

(* The frame adds a start byte, a length byte and a CRC of two, so that a  *)
(* get takes 7 bytes and a set 11.                                         *)
Bytes(packets) ==
  7 * Len(packets) + 4 * Cardinality({k \in DOMAIN packets : packets[k].dir = "set"})

SendPacket(queue, p) ==
  IF Bytes(Append(queue, p)) <= TxSize THEN Append(queue, p) ELSE queue

(* SendPacket of each: of packets of one size, as here, those after the    *)
(* first that does not fit do not fit either.                              *)
SendAll(queue, packets) ==
  LET First(k) == queue \o SubSeq(packets, 1, k)
  IN  First(Max({k \in 0 .. Len(packets) : k = 0 \/ Bytes(First(k)) <= TxSize}))

None == [motor |-> 0]

Init ==
  /\ tx        = [m \in Motor |-> <<>>]
  /\ toMotor   = [m \in Motor |-> <<>>]
  /\ fromMotor = [m \in Motor |-> <<>>]
  /\ buffer = <<>> /\ length = 0
  /\ owner = 0
  /\ value = [m \in Motor |-> [e \in ObsEntry |-> None]]
  /\ fresh = [m \in Motor |-> [e \in ObsEntry |-> FALSE]]
  /\ motor = [m \in Motor |-> {}]
  /\ pc = "setup" /\ at = 1 /\ cycle = 0
-----------------------------------------------------------------------------
MotSetup_Mutated(m) ==
  /\ pc = "setup" /\ at = m
  /\ tx' = [tx EXCEPT ![m] = SendAll(@, [i \in DOMAIN Tail(Gains) |-> Set(m, Tail(Gains)[i])])]
  /\ IF m < N THEN at' = m + 1 /\ pc' = pc ELSE at' = 1 /\ pc' = "cycle"
  /\ UNCHANGED <<toMotor, fromMotor, buffer, length, owner, value, fresh, motor, cycle>>

(* The gains are queued once, and go out with the first sync.              *)
MotSetup(m) ==
  /\ pc = "setup" /\ at = m
  /\ tx' = [tx EXCEPT ![m] = SendAll(@, [i \in DOMAIN Gains |-> Set(m, Gains[i])])]
  /\ IF m < N THEN at' = m + 1 /\ pc' = pc ELSE at' = 1 /\ pc' = "cycle"
  /\ UNCHANGED <<toMotor, fromMotor, buffer, length, owner, value, fresh, motor, cycle>>

(* A cycle whose updateImu returned true; the others touch no motor.       *)
StartCycle ==
  /\ pc = "cycle" /\ cycle < MaxCycle
  /\ cycle' = cycle + 1
  /\ pc' = "set" /\ at' = 1
  /\ UNCHANGED <<tx, toMotor, fromMotor, buffer, length, owner, value, fresh, motor>>

SetVal_Mutated(m) ==
  /\ pc = "set" /\ at = m
  /\ tx' = [tx EXCEPT ![1] = SendPacket(@, Set(m, "CmdAngle"))]
  /\ IF m < N THEN at' = m + 1 /\ pc' = pc ELSE at' = 1 /\ pc' = "send"
  /\ UNCHANGED <<toMotor, fromMotor, buffer, length, owner, value, fresh, motor, cycle>>

SetVal(m) ==
  /\ pc = "set" /\ at = m
  /\ tx' = [tx EXCEPT ![m] = SendPacket(@, Set(m, "CmdAngle"))]
  /\ IF m < N THEN at' = m + 1 /\ pc' = pc ELSE at' = 1 /\ pc' = "send"
  /\ UNCHANGED <<toMotor, fromMotor, buffer, length, owner, value, fresh, motor, cycle>>

Requested(m) == SendAll(tx[m], [i \in DOMAIN Obs |-> Get(m, Obs[i])])

(* What the buffer held is overwritten from its start. *)
Overwrite(packets) == packets \o SubSeq(buffer, Len(packets) + 1, Len(buffer))

(* syncMotor up to Serial.write.  If GetTxBytes had nothing to hand out,   *)
(* neither write nor read would happen and the old buffer would be parsed. *)
SyncWrite(m) ==
  /\ pc = "send" /\ at = m
  /\ IF Requested(m) = <<>>
     THEN pc' = "parse" /\ UNCHANGED <<tx, buffer, length, toMotor>>
     ELSE /\ tx' = [tx EXCEPT ![m] = <<>>]
          /\ buffer' = Overwrite(Requested(m)) /\ length' = Len(Requested(m))
          /\ toMotor' = [toMotor EXCEPT ![m] = @ \o Requested(m)]
          /\ pc' = "read"
  /\ UNCHANGED <<fromMotor, owner, value, fresh, motor, at, cycle>>

SyncRead_Mutated(m) ==
  /\ pc = "read" /\ at = m
  /\ \E k \in 0 .. Len(fromMotor[m]) :
       /\ buffer' = Overwrite(SubSeq(fromMotor[m], 1, k))
       /\ fromMotor' = [fromMotor EXCEPT ![m] = SubSeq(@, k + 1, Len(@))]
  /\ pc' = "parse"
  /\ UNCHANGED <<tx, toMotor, length, owner, value, fresh, motor, at, cycle>>

(* readBytes takes what is available, which replaces the length too.       *)
SyncRead(m) ==
  /\ pc = "read" /\ at = m
  /\ \E k \in 0 .. Len(fromMotor[m]) :
       /\ buffer' = Overwrite(SubSeq(fromMotor[m], 1, k)) /\ length' = k
       /\ fromMotor' = [fromMotor EXCEPT ![m] = SubSeq(@, k + 1, Len(@))]
  /\ pc' = "parse"
  /\ UNCHANGED <<tx, toMotor, owner, value, fresh, motor, at, cycle>>
-----------------------------------------------------------------------------
EntryOwner_Mutated(m) == owner

(* entry_array is a static of ReadMsg, filled with the addresses of the    *)
(* entries of the client whose ReadMsg runs first, and used by all.        *)
EntryOwner(m) == IF owner = 0 THEN m ELSE owner

(* The tests of ParseMsg and of Reply.  Type, sub and obj of the packet    *)
(* are the entry's; the length Reply gets is a uint8_t and wraps for a     *)
(* packet without the three leading bytes.                                 *)
Accepted(p) ==
  /\ p.dir = "reply"
  /\ p.entry \in ObsEntry
  /\ (p.size - 3) % 256 = 4

Received == SubSeq(buffer, 1, length)

Answers(e) == {k \in DOMAIN Received : Accepted(Received[k]) /\ Received[k].entry = e}

LatestOf_Mutated(e) ==
  IF Answers(e) = {} THEN <<>> ELSE <<Received[Min(Answers(e))]>>

(* Of several replies for one entry the last one stays. *)
LatestOf(e) == IF Answers(e) = {} THEN <<>> ELSE <<Received[Max(Answers(e))]>>

NextMotor(m) ==
  IF m < N THEN at' = m + 1 /\ pc' = "send" ELSE at' = 1 /\ pc' = "output"

(* SetRxBytes and the loop of PeekPacket, ReadMsg, DropPacket. *)
SyncParse(m) ==
  /\ pc = "parse" /\ at = m
  /\ owner' = IF Received = <<>> THEN owner ELSE EntryOwner(m)
  /\ value' = [value EXCEPT ![EntryOwner(m)] =
                 [e \in ObsEntry |-> IF LatestOf(e) = <<>> THEN @[e] ELSE LatestOf(e)[1]]]
  /\ fresh' = [fresh EXCEPT ![EntryOwner(m)] =
                 [e \in ObsEntry |-> @[e] \/ LatestOf(e) # <<>>]]
  /\ NextMotor(m)
  /\ UNCHANGED <<tx, toMotor, fromMotor, buffer, length, motor, cycle>>

(* The line of output calls getVal(m, ANGLE) for every motor; nothing      *)
(* looks at is_fresh_.                                                     *)
Output ==
  /\ pc = "output"
  /\ fresh' = [m \in Motor |-> [fresh[m] EXCEPT ![Obs[1]] = FALSE]]
  /\ pc' = "cycle"
  /\ UNCHANGED <<tx, toMotor, fromMotor, buffer, length, owner, value, motor, at, cycle>>
-----------------------------------------------------------------------------
(* The controller, which is not part of this code: it takes settings and   *)
(* answers requests, in order.  A line that loses packets loses whole      *)
(* ones, since a damaged frame fails its CRC.                              *)
Handle(m) ==
  /\ toMotor[m] # <<>>
  /\ toMotor' = [toMotor EXCEPT ![m] = Tail(@)]
  /\ LET p == Head(toMotor[m])
     IN  \/ p.dir = "set"
            /\ motor' = [motor EXCEPT ![m] = @ \union {p.entry}]
            /\ UNCHANGED fromMotor
         \/ p.dir = "get"
            /\ \E size \in {7} \union (IF m \in Faulty THEN BadSizes ELSE {}) :
                 fromMotor' = [fromMotor EXCEPT ![m] =
                                 Append(@, Reply(m, p.entry, size, p.stamp))]
            /\ UNCHANGED motor
  /\ UNCHANGED <<tx, buffer, length, owner, value, fresh, loop>>

Lose(m) ==
  /\ m \in Faulty
  /\ \/ /\ toMotor[m] # <<>>
        /\ toMotor' = [toMotor EXCEPT ![m] = Tail(@)]
        /\ UNCHANGED fromMotor
     \/ /\ fromMotor[m] # <<>>
        /\ fromMotor' = [fromMotor EXCEPT ![m] = Tail(@)]
        /\ UNCHANGED toMotor
  /\ UNCHANGED <<tx, buffer, length, owner, value, fresh, motor, loop>>

Loop == \/ \E m \in Motor : \/ MotSetup(m) \/ SetVal(m)
                            \/ SyncWrite(m) \/ SyncRead(m) \/ SyncParse(m)
        \/ StartCycle \/ Output

Next == Loop \/ \E m \in Motor : Handle(m) \/ Lose(m)

Spec == Init /\ [][Next]_vars
-----------------------------------------------------------------------------
(* The queues hold packets, and the loop is at one of its statements.      *)
TypeOK ==
  /\ \A m \in Motor : ToSet(tx[m] \o toMotor[m] \o fromMotor[m]) \subseteq Packet
  /\ ToSet(buffer) \subseteq Packet /\ length \in 0 .. Len(buffer)
  /\ owner \in 0 .. N /\ at \in Motor /\ cycle \in 0 .. MaxCycle
  /\ value \in [Motor -> [ObsEntry -> Packet \union {None}]]
  /\ fresh \in [Motor -> [ObsEntry -> BOOLEAN]]
  /\ motor \in [Motor -> SUBSET Entry]
  /\ pc \in {"setup", "cycle", "set", "send", "read", "parse", "output"}

(* The one buffer that all motors share, and that carries what is written  *)
(* as well as what is read, holds only replies of motor m when motor m's   *)
(* interface is given its bytes.                                           *)
BufferIsOwn ==
  pc = "parse" => \A p \in ToSet(Received) : p.motor = at /\ p.dir = "reply"

(* A sync writes one command to the motor, which is the one of this cycle  *)
(* and of this motor: no command waits for a later cycle.                  *)
CommandsCurrent ==
  [][\A m \in Motor : SyncWrite(m) =>
       LET written  == SubSeq(toMotor'[m], Len(toMotor[m]) + 1, Len(toMotor'[m]))
           commands == {k \in DOMAIN written : written[k].entry = "CmdAngle"}
       IN  \E k \in commands : commands = {k} /\ written[k] = Set(m, "CmdAngle")]_vars

(* A motor that lost nothing has all its gains before it has a command.    *)
ConfiguredBeforeCommanded ==
  \A m \in Motor \ Faulty : "CmdAngle" \in motor[m] => ToSet(Gains) \subseteq motor[m]

(* The loop itself loses no reply: once everything the motor that is read  *)
(* last in a cycle was asked has been answered and read, the entries that  *)
(* the clients share hold its answers to the requests of this very cycle,  *)
(* whatever the other motors and their lines did.                          *)
QuietMeansCurrent ==
  N \notin Faulty /\ pc = "cycle" /\ cycle > 0 /\ toMotor[N] = <<>> /\ fromMotor[N] = <<>> =>
    \A e \in ObsEntry : /\ value[owner][e] # None /\ value[owner][e].motor = N
                         /\ value[owner][e].stamp = cycle
-----------------------------------------------------------------------------
(* "Share that packet with all client objects" (motors.ino:225): a reply   *)
(* syncMotor reads for a motor reaches the client of that motor, whose     *)
(* entry getVal returns.                                                   *)
SharedWithItsClient ==
  [][\A m \in Motor : SyncParse(m) =>
       \A e \in ObsEntry : LatestOf(e) # <<>> => value'[m][e] = LatestOf(e)[1]]_vars
=============================================================================
