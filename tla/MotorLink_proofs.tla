------------------------- MODULE MotorLink_proofs --------------------------
(***************************************************************************)
(* Proofs about MotorLink for any number of motors, any settings and       *)
(* requests, any lines that lose and any length of the run.                *)
(***************************************************************************)
EXTENDS MotorLink, FiniteSetTheorems, SequenceTheorems, WellFoundedInduction, TLAPS

(* What may be on the lines to and from a controller. *)
Order(m) == [motor : {m}, dir : {"get", "set"}, entry : Entry, size : {3, 7},
             stamp : 0 .. MaxCycle]
Answer(m) == [motor : {m}, dir : {"reply"}, entry : Entry,
              size : {7} \union (IF m \in Faulty THEN BadSizes ELSE {}), stamp : 0 .. MaxCycle]

(* What the loop puts into the queue of a motor: the settings, once, a     *)
(* command and the requests.                                               *)
Settings(m) == [i \in DOMAIN Gains |->
  [motor |-> m, dir |-> "set", entry |-> Gains[i], size |-> 7, stamp |-> 0]]
Waiting(m) == IF cycle = 1 THEN Settings(m) ELSE <<>>
Commanded(m) == Append(Waiting(m), Set(m, "CmdAngle"))
Requests(m) == [i \in DOMAIN Obs |-> Get(m, Obs[i])]
-----------------------------------------------------------------------------
(* Sets of numbers have a least element, and bounded ones a greatest: the  *)
(* least of what is missing to the bound.                                  *)
LEMMA NatMin ==
  ASSUME NEW T, T \subseteq Nat, T # {}
  PROVE  \E x \in T : \A y \in T : x <= y
<1>1. IsWellFoundedOn(OpToRel(<, Nat), Nat)
  BY NatLessThanWellFounded
<1>2. PICK x \in T : \A y \in T : ~(<<y, x>> \in OpToRel(<, Nat))
  BY <1>1, WFMin
<1>3. OpToRel(<, Nat) = {ss \in Nat \X Nat : ss[1] < ss[2]}
  BY DEF OpToRel
<1>4. ASSUME NEW y \in T PROVE x <= y
  <2>1. ~(<<y, x>> \in {ss \in Nat \X Nat : ss[1] < ss[2]})
    BY <1>2, <1>3
  <2>2. y \in Nat /\ x \in Nat
    OBVIOUS
  <2> QED BY <2>1, <2>2
<1> QED BY <1>4

LEMMA HasMax ==
  ASSUME NEW n \in Nat, NEW S, S \subseteq 1 .. n, S # {}
  PROVE  Max(S) \in S /\ \A y \in S : y <= Max(S)
<1> DEFINE T == {t \in Nat : n - t \in S}
<1>1. T \subseteq Nat /\ T # {}
  <2>1. PICK x \in S : TRUE
    OBVIOUS
  <2>2. n - x \in Nat /\ n - (n - x) = x
    OBVIOUS
  <2>3. n - x \in T
    BY <2>2
  <2> QED BY <2>3
<1> HIDE DEF T
<1>2. PICK t \in T : \A u \in T : t <= u
  BY <1>1, NatMin
<1>3. t \in Nat /\ n - t \in S
  BY DEF T
<1>4. \A y \in S : n - y \in T
  <2> SUFFICES ASSUME NEW y \in S PROVE n - y \in T
    OBVIOUS
  <2>1. n - y \in Nat /\ n - (n - y) = y
    OBVIOUS
  <2> QED BY <2>1 DEF T
<1>5. \A y \in S : n - t >= y
  BY <1>2, <1>3, <1>4
<1> QED BY <1>3, <1>5 DEF Max
-----------------------------------------------------------------------------
(* The entries: settings, requests and the command are apart.              *)
LEMMA EntryFacts ==
  /\ Len(Gains) \in Nat /\ DOMAIN Gains = 1 .. Len(Gains)
  /\ Len(Obs) \in Nat /\ DOMAIN Obs = 1 .. Len(Obs) /\ Len(Obs) > 0
  /\ \A i \in DOMAIN Gains : Gains[i] \in Entry /\ Gains[i] # "CmdAngle"
  /\ \A i \in DOMAIN Obs : Obs[i] \in ObsEntry /\ Obs[i] # "CmdAngle"
  /\ ObsEntry \subseteq Entry /\ "CmdAngle" \in Entry
<1>1. /\ Gains \in Seq(STRING) /\ Obs \in Seq(STRING) /\ Obs # <<>>
      /\ "CmdAngle" \notin ToSet(Gains) \union ToSet(Obs)
  BY EntriesAssumption
<1>2. /\ Len(Gains) \in Nat /\ DOMAIN Gains = 1 .. Len(Gains)
      /\ Len(Obs) \in Nat /\ DOMAIN Obs = 1 .. Len(Obs) /\ Len(Obs) > 0
  BY <1>1, LenProperties, EmptySeq
<1> QED BY <1>1, <1>2 DEF Entry, ObsEntry, ToSet

LEMMA PacketSets ==
  ASSUME NEW m \in Motor
  PROVE  Order(m) \subseteq Packet /\ Answer(m) \subseteq Packet
BY DEF Order, Answer, Packet

LEMMA SettingsFacts ==
  ASSUME NEW m \in Motor
  PROVE  /\ Settings(m) \in Seq(Order(m)) /\ Len(Settings(m)) = Len(Gains)
         /\ \A i \in 1 .. Len(Gains) :
              Settings(m)[i] = [motor |-> m, dir |-> "set", entry |-> Gains[i], size |-> 7, stamp |-> 0]
<1>1. \A i \in 1 .. Len(Gains) :
        [motor |-> m, dir |-> "set", entry |-> Gains[i], size |-> 7, stamp |-> 0] \in Order(m)
  BY EntryFacts, MaxCycleAssumption DEF Order
<1> QED BY <1>1, EntryFacts DEF Settings

LEMMA RequestsFacts ==
  ASSUME NEW m \in Motor, cycle \in 0 .. MaxCycle
  PROVE  /\ Requests(m) \in Seq(Order(m)) /\ Len(Requests(m)) = Len(Obs)
         /\ \A i \in 1 .. Len(Obs) : Requests(m)[i] = Get(m, Obs[i])
<1>1. \A i \in 1 .. Len(Obs) : Get(m, Obs[i]) \in Order(m)
  BY EntryFacts DEF Order, Get
<1> QED BY <1>1, EntryFacts DEF Requests
-----------------------------------------------------------------------------
(* Packets of which the first n at most are settings or commands take no   *)
(* more than that many times 11 bytes, and 7 for each of the others.       *)
LEMMA BytesBound ==
  ASSUME NEW s \in Seq(Packet), NEW n \in Nat,
         \A k \in DOMAIN s : s[k].dir = "set" => k <= n
  PROVE  Bytes(s) \in Nat /\ Bytes(s) <= 7 * Len(s) + 4 * n
<1> DEFINE S == {k \in DOMAIN s : s[k].dir = "set"}
<1>1. Len(s) \in Nat /\ DOMAIN s = 1 .. Len(s)
  BY LenProperties
<1>2. S \subseteq 1 .. n
  BY <1>1
<1>3. IsFiniteSet(1 .. n) /\ Cardinality(1 .. n) = n
  BY FS_Interval
<1> HIDE DEF S
<1>4. IsFiniteSet(S) /\ Cardinality(S) <= Cardinality(1 .. n)
  BY <1>2, <1>3, FS_Subset
<1>5. Cardinality(S) \in Nat /\ Cardinality(S) <= n
  BY <1>3, <1>4, FS_CardinalityType
<1>6. Bytes(s) = 7 * Len(s) + 4 * Cardinality(S)
  BY DEF Bytes, S
<1> QED BY <1>1, <1>5, <1>6

(* What fits is queued whole. *)
LEMMA SendAllFits ==
  ASSUME NEW queue, NEW packets, NEW n \in Nat,
         queue \in Seq(Packet), packets \in Seq(Packet), queue \o packets \in Seq(Packet),
         Len(queue \o packets) = Len(queue) + Len(packets),
         \A k \in DOMAIN (queue \o packets) : (queue \o packets)[k].dir = "set" => k <= n,
         7 * (Len(queue) + Len(packets)) + 4 * n <= TxSize
  PROVE  SendAll(queue, packets) = queue \o packets
<1> DEFINE First(k) == queue \o SubSeq(packets, 1, k)
           l == Len(packets)
           K == {k \in 0 .. l : k = 0 \/ Bytes(First(k)) <= TxSize}
<1>1. First(l) = queue \o packets
  BY SubSeqFull
<1>2. Bytes(queue \o packets) <= TxSize
  <2>1. /\ Bytes(queue \o packets) \in Nat
        /\ Bytes(queue \o packets) <= 7 * Len(queue \o packets) + 4 * n
    BY BytesBound
  <2>2. Len(queue) \in Nat /\ Len(packets) \in Nat /\ Len(queue \o packets) \in Nat
    BY LenProperties
  <2> QED BY <2>1, <2>2, TxSizeAssumption
<1>3. l \in Nat /\ l \in K
  <2>1. l \in Nat
    BY LenProperties
  <2>2. Bytes(First(l)) <= TxSize
    BY <1>1, <1>2, Zenon
  <2> HIDE DEF First, l
  <2> QED BY <2>1, <2>2
<1>4. \A k \in K : k \in 0 .. l
  OBVIOUS
<1> HIDE DEF K
<1>5. Max(K) = l
  BY <1>3, <1>4 DEF Max
<1>6. SendAll(queue, packets) = First(Max(K))
  BY DEF SendAll, K
<1> QED BY <1>1, <1>5, <1>6
-----------------------------------------------------------------------------
(* What waits in the queue of each motor at each statement of the loop.    *)
Queued(m) ==
  /\ pc = "setup" => tx[m] = IF m < at THEN Settings(m) ELSE <<>>
  /\ pc = "cycle" => tx[m] = IF cycle = 0 THEN Settings(m) ELSE <<>>
  /\ pc = "set" => tx[m] = IF m < at THEN Commanded(m) ELSE Waiting(m)
  /\ pc = "send" => tx[m] = IF m < at THEN <<>> ELSE Commanded(m)
  /\ pc \in {"read", "parse"} => tx[m] = IF m <= at THEN <<>> ELSE Commanded(m)
  /\ pc = "output" => tx[m] = <<>>

Queues ==
  /\ pc \in {"setup", "cycle", "set", "send", "read", "parse", "output"}
  /\ at \in Motor /\ cycle \in 0 .. MaxCycle
  /\ pc = "setup" => cycle = 0
  /\ pc \notin {"setup", "cycle"} => cycle > 0
  /\ tx \in [Motor -> Seq(Packet)]
  /\ \A m \in Motor : Queued(m)

LEMMA CommandedFacts ==
  ASSUME NEW m \in Motor, cycle \in 0 .. MaxCycle
  PROVE  /\ Waiting(m) \in Seq(Order(m)) /\ Len(Waiting(m)) <= Len(Gains)
         /\ \A k \in 1 .. Len(Waiting(m)) : /\ Waiting(m)[k].dir = "set"
                                            /\ Waiting(m)[k].entry # "CmdAngle"
         /\ Set(m, "CmdAngle") \in Order(m)
         /\ Commanded(m) \in Seq(Order(m)) /\ Len(Commanded(m)) = Len(Waiting(m)) + 1
         /\ \A k \in 1 .. Len(Waiting(m)) : Commanded(m)[k] = Waiting(m)[k]
         /\ Commanded(m)[Len(Commanded(m))] = Set(m, "CmdAngle")
<1>1. Set(m, "CmdAngle") \in Order(m)
  BY EntryFacts DEF Order, Set
<1>2. Waiting(m) \in Seq(Order(m)) /\ Len(Waiting(m)) <= Len(Gains)
  BY SettingsFacts, EntryFacts, EmptySeq DEF Waiting
<1>3. \A k \in 1 .. Len(Waiting(m)) : /\ Waiting(m)[k].dir = "set"
                                      /\ Waiting(m)[k].entry # "CmdAngle"
  <2>1. CASE cycle = 1
    <3>1. Waiting(m) = Settings(m)
      BY <2>1 DEF Waiting
    <3>2. Len(Settings(m)) = Len(Gains)
      BY SettingsFacts
    <3>3. ASSUME NEW k \in 1 .. Len(Gains)
          PROVE  Settings(m)[k].dir = "set" /\ Settings(m)[k].entry # "CmdAngle"
      <4>1. Settings(m)[k] = [motor |-> m, dir |-> "set", entry |-> Gains[k], size |-> 7, stamp |-> 0]
        BY SettingsFacts
      <4> QED BY <4>1, EntryFacts
    <3> QED BY <3>1, <3>2, <3>3
  <2>2. CASE cycle # 1
    BY <2>2 DEF Waiting
  <2> QED BY <2>1, <2>2
<1> QED BY <1>1, <1>2, <1>3, AppendProperties DEF Commanded

(* What a sync writes: the settings with the first one, this cycle's       *)
(* command, and the requests.                                              *)
LEMMA RequestedFacts ==
  ASSUME Queues, NEW m \in Motor, pc = "send", at = m
  PROVE  /\ Requested(m) = Commanded(m) \o Requests(m)
         /\ Requested(m) \in Seq(Order(m))
         /\ Len(Requested(m)) = Len(Waiting(m)) + 1 + Len(Obs)
         /\ \A k \in 1 .. Len(Waiting(m)) : Requested(m)[k] = Waiting(m)[k]
         /\ Requested(m)[Len(Waiting(m)) + 1] = Set(m, "CmdAngle")
         /\ \A k \in 1 .. Len(Obs) :
              Requested(m)[Len(Waiting(m)) + 1 + k] = Get(m, Obs[k])
<1> DEFINE c == Commanded(m)
           r == Requests(m)
           s == c \o r
           n == Len(Waiting(m))
<1>1. cycle \in 0 .. MaxCycle /\ tx[m] = c
  BY NAssumption DEF Queues, Queued, Motor
<1>2. /\ c \in Seq(Order(m)) /\ Len(c) = n + 1 /\ n \in Nat /\ n <= Len(Gains)
      /\ \A k \in 1 .. n : c[k] = Waiting(m)[k] /\ Waiting(m)[k].dir = "set"
      /\ c[n + 1] = Set(m, "CmdAngle")
  <2>1. Waiting(m) \in Seq(Order(m))
    BY <1>1, CommandedFacts
  <2>2. n \in Nat
    BY <2>1, LenProperties
  <2> QED BY <1>1, <2>2, CommandedFacts
<1>3. /\ r \in Seq(Order(m)) /\ Len(r) = Len(Obs) /\ Len(Obs) \in Nat
      /\ \A k \in 1 .. Len(Obs) : r[k] = Get(m, Obs[k])
  BY <1>1, RequestsFacts, EntryFacts
<1>4. SendAll(tx[m], r) = Requested(m)
  BY DEF Requested, Requests
<1> HIDE DEF c, r, n
<1>5. /\ s \in Seq(Order(m)) /\ Len(s) = Len(c) + Len(r)
      /\ \A k \in 1 .. Len(c) + Len(r) : s[k] = IF k <= Len(c) THEN c[k] ELSE r[k - Len(c)]
  <2>1. c \in Seq(Order(m)) /\ r \in Seq(Order(m))
    BY <1>2, <1>3
  <2> QED BY <2>1, ConcatProperties, Zenon
<1> HIDE DEF s
<1>6. /\ Len(s) = n + 1 + Len(Obs)
      /\ \A k \in 1 .. n + 1 : s[k] = c[k]
      /\ \A k \in 1 .. Len(Obs) : s[n + 1 + k] = r[k]
  <2>1. ASSUME NEW k \in 1 .. Len(Obs) PROVE s[n + 1 + k] = r[k]
    <3>1. /\ n + 1 + k \in 1 .. Len(c) + Len(r)
          /\ ~(n + 1 + k <= Len(c)) /\ (n + 1 + k) - Len(c) = k
      BY <1>2, <1>3
    <3> QED BY <1>5, <3>1
  <2> QED BY <1>2, <1>3, <1>5, <2>1
<1>7. \A k \in DOMAIN s : s[k].dir = "set" => k <= n + 1
  <2> SUFFICES ASSUME NEW k \in DOMAIN s, ~(k <= n + 1) PROVE s[k].dir # "set"
    OBVIOUS
  <2>1. k \in 1 .. n + 1 + Len(Obs) /\ n \in Nat /\ Len(Obs) \in Nat
    BY <1>2, <1>3, <1>5, <1>6, LenProperties
  <2>2. k - (n + 1) \in 1 .. Len(Obs) /\ n + 1 + (k - (n + 1)) = k
    BY <2>1
  <2>3. s[k] = Get(m, Obs[k - (n + 1)])
    BY <1>3, <1>6, <2>2
  <2> QED BY <2>3 DEF Get
<1>8. c \in Seq(Packet) /\ r \in Seq(Packet) /\ s \in Seq(Packet)
  <2>1. Order(m) \subseteq Packet
    BY PacketSets
  <2> QED BY <1>2, <1>3, <1>5, <2>1, SeqMonotonic
<1>9. 7 * (Len(c) + Len(r)) + 4 * (n + 1) <= TxSize
  BY <1>2, <1>3, EntryFacts, TxSizeAssumption
<1>10. n + 1 \in Nat
  BY <1>2
<1>11. SendAll(c, r) = s
  BY <1>5, <1>7, <1>8, <1>9, <1>10, SendAllFits DEF s
<1>12. Requested(m) = s
  BY <1>1, <1>4, <1>11
<1>13. n + 1 \in 1 .. n + 1 /\ \A k \in 1 .. n : k \in 1 .. n + 1
  BY <1>2
<1> QED BY <1>2, <1>3, <1>5, <1>6, <1>12, <1>13 DEF s, c, r, n
-----------------------------------------------------------------------------
LEMMA QueuesInit == Init => Queues
BY NAssumption, MaxCycleAssumption, EmptySeq DEF Init, Queues, Queued, Motor

(* The settings are queued whole. *)
LEMMA SettingsQueued ==
  ASSUME Queues, NEW m \in Motor, pc = "setup", at = m
  PROVE  SendAll(tx[m], [i \in DOMAIN Gains |-> Set(m, Gains[i])]) = Settings(m)
<1> DEFINE g == Settings(m)
<1>1. tx[m] = <<>> /\ cycle = 0
  BY NAssumption DEF Queues, Queued, Motor
<1>2. [i \in DOMAIN Gains |-> Set(m, Gains[i])] = g
  BY <1>1 DEF Settings, Set
<1>3. /\ g \in Seq(Order(m)) /\ Len(g) = Len(Gains) /\ Len(Gains) \in Nat
      /\ Order(m) \subseteq Packet /\ Len(Obs) \in Nat
  BY SettingsFacts, PacketSets, EntryFacts
<1> HIDE DEF g
<1>4. g \in Seq(Packet) /\ <<>> \in Seq(Packet) /\ Len(<<>>) = 0
  BY <1>3, SeqMonotonic, EmptySeq
<1>5. <<>> \o g = g
  BY <1>4, ConcatEmptySeq
<1>6. \A k \in DOMAIN g : g[k].dir = "set" => k <= Len(Gains)
  BY <1>3, <1>4, LenProperties
<1>7. 7 * (0 + Len(g)) + 4 * Len(Gains) <= TxSize
  BY <1>3, TxSizeAssumption
<1>8. SendAll(<<>>, g) = <<>> \o g
  <2>1. /\ <<>> \o g \in Seq(Packet) /\ Len(<<>> \o g) = Len(<<>>) + Len(g)
        /\ \A k \in DOMAIN (<<>> \o g) : (<<>> \o g)[k].dir = "set" => k <= Len(Gains)
        /\ 7 * (Len(<<>>) + Len(g)) + 4 * Len(Gains) <= TxSize
    BY <1>3, <1>4, <1>5, <1>6, <1>7
  <2> QED BY <1>3, <1>4, <2>1, SendAllFits
<1> QED BY <1>1, <1>2, <1>5, <1>8 DEF g

(* A command is queued behind what waits there. *)
LEMMA CommandQueued ==
  ASSUME Queues, NEW m \in Motor, pc = "set", at = m
  PROVE  SendPacket(tx[m], Set(m, "CmdAngle")) = Commanded(m)
<1> DEFINE c == Commanded(m)
           n == Len(Waiting(m))
<1>1. tx[m] = Waiting(m) /\ cycle \in 0 .. MaxCycle
  BY NAssumption DEF Queues, Queued, Motor
<1>2. c \in Seq(Order(m)) /\ Len(c) = n + 1 /\ n <= Len(Gains) /\ Waiting(m) \in Seq(Order(m))
  BY <1>1, CommandedFacts
<1>3. n \in Nat /\ Len(Gains) \in Nat /\ Len(Obs) \in Nat /\ Order(m) \subseteq Packet
  BY <1>2, LenProperties, EntryFacts, PacketSets
<1>4. Append(tx[m], Set(m, "CmdAngle")) = c
  BY <1>1 DEF Commanded
<1> HIDE DEF c, n
<1>5. c \in Seq(Packet)
  BY <1>2, <1>3, SeqMonotonic
<1>6. \A k \in DOMAIN c : c[k].dir = "set" => k <= n + 1
  BY <1>2, <1>3, <1>5, LenProperties
<1>7. n + 1 \in Nat
  BY <1>3
<1>8. Bytes(c) \in Nat /\ Bytes(c) <= 7 * Len(c) + 4 * (n + 1)
  BY <1>5, <1>6, <1>7, BytesBound
<1>9. 7 * Len(c) + 4 * (n + 1) <= TxSize
  BY <1>2, <1>3, TxSizeAssumption
<1>10. Bytes(c) <= TxSize
  BY <1>2, <1>3, <1>8, <1>9, TxSizeAssumption
<1> QED BY <1>4, <1>10 DEF SendPacket, c

(* Where the loop goes on from its place for one motor. *)
LEMMA Places ==
  ASSUME NEW m \in Motor
  PROVE  /\ m < N => m + 1 \in Motor
         /\ ~(m < N) => m = N
         /\ 1 \in Motor
         /\ \A k \in Motor : /\ k \in Int /\ (k < m + 1 <=> k < m \/ k = m)
                             /\ (k <= m <=> k < m \/ k = m)
                             /\ ~(k < 1) /\ (~(m < N) => k < m \/ k = m)
                             /\ (k < m => k # m)
BY NAssumption DEF Motor

LEMMA QueuesStep ==
  ASSUME Queues, [Next]_vars
  PROVE  Queues'
<1>1. /\ tx \in [Motor -> Seq(Packet)] /\ at \in Motor /\ cycle \in 0 .. MaxCycle
      /\ \A m \in Motor : Queued(m)
      /\ (pc = "setup" => cycle = 0) /\ (pc \notin {"setup", "cycle"} => cycle > 0)
      /\ pc \in {"setup", "cycle", "set", "send", "read", "parse", "output"}
  BY DEF Queues
<1>2. cycle' = cycle =>
        \A k \in Motor : Waiting(k)' = Waiting(k) /\ Commanded(k)' = Commanded(k)
  BY DEF Commanded, Waiting, Set, Settings
<1>3. \A k \in Motor : Settings(k)' = Settings(k)
  BY DEF Settings
<1>4. ASSUME NEW m \in Motor, MotSetup(m) PROVE Queues'
  <2>1. /\ pc = "setup" /\ at = m /\ cycle' = cycle /\ cycle = 0
        /\ tx' = [tx EXCEPT ![m] = Settings(m)]
        /\ IF m < N THEN at' = m + 1 /\ pc' = pc ELSE at' = 1 /\ pc' = "cycle"
    BY <1>1, <1>4, SettingsQueued DEF MotSetup
  <2>2. Settings(m) \in Seq(Packet)
    <3> HIDE DEF Settings
    <3> QED BY SettingsFacts, PacketSets, SeqMonotonic
  <2>3. tx' \in [Motor -> Seq(Packet)]
    BY <1>1, <2>1, <2>2
  <2>4. ASSUME NEW k \in Motor PROVE Queued(k)'
    <3>1. tx'[k] = IF k = m THEN Settings(k) ELSE tx[k]
      BY <1>1, <2>1
    <3>2. tx[k] = IF k < m THEN Settings(k) ELSE <<>>
      BY <1>1, <2>1 DEF Queued
    <3> QED BY <1>3, <2>1, <3>1, <3>2, Places DEF Queued
  <2> QED BY <1>1, <2>1, <2>3, <2>4, Places DEF Queues
<1>5. CASE StartCycle
  <2>1. /\ pc = "cycle" /\ cycle' = cycle + 1 /\ cycle' \in 0 .. MaxCycle /\ cycle' > 0
        /\ pc' = "set" /\ at' = 1 /\ tx' = tx
    BY <1>1, <1>5, MaxCycleAssumption DEF StartCycle
  <2>2. ASSUME NEW k \in Motor PROVE Queued(k)'
    <3>1. tx[k] = IF cycle = 0 THEN Settings(k) ELSE <<>>
      BY <1>1, <2>1 DEF Queued
    <3>2. Waiting(k)' = tx[k]
      BY <1>1, <1>3, <2>1, <3>1 DEF Waiting
    <3> QED BY <2>1, <3>2, Places DEF Queued
  <2> QED BY <1>1, <2>1, <2>2, Places DEF Queues
<1>6. ASSUME NEW m \in Motor, SetVal(m) PROVE Queues'
  <2>1. /\ pc = "set" /\ at = m /\ cycle' = cycle /\ cycle > 0
        /\ tx' = [tx EXCEPT ![m] = Commanded(m)]
        /\ IF m < N THEN at' = m + 1 /\ pc' = pc ELSE at' = 1 /\ pc' = "send"
    BY <1>1, <1>6, CommandQueued DEF SetVal
  <2>2. Commanded(m) \in Seq(Packet)
    BY <1>1, CommandedFacts, PacketSets, SeqMonotonic
  <2>3. tx' \in [Motor -> Seq(Packet)]
    BY <1>1, <2>1, <2>2
  <2>4. ASSUME NEW k \in Motor PROVE Queued(k)'
    <3>1. tx'[k] = IF k = m THEN Commanded(k) ELSE tx[k]
      BY <1>1, <2>1
    <3>2. tx[k] = IF k < m THEN Commanded(k) ELSE Waiting(k)
      BY <1>1, <2>1 DEF Queued
    <3> QED BY <1>2, <2>1, <3>1, <3>2, Places DEF Queued
  <2> QED BY <1>1, <2>1, <2>3, <2>4, Places DEF Queues
<1>7. ASSUME NEW m \in Motor, SyncWrite(m) PROVE Queues'
  <2>1. /\ pc = "send" /\ at = m /\ cycle' = cycle /\ at' = at /\ cycle > 0
        /\ tx' = [tx EXCEPT ![m] = <<>>] /\ pc' = "read"
    <3>1. pc = "send" /\ at = m
      BY <1>7 DEF SyncWrite
    <3>2. Requested(m) # <<>>
      <4>1. /\ Requested(m) \in Seq(Order(m))
            /\ Len(Requested(m)) = Len(Waiting(m)) + 1 + Len(Obs)
        BY <3>1, RequestedFacts
      <4>2. Len(Waiting(m)) \in Nat /\ Len(Obs) \in Nat
        BY <1>1, CommandedFacts, LenProperties, EntryFacts
      <4> QED BY <4>1, <4>2, EmptySeq
    <3> QED BY <1>1, <1>7, <3>1, <3>2 DEF SyncWrite
  <2>2. tx' \in [Motor -> Seq(Packet)]
    BY <1>1, <2>1, EmptySeq
  <2>3. ASSUME NEW k \in Motor PROVE Queued(k)'
    <3>1. tx'[k] = IF k = m THEN <<>> ELSE tx[k]
      BY <1>1, <2>1
    <3>2. tx[k] = IF k < m THEN <<>> ELSE Commanded(k)
      BY <1>1, <2>1 DEF Queued
    <3> QED BY <1>2, <2>1, <3>1, <3>2, Places DEF Queued
  <2> QED BY <1>1, <2>1, <2>2, <2>3 DEF Queues
<1>8. ASSUME NEW m \in Motor, SyncRead(m) PROVE Queues'
  <2>1. /\ pc = "read" /\ at = m /\ cycle' = cycle /\ at' = at /\ cycle > 0
        /\ tx' = tx /\ pc' = "parse"
    BY <1>1, <1>8 DEF SyncRead
  <2>2. ASSUME NEW k \in Motor PROVE Queued(k)'
    BY <1>1, <1>2, <2>1 DEF Queued
  <2> QED BY <1>1, <2>1, <2>2 DEF Queues
<1>9. ASSUME NEW m \in Motor, SyncParse(m) PROVE Queues'
  <2>1. /\ pc = "parse" /\ at = m /\ cycle' = cycle /\ cycle > 0 /\ tx' = tx
        /\ IF m < N THEN at' = m + 1 /\ pc' = "send" ELSE at' = 1 /\ pc' = "output"
    BY <1>1, <1>9 DEF SyncParse, NextMotor
  <2>2. ASSUME NEW k \in Motor PROVE Queued(k)'
    <3>1. tx[k] = IF k <= m THEN <<>> ELSE Commanded(k)
      BY <1>1, <2>1 DEF Queued
    <3> QED BY <1>2, <2>1, <3>1, Places DEF Queued
  <2> QED BY <1>1, <2>1, <2>2, Places DEF Queues
<1>10. CASE Output
  <2>1. /\ pc = "output" /\ cycle' = cycle /\ at' = at /\ cycle > 0
        /\ tx' = tx /\ pc' = "cycle"
    BY <1>1, <1>10 DEF Output
  <2>2. ASSUME NEW k \in Motor PROVE Queued(k)'
    BY <1>1, <2>1 DEF Queued
  <2> QED BY <1>1, <2>1, <2>2 DEF Queues
<1>11. CASE tx' = tx /\ pc' = pc /\ at' = at /\ cycle' = cycle
  <2>1. ASSUME NEW k \in Motor PROVE Queued(k)'
    BY <1>1, <1>2, <1>3, <1>11 DEF Queued
  <2> QED BY <1>1, <1>11, <2>1 DEF Queues
<1>12. ASSUME NEW m \in Motor, Handle(m) \/ Lose(m)
       PROVE  tx' = tx /\ pc' = pc /\ at' = at /\ cycle' = cycle
  BY <1>12 DEF Handle, Lose, loop
<1>13. CASE UNCHANGED vars
  BY <1>11, <1>13 DEF vars, loop
<1> QED BY <1>4, <1>5, <1>6, <1>7, <1>8, <1>9, <1>10, <1>11, <1>12, <1>13 DEF Next, Loop
-----------------------------------------------------------------------------
(* What is on the lines, in the buffer and in the clients' entries; what   *)
(* is parsed has come from the motor that is synced.                       *)
Lines ==
  /\ toMotor \in [Motor -> Seq(Packet)] /\ fromMotor \in [Motor -> Seq(Packet)]
  /\ \A m \in Motor : toMotor[m] \in Seq(Order(m)) /\ fromMotor[m] \in Seq(Answer(m))
  /\ buffer \in Seq(Packet) /\ length \in 0 .. Len(buffer)
  /\ pc = "parse" => \A k \in 1 .. length : buffer[k] \in Answer(at)

Clients ==
  /\ owner \in 0 .. N
  /\ value \in [Motor -> [ObsEntry -> Packet \union {None}]]
  /\ fresh \in [Motor -> [ObsEntry -> BOOLEAN]]
  /\ motor \in [Motor -> SUBSET Entry]

(* A sequence and the rest after its first k, and after what follows it.   *)
LEMMA Split ==
  ASSUME NEW S, NEW s \in Seq(S), NEW k \in 0 .. Len(s)
  PROVE  /\ SubSeq(s, 1, k) \in Seq(S) /\ Len(SubSeq(s, 1, k)) = k
         /\ \A i \in 1 .. k : SubSeq(s, 1, k)[i] = s[i]
         /\ SubSeq(s, k + 1, Len(s)) \in Seq(S)
         /\ Len(SubSeq(s, k + 1, Len(s))) = Len(s) - k
         /\ \A i \in 1 .. Len(s) - k : SubSeq(s, k + 1, Len(s))[i] = s[k + i]
<1>1. Len(s) \in Nat /\ k \in Nat /\ k <= Len(s)
  BY LenProperties
<1>2. (\A i \in 1 .. k : s[i] \in S) /\ (\A i \in k + 1 .. Len(s) : s[i] \in S)
  BY <1>1, ElementOfSeq
<1> DEFINE l == Len(s)
<1> HIDE DEF l
<1>3. /\ SubSeq(s, 1, k) \in Seq(S)
      /\ Len(SubSeq(s, 1, k)) = IF 1 <= k THEN k - 1 + 1 ELSE 0
      /\ \A i \in 1 .. k - 1 + 1 : SubSeq(s, 1, k)[i] = s[1 + i - 1]
  BY <1>1, <1>2, SubSeqProperties
<1>4. /\ SubSeq(s, k + 1, l) \in Seq(S)
      /\ Len(SubSeq(s, k + 1, l)) = IF k + 1 <= l THEN l - (k + 1) + 1 ELSE 0
      /\ \A i \in 1 .. l - (k + 1) + 1 : SubSeq(s, k + 1, l)[i] = s[k + 1 + i - 1]
  BY <1>1, <1>2, SubSeqProperties DEF l
<1>5. l \in Nat /\ k \in Nat /\ k <= l /\ l = Len(s)
  BY <1>1 DEF l
<1>6. /\ \A i \in 1 .. k : SubSeq(s, 1, k)[i] = s[i]
      /\ Len(SubSeq(s, 1, k)) = k
  BY <1>3, <1>5
<1>7. /\ \A i \in 1 .. l - k : SubSeq(s, k + 1, l)[i] = s[k + i]
      /\ Len(SubSeq(s, k + 1, l)) = l - k
  BY <1>4, <1>5
<1> QED BY <1>3, <1>4, <1>5, <1>6, <1>7

LEMMA Joined ==
  ASSUME NEW S, NEW s \in Seq(S), NEW t \in Seq(S)
  PROVE  /\ s \o t \in Seq(S) /\ Len(s \o t) = Len(s) + Len(t)
         /\ Len(s) \in Nat /\ Len(t) \in Nat
         /\ \A i \in 1 .. Len(s) : (s \o t)[i] = s[i]
         /\ \A i \in 1 .. Len(t) : (s \o t)[Len(s) + i] = t[i]
<1> DEFINE u == s \o t
<1>1. /\ u \in Seq(S) /\ Len(u) = Len(s) + Len(t)
      /\ \A i \in 1 .. Len(s) + Len(t) : u[i] = IF i <= Len(s) THEN s[i] ELSE t[i - Len(s)]
  BY ConcatProperties, Zenon
<1>2. Len(s) \in Nat /\ Len(t) \in Nat
  BY LenProperties
<1> HIDE DEF u
<1>3. \A i \in 1 .. Len(s) : u[i] = s[i]
  BY <1>1, <1>2
<1>4. ASSUME NEW i \in 1 .. Len(t) PROVE u[Len(s) + i] = t[i]
  <2>1. /\ Len(s) + i \in 1 .. Len(s) + Len(t)
        /\ ~(Len(s) + i <= Len(s)) /\ (Len(s) + i) - Len(s) = i
    BY <1>2
  <2> QED BY <1>1, <2>1
<1> QED BY <1>1, <1>2, <1>3, <1>4 DEF u

LEMMA Overwritten ==
  ASSUME buffer \in Seq(Packet), NEW packets \in Seq(Packet)
  PROVE  /\ Overwrite(packets) \in Seq(Packet)
         /\ Len(packets) \in 0 .. Len(Overwrite(packets))
         /\ \A k \in 1 .. Len(packets) : Overwrite(packets)[k] = packets[k]
<1> DEFINE l == Len(packets)
           t == SubSeq(buffer, l + 1, Len(buffer))
<1>1. l \in Nat /\ Len(buffer) \in Nat
  BY LenProperties
<1>2. t \in Seq(Packet)
  <2>1. CASE l <= Len(buffer)
    <3>1. l \in 0 .. Len(buffer)
      BY <1>1, <2>1
    <3> QED BY <3>1, Split
  <2>2. CASE ~(l <= Len(buffer))
    BY <1>1, <2>2, SubSeqEmpty, EmptySeq
  <2> QED BY <2>1, <2>2
<1> DEFINE o == packets \o t
<1>3. Overwrite(packets) = o
  BY DEF Overwrite
<1> HIDE DEF t
<1>4. /\ o \in Seq(Packet) /\ Len(o) = Len(packets) + Len(t) /\ Len(t) \in Nat
      /\ \A k \in 1 .. Len(packets) : o[k] = packets[k]
  BY <1>2, Joined
<1> HIDE DEF o
<1> QED BY <1>1, <1>3, <1>4

LEMMA ReceivedFacts ==
  ASSUME buffer \in Seq(Packet), length \in 0 .. Len(buffer)
  PROVE  /\ Received \in Seq(Packet) /\ Len(Received) = length /\ DOMAIN Received = 1 .. length
         /\ \A k \in 1 .. length : Received[k] = buffer[k]
BY Split, LenProperties DEF Received

LEMMA LatestFacts ==
  ASSUME buffer \in Seq(Packet), length \in 0 .. Len(buffer), NEW e
  PROVE  \/ Answers(e) = {} /\ LatestOf(e) = <<>>
         \/ \E k \in Answers(e) : /\ LatestOf(e) = <<Received[k]>>
                                  /\ \A j \in Answers(e) : j <= k
<1>1. length \in Nat /\ Answers(e) \subseteq 1 .. length
  BY ReceivedFacts, LenProperties DEF Answers
<1>2. CASE Answers(e) = {}
  BY <1>2 DEF LatestOf
<1>3. CASE Answers(e) # {}
  <2>1. Max(Answers(e)) \in Answers(e) /\ \A j \in Answers(e) : j <= Max(Answers(e))
    BY <1>1, <1>3, HasMax
  <2>2. LatestOf(e) = <<Received[Max(Answers(e))]>>
    BY <1>3 DEF LatestOf
  <2> QED BY <2>1, <2>2
<1> QED BY <1>2, <1>3
-----------------------------------------------------------------------------
LEMMA LinesInit == Init => Lines /\ Clients
<1> SUFFICES ASSUME Init PROVE Lines /\ Clients
  OBVIOUS
<1>1. \A S : <<>> \in Seq(S) /\ Len(<<>>) = 0
  BY EmptySeq
<1>2. Lines
  BY <1>1 DEF Init, Lines
<1>3. Clients
  BY NAssumption DEF Init, Clients
<1> QED BY <1>2, <1>3

(* Once a sync has something to write, it writes, and then reads.          *)
LEMMA SyncWrites ==
  ASSUME Queues, Lines, NEW m \in Motor, SyncWrite(m)
  PROVE  /\ pc = "send" /\ at = m /\ pc' = "read" /\ cycle \in 0 .. MaxCycle
         /\ buffer' = Overwrite(Requested(m)) /\ length' = Len(Requested(m))
         /\ toMotor' = [toMotor EXCEPT ![m] = @ \o Requested(m)]
         /\ Requested(m) \in Seq(Order(m)) /\ Requested(m) # <<>>
<1>1. pc = "send" /\ at = m /\ cycle \in 0 .. MaxCycle
  BY DEF SyncWrite, Queues
<1>2. Requested(m) \in Seq(Order(m)) /\ Len(Requested(m)) = Len(Waiting(m)) + 1 + Len(Obs)
  BY <1>1, RequestedFacts
<1>3. Requested(m) # <<>>
  BY <1>1, <1>2, CommandedFacts, LenProperties, EntryFacts, EmptySeq
<1> QED BY <1>1, <1>2, <1>3 DEF SyncWrite

(* What a controller does with the first packet that reached it.           *)
LEMMA HandleFacts ==
  ASSUME Lines, NEW m \in Motor, Handle(m)
  PROVE  LET p == Head(toMotor[m])
         IN  /\ toMotor[m] # <<>> /\ p \in Order(m)
             /\ toMotor' = [toMotor EXCEPT ![m] = Tail(@)]
             /\ \/ /\ p.dir = "set" /\ fromMotor' = fromMotor
                   /\ motor' = [motor EXCEPT ![m] = @ \union {p.entry}]
                \/ /\ p.dir = "get" /\ motor' = motor
                   /\ \E size \in {7} \union (IF m \in Faulty THEN BadSizes ELSE {}) :
                        LET r == Reply(m, p.entry, size, p.stamp)
                        IN  r \in Answer(m) /\ fromMotor' = [fromMotor EXCEPT ![m] = Append(@, r)]
<1> DEFINE p == Head(toMotor[m])
<1>1. toMotor[m] # <<>> /\ toMotor' = [toMotor EXCEPT ![m] = Tail(@)]
  BY DEF Handle
<1>2. p \in Order(m)
  BY <1>1, HeadTailProperties DEF Lines
<1> HIDE DEF p
<1>3. ASSUME NEW size \in {7} \union (IF m \in Faulty THEN BadSizes ELSE {})
      PROVE  Reply(m, p.entry, size, p.stamp) \in Answer(m)
  BY <1>2, <1>3 DEF Order, Answer, Reply
<1>4. \/ /\ p.dir = "set" /\ fromMotor' = fromMotor
         /\ motor' = [motor EXCEPT ![m] = @ \union {p.entry}]
      \/ /\ p.dir = "get" /\ motor' = motor
         /\ \E size \in {7} \union (IF m \in Faulty THEN BadSizes ELSE {}) :
              fromMotor' = [fromMotor EXCEPT ![m] = Append(@, Reply(m, p.entry, size, p.stamp))]
  BY DEF Handle, p
<1> QED BY <1>1, <1>2, <1>3, <1>4 DEF p

LEMMA LinesStep ==
  ASSUME Queues, Lines, [Next]_vars
  PROVE  Lines'
<1>1. /\ toMotor \in [Motor -> Seq(Packet)] /\ fromMotor \in [Motor -> Seq(Packet)]
      /\ \A m \in Motor : toMotor[m] \in Seq(Order(m)) /\ fromMotor[m] \in Seq(Answer(m))
      /\ buffer \in Seq(Packet) /\ length \in 0 .. Len(buffer)
      /\ pc = "parse" => \A k \in 1 .. length : buffer[k] \in Answer(at)
  BY DEF Lines
<1>2. \A m \in Motor : /\ Order(m) \subseteq Packet /\ Answer(m) \subseteq Packet
                       /\ Order(m)' = Order(m) /\ Answer(m)' = Answer(m)
  BY PacketSets DEF Order, Answer
<1>3. ASSUME UNCHANGED <<toMotor, fromMotor, buffer, length>>, pc' # "parse" PROVE Lines'
  BY <1>1, <1>2, <1>3 DEF Lines
<1>4. ASSUME NEW m \in Motor, NEW s \in Seq(Order(m)), NEW t \in Seq(Answer(m)),
             toMotor' = [toMotor EXCEPT ![m] = s], fromMotor' = [fromMotor EXCEPT ![m] = t]
      PROVE  /\ toMotor' \in [Motor -> Seq(Packet)] /\ fromMotor' \in [Motor -> Seq(Packet)]
             /\ \A k \in Motor : toMotor'[k] \in Seq(Order(k)) /\ fromMotor'[k] \in Seq(Answer(k))
  <2>1. s \in Seq(Packet) /\ t \in Seq(Packet)
    BY <1>2, SeqMonotonic
  <2> QED BY <1>1, <1>4, <2>1
<1>5. \A m \in Motor : /\ toMotor = [toMotor EXCEPT ![m] = toMotor[m]]
                       /\ fromMotor = [fromMotor EXCEPT ![m] = fromMotor[m]]
  BY <1>1
<1>6. ASSUME NEW m \in Motor, MotSetup(m) \/ SetVal(m) \/ SyncParse(m) PROVE Lines'
  <2>1. UNCHANGED <<toMotor, fromMotor, buffer, length>> /\ pc' # "parse"
    BY <1>6 DEF MotSetup, SetVal, SyncParse, NextMotor
  <2> QED BY <1>3, <2>1
<1>7. CASE StartCycle \/ Output
  BY <1>3, <1>7 DEF StartCycle, Output
<1>8. ASSUME NEW m \in Motor, SyncWrite(m) PROVE Lines'
  <2> DEFINE r == Requested(m)
  <2>1. /\ pc' = "read" /\ buffer' = Overwrite(r) /\ length' = Len(r) /\ fromMotor' = fromMotor
        /\ toMotor' = [toMotor EXCEPT ![m] = toMotor[m] \o r] /\ r \in Seq(Order(m))
    BY <1>8, SyncWrites DEF SyncWrite
  <2> HIDE DEF r
  <2>2. toMotor[m] \o r \in Seq(Order(m))
    BY <1>1, <2>1, Joined
  <2>3. r \in Seq(Packet)
    BY <1>2, <2>1, SeqMonotonic
  <2>4. buffer' \in Seq(Packet) /\ length' \in 0 .. Len(buffer')
    BY <1>1, <2>1, <2>3, Overwritten
  <2> QED BY <1>1, <1>2, <1>4, <1>5, <2>1, <2>2, <2>4 DEF Lines
<1>9. ASSUME NEW m \in Motor, SyncRead(m) PROVE Lines'
  <2>1. PICK k \in 0 .. Len(fromMotor[m]) :
          /\ buffer' = Overwrite(SubSeq(fromMotor[m], 1, k)) /\ length' = k
          /\ fromMotor' = [fromMotor EXCEPT ![m] = SubSeq(@, k + 1, Len(@))]
    BY <1>9 DEF SyncRead
  <2> DEFINE r == SubSeq(fromMotor[m], 1, k)
             s == SubSeq(fromMotor[m], k + 1, Len(fromMotor[m]))
  <2>2. /\ pc = "read" /\ at = m /\ pc' = "parse" /\ at' = m /\ toMotor' = toMotor
        /\ buffer' = Overwrite(r) /\ fromMotor' = [fromMotor EXCEPT ![m] = s]
    BY <1>9, <2>1 DEF SyncRead
  <2>3. r \in Seq(Answer(m)) /\ Len(r) = k /\ s \in Seq(Answer(m))
    BY <1>1, Split
  <2> HIDE DEF r, s
  <2>4. r \in Seq(Packet)
    BY <1>2, <2>3, SeqMonotonic
  <2>5. /\ buffer' \in Seq(Packet) /\ length' \in 0 .. Len(buffer')
        /\ \A i \in 1 .. length' : buffer'[i] = r[i] /\ r[i] \in Answer(m)
    <3>1. \A i \in 1 .. k : r[i] \in Answer(m)
      BY <2>3, ElementOfSeq
    <3>2. /\ Overwrite(r) \in Seq(Packet) /\ k \in 0 .. Len(Overwrite(r))
          /\ \A i \in 1 .. k : Overwrite(r)[i] = r[i]
      BY <1>1, <2>3, <2>4, Overwritten
    <3> QED BY <2>1, <2>2, <3>1, <3>2
  <2> QED BY <1>1, <1>2, <1>4, <1>5, <2>2, <2>3, <2>5 DEF Lines
<1>10. ASSUME NEW m \in Motor, Handle(m) PROVE Lines'
  <2>1. /\ toMotor[m] # <<>> /\ toMotor' = [toMotor EXCEPT ![m] = Tail(toMotor[m])]
        /\ \/ fromMotor' = fromMotor
           \/ \E r \in Answer(m) : fromMotor' = [fromMotor EXCEPT ![m] = Append(fromMotor[m], r)]
        /\ UNCHANGED <<buffer, length, pc, at>>
    BY <1>10, Lines, HandleFacts DEF Handle, loop
  <2>2. Tail(toMotor[m]) \in Seq(Order(m))
    BY <1>1, <2>1, HeadTailProperties
  <2>3. PICK t \in Seq(Answer(m)) : fromMotor' = [fromMotor EXCEPT ![m] = t]
    BY <1>1, <1>5, <2>1, AppendProperties
  <2>4. /\ toMotor' \in [Motor -> Seq(Packet)] /\ fromMotor' \in [Motor -> Seq(Packet)]
        /\ \A k \in Motor : toMotor'[k] \in Seq(Order(k)) /\ fromMotor'[k] \in Seq(Answer(k))
    BY <1>4, <2>1, <2>2, <2>3
  <2> QED BY <1>1, <1>2, <2>1, <2>4 DEF Lines, Queues
<1>11. ASSUME NEW m \in Motor, Lose(m) PROVE Lines'
  <2>1. /\ \/ /\ toMotor[m] # <<>> /\ toMotor' = [toMotor EXCEPT ![m] = Tail(toMotor[m])]
              /\ fromMotor' = fromMotor
           \/ /\ fromMotor[m] # <<>> /\ fromMotor' = [fromMotor EXCEPT ![m] = Tail(fromMotor[m])]
              /\ toMotor' = toMotor
        /\ UNCHANGED <<buffer, length, pc, at>>
    BY <1>11 DEF Lose, loop
  <2>2. \E s \in Seq(Order(m)), t \in Seq(Answer(m)) :
          toMotor' = [toMotor EXCEPT ![m] = s] /\ fromMotor' = [fromMotor EXCEPT ![m] = t]
    <3>1. toMotor[m] # <<>> => Tail(toMotor[m]) \in Seq(Order(m))
      BY <1>1, HeadTailProperties
    <3>2. fromMotor[m] # <<>> => Tail(fromMotor[m]) \in Seq(Answer(m))
      BY <1>1, HeadTailProperties
    <3> QED BY <1>1, <1>5, <2>1, <3>1, <3>2
  <2>3. /\ toMotor' \in [Motor -> Seq(Packet)] /\ fromMotor' \in [Motor -> Seq(Packet)]
        /\ \A k \in Motor : toMotor'[k] \in Seq(Order(k)) /\ fromMotor'[k] \in Seq(Answer(k))
    BY <1>4, <2>2
  <2> QED BY <1>1, <1>2, <2>1, <2>3 DEF Lines, Queues
<1>12. CASE UNCHANGED vars
  BY <1>1, <1>2, <1>12 DEF Lines, vars, loop
<1> QED BY <1>6, <1>7, <1>8, <1>9, <1>10, <1>11, <1>12 DEF Next, Loop

LEMMA ClientsStep ==
  ASSUME Queues, Lines, Clients, [Next]_vars
  PROVE  Clients'
<1>1. /\ owner \in 0 .. N
      /\ value \in [Motor -> [ObsEntry -> Packet \union {None}]]
      /\ fresh \in [Motor -> [ObsEntry -> BOOLEAN]]
      /\ motor \in [Motor -> SUBSET Entry]
  BY DEF Clients
<1>2. ASSUME UNCHANGED <<owner, value, fresh, motor>> PROVE Clients'
  BY <1>1, <1>2 DEF Clients
<1>3. ASSUME NEW m \in Motor,
             MotSetup(m) \/ SetVal(m) \/ SyncWrite(m) \/ SyncRead(m) \/ Lose(m)
      PROVE  Clients'
  BY <1>2, <1>3 DEF MotSetup, SetVal, SyncWrite, SyncRead, Lose
<1>4. CASE StartCycle
  BY <1>2, <1>4 DEF StartCycle
<1>5. ASSUME NEW m \in Motor, SyncParse(m) PROVE Clients'
  <2> DEFINE o == EntryOwner(m)
             V == [e \in ObsEntry |-> IF LatestOf(e) = <<>> THEN value[o][e] ELSE LatestOf(e)[1]]
             F == [e \in ObsEntry |-> fresh[o][e] \/ LatestOf(e) # <<>>]
  <2>1. o \in Motor
    BY <1>1, NAssumption DEF EntryOwner, Motor
  <2>2. /\ owner' = IF Received = <<>> THEN owner ELSE o
        /\ value' = [value EXCEPT ![o] = V] /\ fresh' = [fresh EXCEPT ![o] = F] /\ motor' = motor
    BY <1>1, <1>5, <2>1 DEF SyncParse
  <2>3. ASSUME NEW e \in ObsEntry, LatestOf(e) # <<>> PROVE LatestOf(e)[1] \in Packet
    <3>1. PICK k \in Answers(e) : LatestOf(e) = <<Received[k]>>
      BY <2>3, LatestFacts DEF Lines
    <3>2. k \in DOMAIN Received
      BY <3>1 DEF Answers
    <3>3. Received[k] \in Packet
      BY <3>2, ReceivedFacts, ElementOfSeq DEF Lines
    <3> QED BY <3>1, <3>3
  <2> HIDE DEF o
  <2>4. V \in [ObsEntry -> Packet \union {None}]
    BY <1>1, <2>1, <2>3
  <2>5. F \in [ObsEntry -> BOOLEAN]
    BY <1>1, <2>1
  <2> HIDE DEF V, F
  <2>6. value' \in [Motor -> [ObsEntry -> Packet \union {None}]]
    BY <1>1, <2>1, <2>2, <2>4
  <2>7. fresh' \in [Motor -> [ObsEntry -> BOOLEAN]]
    BY <1>1, <2>1, <2>2, <2>5
  <2>8. owner' \in 0 .. N
    BY <1>1, <2>1, <2>2, NAssumption DEF Motor
  <2> QED BY <1>1, <2>2, <2>6, <2>7, <2>8 DEF Clients
<1>6. CASE Output
  <2>1. fresh' = [m \in Motor |-> [fresh[m] EXCEPT ![Obs[1]] = FALSE]]
        /\ UNCHANGED <<owner, value, motor>>
    BY <1>6 DEF Output
  <2>2. \A m \in Motor : [fresh[m] EXCEPT ![Obs[1]] = FALSE] \in [ObsEntry -> BOOLEAN]
    BY <1>1
  <2>3. fresh' \in [Motor -> [ObsEntry -> BOOLEAN]]
    BY <2>1, <2>2
  <2> QED BY <1>1, <2>1, <2>3 DEF Clients
<1>7. ASSUME NEW m \in Motor, Handle(m) PROVE Clients'
  <2>1. /\ Head(toMotor[m]) \in Order(m) /\ UNCHANGED <<owner, value, fresh>>
        /\ \/ motor' = motor
           \/ motor' = [motor EXCEPT ![m] = @ \union {Head(toMotor[m]).entry}]
    BY <1>7, HandleFacts DEF Handle
  <2>2. Head(toMotor[m]).entry \in Entry
    BY <2>1 DEF Order
  <2>3. motor' \in [Motor -> SUBSET Entry]
    BY <1>1, <2>1, <2>2
  <2> QED BY <1>1, <2>1, <2>3 DEF Clients
<1>8. CASE UNCHANGED vars
  BY <1>2, <1>8 DEF vars
<1> QED BY <1>3, <1>4, <1>5, <1>6, <1>7, <1>8 DEF Next, Loop

IInv == Queues /\ Lines /\ Clients

(* What is known of the queues, of the lines with what is on them, and of  *)
(* the clients is kept by every step of the loop, of the controllers and   *)
(* of the lines.                                                           *)
THEOREM Inductive == Spec => []IInv
<1>1. Init => IInv
  BY QueuesInit, LinesInit DEF IInv
<1>2. IInv /\ [Next]_vars => IInv'
  BY QueuesStep, LinesStep, ClientsStep DEF IInv
<1> QED BY <1>1, <1>2, PTL DEF Spec

(* The queues, the lines and the buffer hold packets, for any number of    *)
(* motors and lines that lose any of them.                                 *)
THEOREM TypeCorrect == Spec => []TypeOK
<1>1. ASSUME IInv PROVE TypeOK
  <2>1. ASSUME NEW m \in Motor PROVE ToSet(tx[m] \o toMotor[m] \o fromMotor[m]) \subseteq Packet
    <3> DEFINE s == tx[m] \o toMotor[m]
               t == s \o fromMotor[m]
    <3>1. tx[m] \in Seq(Packet) /\ toMotor[m] \in Seq(Packet) /\ fromMotor[m] \in Seq(Packet)
      BY <1>1 DEF IInv, Queues, Lines
    <3>2. s \in Seq(Packet)
      BY <3>1, Joined
    <3> HIDE DEF s
    <3>3. t \in Seq(Packet)
      BY <3>1, <3>2, Joined
    <3> HIDE DEF t
    <3>4. ToSet(t) \subseteq Packet
      BY <3>3, ElementOfSeq, LenProperties DEF ToSet
    <3> QED BY <3>4 DEF t, s
  <2>2. ToSet(buffer) \subseteq Packet
    BY <1>1, ElementOfSeq, LenProperties DEF IInv, Lines, ToSet
  <2> QED BY <1>1, <2>1, <2>2 DEF IInv, Queues, Lines, Clients, TypeOK
<1> QED BY <1>1, Inductive, PTL

(* Whatever arrives when, the bytes an interface is given to parse are     *)
(* replies of its own motor, although all motors share the buffer.         *)
THEOREM NoMixing == Spec => []BufferIsOwn
<1>1. ASSUME IInv PROVE BufferIsOwn
  <2> SUFFICES ASSUME pc = "parse", NEW p \in ToSet(Received)
               PROVE  p.motor = at /\ p.dir = "reply"
    BY DEF BufferIsOwn
  <2>1. PICK k \in 1 .. length : p = buffer[k]
    BY <1>1, ReceivedFacts DEF IInv, Lines, ToSet
  <2>2. p \in Answer(at)
    BY <1>1, <2>1 DEF IInv, Lines
  <2> QED BY <2>2 DEF Answer
<1> QED BY <1>1, Inductive, PTL
-----------------------------------------------------------------------------
(* What a sync appends to the line are the packets of RequestedFacts.      *)
LEMMA WrittenFacts ==
  ASSUME IInv, NEW m \in Motor, SyncWrite(m)
  PROVE  /\ toMotor'[m] = toMotor[m] \o Requested(m)
         /\ SubSeq(toMotor'[m], Len(toMotor[m]) + 1, Len(toMotor'[m])) = Requested(m)
<1> DEFINE s == toMotor[m]
           r == Requested(m)
           t == s \o r
<1>1. toMotor' = [toMotor EXCEPT ![m] = s \o r] /\ r \in Seq(Order(m)) /\ s \in Seq(Order(m))
  BY SyncWrites DEF IInv, Lines
<1>2. toMotor'[m] = t
  BY <1>1 DEF IInv, Lines
<1> HIDE DEF s, r
<1>3. /\ t \in Seq(Order(m)) /\ Len(t) = Len(s) + Len(r) /\ Len(s) \in Nat /\ Len(r) \in Nat
      /\ \A i \in 1 .. Len(r) : t[Len(s) + i] = r[i]
  BY <1>1, Joined
<1> HIDE DEF t
<1> DEFINE u == SubSeq(t, Len(s) + 1, Len(t))
<1>4. /\ u \in Seq(Order(m)) /\ Len(u) = Len(t) - Len(s)
      /\ \A i \in 1 .. Len(t) - Len(s) : u[i] = t[Len(s) + i]
  <2>1. Len(s) \in 0 .. Len(t)
    BY <1>3
  <2> QED BY <1>3, <2>1, Split
<1> HIDE DEF u
<1>5. Len(u) = Len(r) /\ \A i \in 1 .. Len(u) : u[i] = r[i]
  <2>1. Len(u) = Len(r) /\ Len(t) - Len(s) = Len(r)
    BY <1>3, <1>4
  <2> QED BY <1>3, <1>4, <2>1
<1>6. u = r
  BY <1>1, <1>4, <1>5, SeqEqual
<1> QED BY <1>2, <1>6 DEF s, r, t, u

(* Each sync writes one command, for this motor and of this cycle.         *)
THEOREM OneCommand == Spec => CommandsCurrent
<1>1. ASSUME IInv, NEW m \in Motor, SyncWrite(m)
      PROVE  LET written  == SubSeq(toMotor'[m], Len(toMotor[m]) + 1, Len(toMotor'[m]))
                 commands == {k \in DOMAIN written : written[k].entry = "CmdAngle"}
             IN  \E k \in commands : commands = {k} /\ written[k] = Set(m, "CmdAngle")
  <2> DEFINE r == Requested(m)
             n == Len(Waiting(m))
             C == {k \in DOMAIN r : r[k].entry = "CmdAngle"}
  <2>1. pc = "send" /\ at = m /\ cycle \in 0 .. MaxCycle
    BY <1>1, SyncWrites DEF IInv
  <2>2. /\ n \in Nat /\ Len(Obs) \in Nat
        /\ \A k \in 1 .. n : Waiting(m)[k].entry # "CmdAngle"
    BY <2>1, CommandedFacts, LenProperties, EntryFacts
  <2>3. /\ r \in Seq(Order(m)) /\ Len(r) = n + 1 + Len(Obs)
        /\ \A k \in 1 .. n : r[k] = Waiting(m)[k]
        /\ r[n + 1] = Set(m, "CmdAngle")
        /\ \A k \in 1 .. Len(Obs) : r[n + 1 + k] = Get(m, Obs[k])
    BY <1>1, <2>1, RequestedFacts DEF IInv
  <2>4. DOMAIN r = 1 .. n + 1 + Len(Obs)
    BY <2>3, LenProperties
  <2> HIDE DEF r, n
  <2>5. ASSUME NEW k \in 1 .. Len(Obs) PROVE r[n + 1 + k].entry # "CmdAngle"
    <3>1. k \in DOMAIN Obs /\ Obs[k] # "CmdAngle"
      BY EntryFacts
    <3>2. r[n + 1 + k] = Get(m, Obs[k])
      BY <2>3
    <3>3. Get(m, Obs[k]).entry = Obs[k]
      BY DEF Get
    <3> QED BY <3>1, <3>2, <3>3
  <2>6. \A k \in DOMAIN r : r[k].entry = "CmdAngle" => k = n + 1
    <3> SUFFICES ASSUME NEW k \in DOMAIN r, k # n + 1 PROVE r[k].entry # "CmdAngle"
      OBVIOUS
    <3>1. CASE k \in 1 .. n
      BY <2>2, <2>3, <3>1 DEF n
    <3>2. CASE k \notin 1 .. n
      <4>1. k - (n + 1) \in 1 .. Len(Obs) /\ n + 1 + (k - (n + 1)) = k
        BY <2>2, <2>4, <3>2
      <4> QED BY <2>5, <4>1
    <3> QED BY <3>1, <3>2
  <2>7. n + 1 \in DOMAIN r /\ r[n + 1].entry = "CmdAngle"
    BY <2>2, <2>3, <2>4 DEF Set
  <2>8. C = {n + 1}
    BY <2>6, <2>7
  <2>9. SubSeq(toMotor'[m], Len(toMotor[m]) + 1, Len(toMotor'[m])) = r
    BY <1>1, WrittenFacts DEF r
  <2> QED BY <2>3, <2>8, <2>9
<1>2. IInv /\ [Next]_vars =>
        [\A m \in Motor : SyncWrite(m) =>
           LET written  == SubSeq(toMotor'[m], Len(toMotor[m]) + 1, Len(toMotor'[m]))
               commands == {k \in DOMAIN written : written[k].entry = "CmdAngle"}
           IN  \E k \in commands : commands = {k} /\ written[k] = Set(m, "CmdAngle")]_vars
  BY <1>1
<1> QED BY <1>2, Inductive, PTL DEF Spec, CommandsCurrent
-----------------------------------------------------------------------------
(* A motor is sent its settings with the sync of the first cycle; from     *)
(* then on each has reached its controller, or comes before any command.   *)
Sent(m) ==
  \/ cycle > 1
  \/ /\ cycle = 1
     /\ \/ pc \in {"output", "cycle"}
        \/ pc \in {"read", "parse"} /\ m <= at
        \/ pc = "send" /\ m < at

OnItsWay(m, g) ==
  \E i \in 1 .. Len(toMotor[m]) :
    /\ toMotor[m][i].dir = "set" /\ toMotor[m][i].entry = g
    /\ \A j \in 1 .. i : toMotor[m][j].entry # "CmdAngle"

SettingsFirst ==
  \A m \in Motor \ Faulty : \A g \in ToSet(Gains) :
    \/ g \in motor[m]
    \/ /\ "CmdAngle" \notin motor[m]
       /\ \/ ~Sent(m) /\ toMotor[m] = <<>>
          \/ OnItsWay(m, g)

LEMMA SentBySync ==
  ASSUME Queues, [Next]_vars, NEW k \in Motor, ~Sent(k), Sent(k)'
  PROVE  SyncWrite(k)
<1>1. /\ pc \in {"setup", "cycle", "set", "send", "read", "parse", "output"}
      /\ at \in Motor /\ cycle \in 0 .. MaxCycle
      /\ (pc = "setup" => cycle = 0) /\ (pc \notin {"setup", "cycle"} => cycle > 0)
  BY DEF Queues
<1>2. ASSUME NEW m \in Motor, MotSetup(m) PROVE FALSE
  BY <1>1, <1>2 DEF MotSetup, Sent
<1>3. CASE StartCycle
  <2>1. pc = "cycle" /\ cycle' = cycle + 1 /\ pc' = "set"
    BY <1>3 DEF StartCycle
  <2> QED BY <1>1, <2>1, MaxCycleAssumption DEF Sent
<1>4. ASSUME NEW m \in Motor, SetVal(m) PROVE FALSE
  <2>1. pc = "set" /\ cycle' = cycle /\ (pc' = "set" \/ (pc' = "send" /\ at' = 1))
    BY <1>1, <1>4 DEF SetVal
  <2>2. ~(k < 1)
    BY DEF Motor
  <2> QED BY <2>1, <2>2 DEF Sent
<1>5. ASSUME NEW m \in Motor, SyncWrite(m), m # k PROVE FALSE
  <2>1. /\ pc = "send" /\ at = m /\ cycle' = cycle /\ at' = m
        /\ (pc' = "read" \/ pc' = "parse")
    BY <1>5 DEF SyncWrite
  <2> QED BY <1>1, <1>5, <2>1, Places DEF Sent
<1>6. ASSUME NEW m \in Motor, SyncRead(m) PROVE FALSE
  <2>1. pc = "read" /\ at = m /\ cycle' = cycle /\ at' = m /\ pc' = "parse"
    BY <1>6 DEF SyncRead
  <2> QED BY <1>1, <2>1 DEF Sent
<1>7. ASSUME NEW m \in Motor, SyncParse(m) PROVE FALSE
  <2>1. /\ pc = "parse" /\ at = m /\ cycle' = cycle
        /\ IF m < N THEN at' = m + 1 /\ pc' = "send" ELSE at' = 1 /\ pc' = "output"
    BY <1>7 DEF SyncParse, NextMotor
  <2> QED BY <1>1, <2>1, Places DEF Sent
<1>8. CASE Output
  <2>1. pc = "output" /\ cycle' = cycle /\ pc' = "cycle"
    BY <1>8 DEF Output
  <2> QED BY <1>1, <2>1 DEF Sent
<1>9. ASSUME NEW m \in Motor, Handle(m) \/ Lose(m) PROVE FALSE
  BY <1>9 DEF Handle, Lose, loop, Sent
<1>10. CASE UNCHANGED vars
  BY <1>10 DEF vars, loop, Sent
<1> QED BY <1>2, <1>3, <1>4, <1>5, <1>6, <1>7, <1>8, <1>9, <1>10 DEF Next, Loop

LEMMA SettingsFirstInit == Init => SettingsFirst
BY DEF Init, SettingsFirst, Sent

(* What is on its way stays so when more is written, and gets nearer or    *)
(* arrives when the controller takes a packet.                             *)
LEMMA OnItsWayAppended ==
  ASSUME NEW m, NEW g, NEW r, OnItsWay(m, g),
         toMotor[m] \in Seq(Order(m)), r \in Seq(Order(m)), toMotor'[m] = toMotor[m] \o r
  PROVE  OnItsWay(m, g)'
<1> DEFINE s == toMotor[m]
           t == s \o r
<1>1. /\ Len(t) = Len(s) + Len(r) /\ Len(s) \in Nat /\ Len(r) \in Nat
      /\ \A i \in 1 .. Len(s) : t[i] = s[i]
  BY Joined
<1>2. PICK i \in 1 .. Len(s) :
        /\ s[i].dir = "set" /\ s[i].entry = g
        /\ \A j \in 1 .. i : s[j].entry # "CmdAngle"
  BY DEF OnItsWay
<1> HIDE DEF t, s
<1>3. /\ i \in 1 .. Len(t) /\ t[i].dir = "set" /\ t[i].entry = g
      /\ \A j \in 1 .. i : t[j].entry # "CmdAngle"
  <2>1. i \in 1 .. Len(t) /\ \A j \in 1 .. i : j \in 1 .. Len(s)
    BY <1>1
  <2>2. \A j \in 1 .. i : t[j] = s[j]
    BY <1>1, <2>1
  <2>3. i \in 1 .. i
    BY <1>1
  <2> QED BY <1>2, <2>1, <2>2, <2>3
<1>4. toMotor'[m] = t
  BY DEF t, s
<1> QED BY <1>3, <1>4 DEF OnItsWay

LEMMA OnItsWayTaken ==
  ASSUME NEW m, NEW g, OnItsWay(m, g), toMotor[m] # <<>>,
         toMotor[m] \in Seq(Order(m)), toMotor'[m] = Tail(toMotor[m])
  PROVE  /\ Head(toMotor[m]).entry # "CmdAngle"
         /\ \/ Head(toMotor[m]).dir = "set" /\ Head(toMotor[m]).entry = g
            \/ OnItsWay(m, g)'
<1> DEFINE s == toMotor[m]
           t == Tail(s)
<1>1. /\ Len(t) = Len(s) - 1 /\ Len(s) \in Nat /\ Head(s) = s[1]
      /\ \A i \in 1 .. Len(t) : t[i] = s[i + 1]
  BY HeadTailProperties, LenProperties
<1>2. PICK i \in 1 .. Len(s) :
        /\ s[i].dir = "set" /\ s[i].entry = g
        /\ \A j \in 1 .. i : s[j].entry # "CmdAngle"
  BY DEF OnItsWay
<1>3. toMotor'[m] = t
  OBVIOUS
<1> HIDE DEF t, s
<1>4. s[1].entry # "CmdAngle"
  BY <1>2
<1>5. CASE i = 1
  BY <1>1, <1>2, <1>4, <1>5 DEF s
<1>6. CASE i # 1
  <2>1. i - 1 \in 1 .. Len(t) /\ t[i - 1] = s[i]
    BY <1>1, <1>2, <1>6
  <2>2. \A j \in 1 .. i - 1 : t[j].entry # "CmdAngle"
    <3> SUFFICES ASSUME NEW j \in 1 .. i - 1 PROVE t[j].entry # "CmdAngle"
      OBVIOUS
    <3>1. j + 1 \in 1 .. i /\ j \in 1 .. Len(t)
      BY <1>1, <1>2
    <3> QED BY <1>1, <1>2, <3>1
  <2>3. OnItsWay(m, g)'
    BY <1>2, <1>3, <2>1, <2>2 DEF OnItsWay
  <2> QED BY <1>1, <1>4, <2>3 DEF s
<1> QED BY <1>5, <1>6

(* The first sync has every setting before its command. *)
LEMMA SettingsWritten ==
  ASSUME IInv, NEW m \in Motor, SyncWrite(m), cycle = 1, toMotor[m] = <<>>, NEW g \in ToSet(Gains)
  PROVE  OnItsWay(m, g)'
<1> DEFINE r == Requested(m)
<1>1. PICK i \in DOMAIN Gains : g = Gains[i]
  BY DEF ToSet
<1>2. pc = "send" /\ at = m /\ r \in Seq(Order(m))
  BY SyncWrites DEF IInv
<1>3. Waiting(m) = Settings(m)
  BY DEF Waiting
<1>4. /\ Len(Settings(m)) = Len(Gains) /\ i \in 1 .. Len(Gains) /\ Len(Gains) \in Nat
      /\ \A k \in 1 .. Len(Gains) : Settings(m)[k] =
           [motor |-> m, dir |-> "set", entry |-> Gains[k], size |-> 7, stamp |-> 0]
  BY SettingsFacts, EntryFacts
<1> HIDE DEF r
<1>5. /\ Len(r) = Len(Gains) + 1 + Len(Obs) /\ Len(Obs) \in Nat
      /\ \A k \in 1 .. Len(Gains) : r[k] =
           [motor |-> m, dir |-> "set", entry |-> Gains[k], size |-> 7, stamp |-> 0]
  <2>1. /\ Len(r) = Len(Settings(m)) + 1 + Len(Obs) /\ Len(Obs) \in Nat
        /\ \A k \in 1 .. Len(Settings(m)) : r[k] = Settings(m)[k]
    BY <1>2, <1>3, RequestedFacts, EntryFacts DEF IInv, r
  <2> QED BY <1>4, <2>1
<1>6. toMotor'[m] = r
  <2>1. toMotor'[m] = <<>> \o r
    BY WrittenFacts DEF r
  <2> QED BY <1>2, <2>1, ConcatEmptySeq
<1>7. /\ i \in 1 .. Len(r) /\ r[i].dir = "set" /\ r[i].entry = g
      /\ \A j \in 1 .. i : r[j].entry # "CmdAngle"
  <2>1. \A k \in 1 .. Len(Gains) : r[k].dir = "set" /\ r[k].entry = Gains[k] /\ Gains[k] # "CmdAngle"
    <3> SUFFICES ASSUME NEW k \in 1 .. Len(Gains)
                 PROVE  r[k].dir = "set" /\ r[k].entry = Gains[k] /\ Gains[k] # "CmdAngle"
      OBVIOUS
    <3>1. r[k] = [motor |-> m, dir |-> "set", entry |-> Gains[k], size |-> 7, stamp |-> 0]
      BY <1>5
    <3>2. Gains[k] # "CmdAngle"
      BY EntryFacts
    <3> QED BY <3>1, <3>2
  <2>2. i \in 1 .. Len(r) /\ i \in 1 .. Len(Gains) /\ \A j \in 1 .. i : j \in 1 .. Len(Gains)
    BY <1>4, <1>5
  <2>3. r[i].dir = "set" /\ r[i].entry = Gains[i]
    BY <2>1, <2>2
  <2>4. \A j \in 1 .. i : r[j].entry # "CmdAngle"
    <3> SUFFICES ASSUME NEW j \in 1 .. i PROVE r[j].entry # "CmdAngle"
      OBVIOUS
    <3>1. j \in 1 .. Len(Gains)
      BY <2>2
    <3> QED BY <2>1, <3>1
  <2> QED BY <1>1, <2>2, <2>3, <2>4
<1> QED BY <1>6, <1>7 DEF OnItsWay

LEMMA SettingsFirstStep ==
  ASSUME IInv, IInv', SettingsFirst, [Next]_vars
  PROVE  SettingsFirst'
<1> SUFFICES ASSUME NEW k \in Motor \ Faulty, NEW g \in ToSet(Gains)
             PROVE  \/ g \in motor'[k]
                    \/ /\ "CmdAngle" \notin motor'[k]
                       /\ \/ ~Sent(k)' /\ toMotor'[k] = <<>>
                          \/ OnItsWay(k, g)'
  BY DEF SettingsFirst
<1>1. \/ g \in motor[k]
      \/ /\ "CmdAngle" \notin motor[k]
         /\ \/ ~Sent(k) /\ toMotor[k] = <<>>
            \/ OnItsWay(k, g)
  BY DEF SettingsFirst
<1>2. /\ toMotor \in [Motor -> Seq(Packet)] /\ toMotor[k] \in Seq(Order(k))
      /\ motor \in [Motor -> SUBSET Entry]
  BY DEF IInv, Lines, Clients
<1>3. ASSUME motor'[k] = motor[k], toMotor'[k] = toMotor[k], Sent(k)' => Sent(k)
      PROVE  \/ g \in motor'[k]
             \/ /\ "CmdAngle" \notin motor'[k]
                /\ \/ ~Sent(k)' /\ toMotor'[k] = <<>>
                   \/ OnItsWay(k, g)'
  BY <1>1, <1>3 DEF OnItsWay
<1>4. CASE SyncWrite(k)
  <2>1. /\ toMotor'[k] = toMotor[k] \o Requested(k) /\ Requested(k) \in Seq(Order(k))
        /\ motor' = motor /\ cycle \in 0 .. MaxCycle /\ pc = "send" /\ at = k
    BY <1>4, WrittenFacts, SyncWrites DEF IInv, SyncWrite
  <2>2. CASE g \in motor[k]
    BY <2>1, <2>2
  <2>3. CASE OnItsWay(k, g)
    BY <1>1, <1>2, <2>1, <2>3, OnItsWayAppended
  <2>4. CASE "CmdAngle" \notin motor[k] /\ ~Sent(k) /\ toMotor[k] = <<>>
    <3>1. cycle > 0
      BY <2>1 DEF IInv, Queues
    <3>2. cycle = 1
      BY <2>1, <2>4, <3>1, MaxCycleAssumption DEF Sent
    <3> QED BY <1>4, <2>1, <2>4, <3>2, SettingsWritten
  <2> QED BY <1>1, <2>2, <2>3, <2>4
<1>5. CASE Handle(k)
  <2> DEFINE p == Head(toMotor[k])
  <2>1. /\ toMotor[k] # <<>> /\ toMotor'[k] = Tail(toMotor[k])
        /\ \/ p.dir = "set" /\ motor'[k] = motor[k] \union {p.entry}
           \/ p.dir = "get" /\ motor'[k] = motor[k]
    BY <1>2, <1>5, HandleFacts DEF IInv
  <2>2. CASE g \in motor[k]
    BY <2>1, <2>2
  <2>3. CASE "CmdAngle" \notin motor[k] /\ OnItsWay(k, g)
    <3>1. /\ p.entry # "CmdAngle"
          /\ (p.dir = "set" /\ p.entry = g) \/ OnItsWay(k, g)'
      BY <1>2, <2>1, <2>3, OnItsWayTaken
    <3> QED BY <2>1, <2>3, <3>1
  <2> QED BY <1>1, <2>1, <2>2, <2>3
<1>6. CASE ~SyncWrite(k) /\ ~Handle(k)
  <2>1. Sent(k)' => Sent(k)
    BY <1>6, SentBySync DEF IInv
  <2>2. ASSUME NEW m \in Motor, SyncWrite(m) PROVE motor'[k] = motor[k] /\ toMotor'[k] = toMotor[k]
    <3>1. toMotor' = [toMotor EXCEPT ![m] = @ \o Requested(m)] /\ motor' = motor
      BY <2>2, SyncWrites DEF IInv, SyncWrite
    <3> QED BY <1>2, <1>6, <2>2, <3>1
  <2>3. ASSUME NEW m \in Motor, Handle(m) PROVE motor'[k] = motor[k] /\ toMotor'[k] = toMotor[k]
    <3>1. /\ toMotor' = [toMotor EXCEPT ![m] = Tail(@)]
          /\ motor' = motor \/ motor' = [motor EXCEPT ![m] = @ \union {Head(toMotor[m]).entry}]
      BY <2>3, HandleFacts DEF IInv
    <3> QED BY <1>2, <1>6, <2>3, <3>1
  <2>4. ASSUME NEW m \in Motor, Lose(m) PROVE motor'[k] = motor[k] /\ toMotor'[k] = toMotor[k]
    BY <1>2, <2>4 DEF Lose
  <2>5. ASSUME NEW m \in Motor, MotSetup(m) \/ SetVal(m) \/ SyncRead(m) \/ SyncParse(m)
        PROVE  motor'[k] = motor[k] /\ toMotor'[k] = toMotor[k]
    BY <2>5 DEF MotSetup, SetVal, SyncRead, SyncParse
  <2>6. ASSUME StartCycle \/ Output PROVE motor'[k] = motor[k] /\ toMotor'[k] = toMotor[k]
    BY <2>6 DEF StartCycle, Output
  <2>7. ASSUME UNCHANGED vars PROVE motor'[k] = motor[k] /\ toMotor'[k] = toMotor[k]
    BY <2>7 DEF vars
  <2>8. motor'[k] = motor[k] /\ toMotor'[k] = toMotor[k]
    BY <2>2, <2>3, <2>4, <2>5, <2>6, <2>7 DEF Next, Loop
  <2> QED BY <1>3, <2>1, <2>8
<1> QED BY <1>4, <1>5, <1>6

(* Whatever the order in which the controllers take what they are sent, a  *)
(* motor whose line is sound has all its settings before it has a command. *)
THEOREM SettingsBeforeCommands == Spec => []ConfiguredBeforeCommanded
<1>1. Init => SettingsFirst
  BY SettingsFirstInit
<1>2. IInv /\ IInv' /\ SettingsFirst /\ [Next]_vars => SettingsFirst'
  BY SettingsFirstStep
<1>3. SettingsFirst => ConfiguredBeforeCommanded
  BY DEF SettingsFirst, ConfiguredBeforeCommanded
<1> QED BY <1>1, <1>2, <1>3, Inductive, PTL DEF Spec
-----------------------------------------------------------------------------
(* p is the last packet in s that is about its entry, and s has none about *)
(* the entry e.                                                            *)
Lasts(s, p) ==
  \E i \in 1 .. Len(s) : s[i] = p /\ \A j \in i + 1 .. Len(s) : s[j].entry # p.entry
Without(s, e) == \A j \in 1 .. Len(s) : s[j].entry # e

LEMMA TailLasts ==
  ASSUME NEW S, NEW s \in Seq(S), s # <<>>, NEW p, Lasts(s, p)
  PROVE  \/ Head(s) = p /\ Without(Tail(s), p.entry)
         \/ Lasts(Tail(s), p)
<1> DEFINE t == Tail(s)
<1>1. /\ Len(t) = Len(s) - 1 /\ Len(s) \in Nat /\ Head(s) = s[1]
      /\ \A i \in 1 .. Len(t) : t[i] = s[i + 1]
  BY HeadTailProperties, LenProperties
<1>2. PICK i \in 1 .. Len(s) : s[i] = p /\ \A j \in i + 1 .. Len(s) : s[j].entry # p.entry
  BY DEF Lasts
<1> HIDE DEF t
<1>3. ASSUME NEW j \in 1 .. Len(t), j + 1 \in i + 1 .. Len(s) PROVE t[j].entry # p.entry
  BY <1>1, <1>2, <1>3
<1>4. CASE i = 1
  <2>1. \A j \in 1 .. Len(t) : j + 1 \in i + 1 .. Len(s)
    BY <1>1, <1>4
  <2>2. Without(t, p.entry)
    BY <1>3, <2>1 DEF Without
  <2> QED BY <1>1, <1>2, <1>4, <2>2 DEF t
<1>5. CASE i # 1
  <2>1. i - 1 \in 1 .. Len(t) /\ t[i - 1] = p
    BY <1>1, <1>2, <1>5
  <2>2. \A j \in (i - 1) + 1 .. Len(t) : j \in 1 .. Len(t) /\ j + 1 \in i + 1 .. Len(s)
    BY <1>1, <1>5
  <2>3. \A j \in (i - 1) + 1 .. Len(t) : t[j].entry # p.entry
    BY <1>3, <2>2
  <2>4. Lasts(t, p)
    BY <2>1, <2>3 DEF Lasts
  <2> QED BY <2>4 DEF t
<1> QED BY <1>4, <1>5

LEMMA TailWithout ==
  ASSUME NEW S, NEW s \in Seq(S), s # <<>>, NEW e, Without(s, e)
  PROVE  Head(s).entry # e /\ Without(Tail(s), e)
<1> DEFINE t == Tail(s)
<1>1. /\ Len(t) = Len(s) - 1 /\ Len(s) \in Nat /\ Len(s) # 0 /\ Head(s) = s[1]
      /\ \A i \in 1 .. Len(t) : t[i] = s[i + 1]
  BY HeadTailProperties, LenProperties, EmptySeq
<1> HIDE DEF t
<1>2. Head(s).entry # e
  BY <1>1 DEF Without
<1>3. ASSUME NEW j \in 1 .. Len(t) PROVE t[j].entry # e
  <2>1. j + 1 \in 1 .. Len(s) /\ t[j] = s[j + 1]
    BY <1>1
  <2> QED BY <2>1 DEF Without
<1>4. Without(t, e)
  BY <1>3 DEF Without
<1> QED BY <1>2, <1>4 DEF t

LEMMA AppendLasts ==
  ASSUME NEW S, NEW s \in Seq(S), NEW q \in S
  PROVE  /\ Lasts(Append(s, q), q)
         /\ \A p : Lasts(s, p) /\ q.entry # p.entry => Lasts(Append(s, q), p)
         /\ \A e : Without(s, e) /\ q.entry # e => Without(Append(s, q), e)
<1> DEFINE t == Append(s, q)
<1>1. /\ Len(t) = Len(s) + 1 /\ Len(s) \in Nat /\ t[Len(s) + 1] = q
      /\ \A i \in 1 .. Len(s) : t[i] = s[i]
  BY AppendProperties, LenProperties
<1> HIDE DEF t
<1>2. Lasts(t, q)
  <2>1. Len(t) \in 1 .. Len(t) /\ t[Len(t)] = q /\ Len(t) + 1 .. Len(t) = {}
    BY <1>1
  <2> QED BY <2>1 DEF Lasts
<1>3. ASSUME NEW p, Lasts(s, p), q.entry # p.entry PROVE Lasts(t, p)
  <2>1. PICK i \in 1 .. Len(s) : s[i] = p /\ \A j \in i + 1 .. Len(s) : s[j].entry # p.entry
    BY <1>3 DEF Lasts
  <2>2. i \in 1 .. Len(t) /\ t[i] = p
    BY <1>1, <2>1
  <2>3. ASSUME NEW j \in i + 1 .. Len(t) PROVE t[j].entry # p.entry
    <3>1. CASE j = Len(t)
      BY <1>1, <1>3, <3>1
    <3>2. CASE j # Len(t)
      <4>1. j \in i + 1 .. Len(s) /\ j \in 1 .. Len(s)
        BY <1>1, <3>2
      <4> QED BY <1>1, <2>1, <4>1
    <3> QED BY <3>1, <3>2
  <2> QED BY <2>2, <2>3 DEF Lasts
<1>4. ASSUME NEW e, Without(s, e), q.entry # e PROVE Without(t, e)
  <2> SUFFICES ASSUME NEW j \in 1 .. Len(t) PROVE t[j].entry # e
    BY DEF Without
  <2>1. j = Len(s) + 1 \/ j \in 1 .. Len(s)
    BY <1>1
  <2> QED BY <1>1, <1>4, <2>1 DEF Without
<1> QED BY <1>2, <1>3, <1>4 DEF t

LEMMA JoinedLasts ==
  ASSUME NEW S, NEW s \in Seq(S), NEW r \in Seq(S), NEW p, Lasts(r, p)
  PROVE  Lasts(s \o r, p)
<1> DEFINE t == s \o r
<1>1. /\ Len(t) = Len(s) + Len(r) /\ Len(s) \in Nat /\ Len(r) \in Nat
      /\ \A i \in 1 .. Len(r) : t[Len(s) + i] = r[i]
  BY Joined
<1>2. PICK i \in 1 .. Len(r) : r[i] = p /\ \A j \in i + 1 .. Len(r) : r[j].entry # p.entry
  BY DEF Lasts
<1> HIDE DEF t
<1>3. Len(s) + i \in 1 .. Len(t) /\ t[Len(s) + i] = p
  BY <1>1, <1>2
<1>4. ASSUME NEW j \in (Len(s) + i) + 1 .. Len(t) PROVE t[j].entry # p.entry
  <2>1. j - Len(s) \in i + 1 .. Len(r) /\ j - Len(s) \in 1 .. Len(r) /\ Len(s) + (j - Len(s)) = j
    BY <1>1
  <2> QED BY <1>1, <1>2, <2>1
<1>5. Lasts(t, p)
  BY <1>3, <1>4 DEF Lasts
<1> QED BY <1>5 DEF t

LEMMA SplitLasts ==
  ASSUME NEW S, NEW s \in Seq(S), NEW k \in 0 .. Len(s), NEW p, Lasts(s, p)
  PROVE  \/ Lasts(SubSeq(s, k + 1, Len(s)), p)
         \/ Without(SubSeq(s, k + 1, Len(s)), p.entry) /\ Lasts(SubSeq(s, 1, k), p)
<1> DEFINE a == SubSeq(s, 1, k)
           b == SubSeq(s, k + 1, Len(s))
<1>1. /\ Len(a) = k /\ Len(b) = Len(s) - k /\ Len(s) \in Nat /\ k \in Nat /\ k <= Len(s)
      /\ \A i \in 1 .. k : a[i] = s[i]
      /\ \A i \in 1 .. Len(s) - k : b[i] = s[k + i]
  BY Split, LenProperties
<1>2. PICK i \in 1 .. Len(s) : s[i] = p /\ \A j \in i + 1 .. Len(s) : s[j].entry # p.entry
  BY DEF Lasts
<1> HIDE DEF a, b
<1>3. CASE i <= k
  <2>1. i \in 1 .. Len(a) /\ a[i] = p
    BY <1>1, <1>2, <1>3
  <2>2. ASSUME NEW j \in i + 1 .. Len(a) PROVE a[j].entry # p.entry
    <3>1. j \in i + 1 .. Len(s) /\ j \in 1 .. k
      BY <1>1
    <3> QED BY <1>1, <1>2, <3>1
  <2>3. ASSUME NEW j \in 1 .. Len(b) PROVE b[j].entry # p.entry
    <3>1. k + j \in i + 1 .. Len(s) /\ b[j] = s[k + j]
      BY <1>1, <1>3
    <3> QED BY <1>2, <3>1
  <2>4. Lasts(a, p) /\ Without(b, p.entry)
    BY <2>1, <2>2, <2>3 DEF Lasts, Without
  <2> QED BY <2>4 DEF a, b
<1>4. CASE ~(i <= k)
  <2>1. i - k \in 1 .. Len(b) /\ b[i - k] = s[k + (i - k)] /\ k + (i - k) = i
    BY <1>1, <1>4
  <2>2. ASSUME NEW j \in (i - k) + 1 .. Len(b) PROVE b[j].entry # p.entry
    <3>1. k + j \in i + 1 .. Len(s) /\ b[j] = s[k + j]
      BY <1>1, <1>4
    <3> QED BY <1>2, <3>1
  <2>3. Lasts(b, p)
    BY <1>2, <2>1, <2>2 DEF Lasts
  <2> QED BY <2>3 DEF b
<1> QED BY <1>3, <1>4
-----------------------------------------------------------------------------
(* Where the last motor's answer about e to this cycle's request is, once  *)
(* the request is written: asked for, answered, read, or stored; and what  *)
(* comes behind it on its way is not about e.                              *)
Answered(e) == Reply(N, e, 7, cycle)

Current(e) ==
  \/ Lasts(toMotor[N], Get(N, e))
  \/ /\ Without(toMotor[N], e)
     /\ \/ Lasts(fromMotor[N], Answered(e))
        \/ /\ Without(fromMotor[N], e)
           /\ \/ pc = "parse" /\ Lasts(Received, Answered(e))
              \/ pc \in {"output", "cycle"} /\ owner # 0 /\ value[owner][e] = Answered(e)

Due ==
  \/ pc = "output"
  \/ pc = "cycle" /\ cycle > 0
  \/ pc \in {"read", "parse"} /\ at = N

AnswersCurrent == N \notin Faulty /\ Due => \A e \in ObsEntry : Current(e)

(* A request for every entry ends what the sync of the motor writes.       *)
LEMMA RequestsLast ==
  ASSUME IInv, NEW m \in Motor, SyncWrite(m), NEW e \in ObsEntry
  PROVE  Lasts(Requested(m), Get(m, e))
<1> DEFINE r == Requested(m)
           n == Len(Waiting(m))
           S == {i \in 1 .. Len(Obs) : Obs[i] = e}
<1>1. pc = "send" /\ at = m /\ cycle \in 0 .. MaxCycle
  BY SyncWrites DEF IInv
<1>2. n \in Nat /\ Len(Obs) \in Nat
  BY <1>1, CommandedFacts, LenProperties, EntryFacts
<1>3. /\ Len(r) = n + 1 + Len(Obs)
      /\ \A k \in 1 .. Len(Obs) : r[n + 1 + k] = Get(m, Obs[k])
  BY <1>1, RequestedFacts DEF IInv
<1>4. S # {} /\ S \subseteq 1 .. Len(Obs)
  BY EntryFacts DEF ObsEntry, ToSet
<1>5. Max(S) \in S /\ \A y \in S : y <= Max(S)
  BY <1>2, <1>4, HasMax
<1> DEFINE i == Max(S)
<1>6. /\ i \in 1 .. Len(Obs) /\ Obs[i] = e
      /\ \A k \in i + 1 .. Len(Obs) : Obs[k] # e
  <2> HIDE DEF i
  <2>1. i \in S /\ \A y \in S : y <= i
    BY <1>5 DEF i
  <2>2. ASSUME NEW k \in i + 1 .. Len(Obs) PROVE Obs[k] # e
    BY <1>2, <2>1
  <2> QED BY <2>1, <2>2
<1> HIDE DEF r, n, i
<1>7. n + 1 + i \in 1 .. Len(r) /\ r[n + 1 + i] = Get(m, e)
  BY <1>2, <1>3, <1>6
<1>8. ASSUME NEW j \in (n + 1 + i) + 1 .. Len(r) PROVE r[j].entry # Get(m, e).entry
  <2> DEFINE k == j - (n + 1)
  <2>1. k \in i + 1 .. Len(Obs) /\ k \in 1 .. Len(Obs) /\ n + 1 + k = j
    BY <1>2, <1>3, <1>6
  <2> HIDE DEF k
  <2>2. r[j] = Get(m, Obs[k]) /\ Obs[k] # e
    BY <1>3, <1>6, <2>1
  <2> QED BY <2>2 DEF Get
<1>9. Lasts(r, Get(m, e))
  BY <1>7, <1>8 DEF Lasts
<1> QED BY <1>9 DEF r

LEMMA ReadAgain ==
  ASSUME buffer \in Seq(Packet), NEW packets \in Seq(Packet)
  PROVE  SubSeq(Overwrite(packets), 1, Len(packets)) = packets
<1> DEFINE o == Overwrite(packets)
           u == SubSeq(o, 1, Len(packets))
<1>1. /\ o \in Seq(Packet) /\ Len(packets) \in 0 .. Len(o)
      /\ \A k \in 1 .. Len(packets) : o[k] = packets[k]
  BY Overwritten
<1> HIDE DEF o
<1>2. /\ u \in Seq(Packet) /\ Len(u) = Len(packets)
      /\ \A k \in 1 .. Len(packets) : u[k] = o[k]
  BY <1>1, Split
<1> HIDE DEF u
<1>3. u = packets
  BY <1>1, <1>2, SeqEqual
<1> QED BY <1>3 DEF u, o

(* Of a last packet that is a sound answer the client keeps the value.     *)
LEMMA LatestIsLast ==
  ASSUME IInv, NEW e \in ObsEntry, Lasts(Received, Answered(e))
  PROVE  LatestOf(e) = <<Answered(e)>>
<1> DEFINE p == Answered(e)
<1>1. /\ Received \in Seq(Packet) /\ Len(Received) = length /\ length \in Nat
      /\ DOMAIN Received = 1 .. length
  BY ReceivedFacts, LenProperties DEF IInv, Lines
<1>2. PICK i \in 1 .. length :
        Received[i] = p /\ \A j \in i + 1 .. length : Received[j].entry # p.entry
  BY <1>1 DEF Lasts
<1>3. Accepted(p) /\ p.entry = e
  BY DEF Accepted, Answered, Reply
<1> HIDE DEF p
<1>4. i \in Answers(e)
  BY <1>1, <1>2, <1>3 DEF Answers
<1>5. PICK k \in Answers(e) : /\ LatestOf(e) = <<Received[k]>>
                              /\ \A j \in Answers(e) : j <= k
  BY <1>4, LatestFacts DEF IInv, Lines
<1>6. k \in 1 .. length /\ Received[k].entry = e /\ i <= k
  BY <1>1, <1>4, <1>5 DEF Answers
<1>7. k = i
  BY <1>1, <1>2, <1>3, <1>6
<1> QED BY <1>2, <1>5, <1>7 DEF p

LEMMA AnswersCurrentStep ==
  ASSUME IInv, IInv', AnswersCurrent, [Next]_vars
  PROVE  AnswersCurrent'
<1> SUFFICES ASSUME N \notin Faulty, Due', NEW e \in ObsEntry
             PROVE  Current(e)'
  BY DEF AnswersCurrent
<1> DEFINE g == Get(N, e)
           a == Answered(e)
<1>1. /\ toMotor \in [Motor -> Seq(Packet)] /\ fromMotor \in [Motor -> Seq(Packet)]
      /\ buffer \in Seq(Packet) /\ N \in Motor
      /\ toMotor[N] \in Seq(Packet) /\ fromMotor[N] \in Seq(Packet)
  BY NAssumption DEF IInv, Lines, Motor
<1>2. cycle' = cycle => g' = g /\ a' = a
  BY DEF Get, Answered, Reply
<1>3. g.entry = e /\ a.entry = e
  BY DEF Get, Answered, Reply
<1>4. Due => Current(e)
  BY DEF AnswersCurrent
<1>5. ASSUME NEW m \in Motor, MotSetup(m) \/ SetVal(m) PROVE FALSE
  <2>1. CASE MotSetup(m)
    <3>1. pc = "setup" /\ cycle' = cycle /\ pc' \in {"setup", "cycle"}
      BY <2>1 DEF MotSetup
    <3>2. cycle = 0
      BY <3>1 DEF IInv, Queues
    <3> QED BY <3>1, <3>2 DEF Due
  <2>2. CASE SetVal(m)
    <3>1. pc' \in {"set", "send"}
      BY <2>2 DEF SetVal
    <3> QED BY <3>1 DEF Due
  <2> QED BY <1>5, <2>1, <2>2
<1>6. ASSUME StartCycle PROVE FALSE
  BY <1>6 DEF StartCycle, Due
<1>7. ASSUME NEW m \in Motor, SyncWrite(m) PROVE Current(e)'
  <2>1. pc' = "read" /\ at' = m /\ cycle' = cycle /\ Requested(m) \in Seq(Order(m))
    BY <1>7, SyncWrites DEF IInv, SyncWrite
  <2>2. m = N
    BY <2>1 DEF Due
  <2>3. Lasts(Requested(N), g)
    BY <1>7, <2>2, RequestsLast
  <2>4. toMotor'[N] = toMotor[N] \o Requested(N)
    BY <1>7, <2>2, WrittenFacts
  <2>5. toMotor[N] \in Seq(Order(N)) /\ Requested(N) \in Seq(Order(N))
    BY <1>1, <2>1, <2>2 DEF IInv, Lines
  <2> HIDE DEF g
  <2>6. Lasts(toMotor[N] \o Requested(N), g)
    BY <2>3, <2>5, JoinedLasts
  <2>7. Lasts(toMotor'[N], g')
    BY <1>2, <2>1, <2>4, <2>6
  <2> QED BY <2>7 DEF Current, g
<1>8. ASSUME NEW m \in Motor, SyncRead(m) PROVE Current(e)'
  <2>1. PICK k \in 0 .. Len(fromMotor[m]) :
          /\ buffer' = Overwrite(SubSeq(fromMotor[m], 1, k)) /\ length' = k
          /\ fromMotor' = [fromMotor EXCEPT ![m] = SubSeq(@, k + 1, Len(@))]
    BY <1>8 DEF SyncRead
  <2>2. pc = "read" /\ pc' = "parse" /\ at = m /\ at' = m /\ cycle' = cycle /\ toMotor' = toMotor
    BY <1>8 DEF SyncRead
  <2>3. m = N /\ Due
    BY <2>2 DEF Due
  <2> DEFINE r == SubSeq(fromMotor[N], 1, k)
             s == SubSeq(fromMotor[N], k + 1, Len(fromMotor[N]))
  <2>4. k \in 0 .. Len(fromMotor[N]) /\ fromMotor'[N] = s /\ buffer' = Overwrite(r) /\ length' = k
    BY <1>1, <2>1, <2>3
  <2>5. r \in Seq(Packet) /\ Len(r) = k
    BY <1>1, <2>4, Split
  <2>6. Received' = r
    <3>1. SubSeq(Overwrite(r), 1, Len(r)) = r
      BY <1>1, <2>5, ReadAgain
    <3> HIDE DEF r
    <3> QED BY <2>4, <2>5, <3>1 DEF Received
  <2> HIDE DEF g, a
  <2>7. \/ Lasts(toMotor[N], g)
        \/ Without(toMotor[N], e) /\ Lasts(fromMotor[N], a)
    BY <1>4, <2>2, <2>3 DEF Current, g, a
  <2>8. ASSUME Lasts(fromMotor[N], a)
        PROVE  Lasts(s, a) \/ (Without(s, e) /\ Lasts(r, a))
    BY <1>1, <1>3, <2>4, <2>8, SplitLasts
  <2> HIDE DEF r, s
  <2>9. \/ Lasts(toMotor'[N], g')
        \/ /\ Without(toMotor'[N], e)
           /\ \/ Lasts(fromMotor'[N], a')
              \/ Without(fromMotor'[N], e) /\ Lasts(Received', a')
    BY <1>2, <2>2, <2>4, <2>6, <2>7, <2>8
  <2> QED BY <2>2, <2>9 DEF Current, g, a
<1>9. ASSUME NEW m \in Motor, SyncParse(m) PROVE Current(e)'
  <2>1. /\ pc = "parse" /\ at = m /\ cycle' = cycle
        /\ toMotor' = toMotor /\ fromMotor' = fromMotor
        /\ IF m < N THEN at' = m + 1 /\ pc' = "send" ELSE at' = 1 /\ pc' = "output"
    BY <1>9 DEF SyncParse, NextMotor
  <2>2. m = N /\ Due /\ pc' = "output"
    BY <2>1, Places DEF Due
  <2> DEFINE o == EntryOwner(N)
  <2>3. /\ owner' = IF Received = <<>> THEN owner ELSE o
        /\ value' = [value EXCEPT ![o] =
             [d \in ObsEntry |-> IF LatestOf(d) = <<>> THEN @[d] ELSE LatestOf(d)[1]]]
    BY <1>9, <2>2 DEF SyncParse
  <2>4. o \in Motor /\ o # 0 /\ value \in [Motor -> [ObsEntry -> Packet \union {None}]]
    BY NAssumption DEF IInv, Clients, EntryOwner, Motor
  <2> HIDE DEF g, a, o
  <2>5. \/ Lasts(toMotor[N], g)
        \/ /\ Without(toMotor[N], e)
           /\ \/ Lasts(fromMotor[N], a)
              \/ Without(fromMotor[N], e) /\ Lasts(Received, a)
    BY <1>4, <2>1, <2>2 DEF Current, g, a
  <2>6. ASSUME Lasts(Received, a) PROVE owner' # 0 /\ value'[owner'][e] = a
    <3>1. LatestOf(e) = <<a>>
      BY <2>6, LatestIsLast DEF a
    <3>2. Received # <<>>
      <4>1. Len(<<>>) = 0
        OBVIOUS
      <4>2. ~Lasts(<<>>, a)
        BY <4>1 DEF Lasts
      <4> QED BY <2>6, <4>2
    <3>3. value'[o][e] = a
      <4> DEFINE V == [d \in ObsEntry |-> IF LatestOf(d) = <<>> THEN value[o][d] ELSE LatestOf(d)[1]]
      <4>1. V[e] = a
        BY <3>1
      <4>2. value' = [value EXCEPT ![o] = V]
        BY <2>3
      <4> HIDE DEF V
      <4> QED BY <2>4, <4>1, <4>2
    <3> QED BY <2>3, <2>4, <3>2, <3>3
  <2>7. \/ Lasts(toMotor'[N], g')
        \/ /\ Without(toMotor'[N], e)
           /\ \/ Lasts(fromMotor'[N], a')
              \/ Without(fromMotor'[N], e) /\ owner' # 0 /\ value'[owner'][e] = a'
    BY <1>2, <2>1, <2>5, <2>6
  <2> QED BY <2>2, <2>7 DEF Current, g, a
<1>10. CASE Output
  <2>1. /\ pc = "output" /\ pc' = "cycle" /\ cycle' = cycle
        /\ UNCHANGED <<toMotor, fromMotor, owner, value>>
    BY <1>10 DEF Output
  <2>2. Due
    BY <2>1 DEF Due
  <2> QED BY <1>2, <1>4, <2>1, <2>2 DEF Current
<1>11. ASSUME UNCHANGED <<buffer, length, owner, value, pc, at, cycle>>,
              toMotor'[N] = toMotor[N], fromMotor'[N] = fromMotor[N]
       PROVE  Current(e)'
  <2>1. Due /\ Received' = Received
    BY <1>11 DEF Due, Received
  <2> QED BY <1>2, <1>4, <1>11, <2>1 DEF Current
<1>12. ASSUME NEW m \in Motor, Lose(m) PROVE Current(e)'
  <2>1. /\ m # N /\ UNCHANGED <<buffer, length, owner, value, pc, at, cycle>>
        /\ toMotor' = toMotor \/ toMotor' = [toMotor EXCEPT ![m] = Tail(@)]
        /\ fromMotor' = fromMotor \/ fromMotor' = [fromMotor EXCEPT ![m] = Tail(@)]
    BY <1>12 DEF Lose, loop
  <2> QED BY <1>1, <1>11, <2>1
<1>13. ASSUME NEW m \in Motor, m # N, Handle(m) PROVE Current(e)'
  <2>1. /\ UNCHANGED <<buffer, length, owner, value, pc, at, cycle>>
        /\ toMotor' = [toMotor EXCEPT ![m] = Tail(@)]
        /\ \/ fromMotor' = fromMotor
           \/ \E r \in Answer(m) : fromMotor' = [fromMotor EXCEPT ![m] = Append(@, r)]
    BY <1>13, HandleFacts DEF IInv, Handle, loop
  <2> QED BY <1>1, <1>11, <1>13, <2>1
<1>14. CASE Handle(N)
  <2> DEFINE p == Head(toMotor[N])
             r == Reply(N, p.entry, 7, p.stamp)
  <2>1. /\ UNCHANGED <<buffer, length, owner, value, pc, at, cycle>>
        /\ toMotor[N] # <<>> /\ p \in Order(N)
        /\ toMotor'[N] = Tail(toMotor[N])
        /\ \/ p.dir = "set" /\ fromMotor'[N] = fromMotor[N]
           \/ /\ p.dir = "get" /\ r \in Packet
              /\ fromMotor'[N] = Append(fromMotor[N], r)
    <3>1. /\ toMotor[N] # <<>> /\ p \in Order(N) /\ toMotor' = [toMotor EXCEPT ![N] = Tail(@)]
          /\ \/ p.dir = "set" /\ fromMotor' = fromMotor
             \/ /\ p.dir = "get" /\ r \in Answer(N)
                /\ fromMotor' = [fromMotor EXCEPT ![N] = Append(@, r)]
      BY <1>1, <1>14, HandleFacts DEF IInv
    <3>2. UNCHANGED <<buffer, length, owner, value, pc, at, cycle>>
      BY <1>14 DEF Handle, loop
    <3>3. Answer(N) \subseteq Packet
      BY <1>1, PacketSets
    <3> HIDE DEF p, r
    <3> QED BY <1>1, <3>1, <3>2, <3>3
  <2>2. Due /\ Received' = Received
    BY <2>1 DEF Due, Received
  <2>3. p = g => r = a /\ p.dir = "get"
    BY DEF Get, Answered, Reply
  <2>4. r.entry = p.entry
    BY DEF Reply
  <2> HIDE DEF g, a, p, r
  <2>5. ASSUME Lasts(toMotor[N], g)
        PROVE  \/ p = g /\ Without(Tail(toMotor[N]), e)
               \/ Lasts(Tail(toMotor[N]), g)
    BY <1>1, <1>3, <2>1, <2>5, TailLasts DEF p
  <2>6. ASSUME Without(toMotor[N], e)
        PROVE  p.entry # e /\ Without(Tail(toMotor[N]), e)
    BY <1>1, <2>1, <2>6, TailWithout DEF p
  <2>7. ASSUME p = g PROVE Lasts(fromMotor'[N], a)
    <3>1. fromMotor'[N] = Append(fromMotor[N], r) /\ r = a /\ r \in Packet
      BY <2>1, <2>3, <2>7
    <3>2. Lasts(Append(fromMotor[N], r), r)
      BY <1>1, <3>1, AppendLasts, Zenon
    <3> QED BY <3>1, <3>2
  <2>8. ASSUME p.entry # e
        PROVE  /\ Lasts(fromMotor[N], a) => Lasts(fromMotor'[N], a)
               /\ Without(fromMotor[N], e) => Without(fromMotor'[N], e)
    <3>1. CASE fromMotor'[N] = fromMotor[N]
      BY <3>1
    <3>2. CASE r \in Packet /\ fromMotor'[N] = Append(fromMotor[N], r)
      <4>1. r.entry # e /\ a.entry = e
        BY <1>3, <2>4, <2>8
      <4>2. /\ Lasts(fromMotor[N], a) /\ r.entry # a.entry => Lasts(Append(fromMotor[N], r), a)
            /\ Without(fromMotor[N], e) /\ r.entry # e => Without(Append(fromMotor[N], r), e)
        BY <1>1, <3>2, AppendLasts, Zenon
      <4> QED BY <3>2, <4>1, <4>2
    <3> QED BY <2>1, <3>1, <3>2
  <2>9. Current(e)
    BY <1>4, <2>2
  <2>10. CASE Lasts(toMotor[N], g)
    <3>1. Lasts(toMotor'[N], g) \/ (Without(toMotor'[N], e) /\ Lasts(fromMotor'[N], a))
      BY <2>1, <2>5, <2>7, <2>10
    <3> QED BY <1>2, <2>1, <3>1 DEF Current, g, a
  <2>11. CASE ~Lasts(toMotor[N], g)
    <3>1. /\ Without(toMotor[N], e)
          /\ \/ Lasts(fromMotor[N], a)
             \/ /\ Without(fromMotor[N], e)
                /\ \/ pc = "parse" /\ Lasts(Received, a)
                   \/ pc \in {"output", "cycle"} /\ owner # 0 /\ value[owner][e] = a
      BY <2>9, <2>11 DEF Current, g, a
    <3>2. /\ Without(toMotor'[N], e)
          /\ Lasts(fromMotor[N], a) => Lasts(fromMotor'[N], a)
          /\ Without(fromMotor[N], e) => Without(fromMotor'[N], e)
      BY <2>1, <2>6, <2>8, <3>1
    <3> QED BY <1>2, <2>1, <2>2, <3>1, <3>2 DEF Current, g, a
  <2> QED BY <2>10, <2>11
<1>15. CASE UNCHANGED vars
  BY <1>11, <1>15 DEF vars, loop
<1> QED BY <1>5, <1>6, <1>7, <1>8, <1>9, <1>10, <1>12, <1>13, <1>14, <1>15 DEF Next, Loop

(* The loop loses no reply of the motor that is read last in a cycle,      *)
(* however late its controller answers and whatever the other motors and   *)
(* their lines do: when nothing is under way any more, the entries hold    *)
(* its answers to the requests of this very cycle.                         *)
THEOREM NoReplyLost == Spec => []QuietMeansCurrent
<1>1. Init => AnswersCurrent
  BY DEF Init, AnswersCurrent, Due
<1>2. IInv /\ IInv' /\ AnswersCurrent /\ [Next]_vars => AnswersCurrent'
  BY AnswersCurrentStep
<1>3. ASSUME IInv, AnswersCurrent PROVE QuietMeansCurrent
  <2> SUFFICES ASSUME N \notin Faulty, pc = "cycle", cycle > 0,
                      toMotor[N] = <<>>, fromMotor[N] = <<>>, NEW e \in ObsEntry
               PROVE  /\ value[owner][e] # None /\ value[owner][e].motor = N
                      /\ value[owner][e].stamp = cycle
    BY DEF QuietMeansCurrent
  <2>1. Current(e)
    BY <1>3 DEF AnswersCurrent, Due
  <2>2. \A p : ~Lasts(<<>>, p)
    BY EmptySeq DEF Lasts
  <2>3. value[owner][e] = Answered(e)
    BY <2>1, <2>2 DEF Current
  <2>4. /\ Answered(e).motor = N /\ Answered(e).stamp = cycle
        /\ Answered(e) # None
    <3>1. Answered(e).motor = N /\ Answered(e).stamp = cycle
      BY DEF Answered, Reply
    <3>2. None.motor = 0 /\ N # 0
      BY NAssumption DEF None
    <3> QED BY <3>1, <3>2
  <2> QED BY <2>3, <2>4
<1> QED BY <1>1, <1>2, <1>3, Inductive, PTL DEF Spec
=============================================================================
