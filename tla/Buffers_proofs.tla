--------------------------- MODULE Buffers_proofs ---------------------------
(***************************************************************************)
(* Proofs about the byte buffers.  ByteQueue, for every array size and set *)
(* of bytes: the inductive invariant, and the refinement of the bounded    *)
(* FIFO queue.  BipBuffer, for every array size, byte set and call size:   *)
(* its three invariants are only inductive together, for where a commit    *)
(* puts its bytes is decided by ReservationApart, and that a reservation   *)
(* stays apart from the data by RegionsOrdered.  With them the two regions *)
(* are one stream, and every call a step of StagedFifo.                    *)
(***************************************************************************)
EXTENDS ByteQueue, BipBuffer, SequenceTheorems, TLAPS

(* The invariant is inductive as it stands: the counter and the pointers   *)
(* move together.                                                          *)
QueueInv == QueueTypeOK /\ CountMatchesPointers

-----------------------------------------------------------------------------
(* Advancing an index stays in the array and moves it one cell round.      *)
LEMMA AdvanceInIndex ==
  ASSUME NEW i \in Index
  PROVE  /\ Advance(i) \in Index
         /\ Advance(i) = IF i + 1 = DataSize THEN 0 ELSE i + 1
BY DataSizeAssumption DEF Index, LastIndex, Advance

(* A put that is not refused keeps the counter equal to the distance of    *)
(* the pointers, and so does a get.                                        *)
LEMMA PutKeepsQueueInv ==
  ASSUME QueueInv, NEW item \in Item, Put(item)
  PROVE  QueueInv'
<1>1. CASE PutRefused(bq)
  BY <1>1 DEF QueueInv, QueueTypeOK, CountMatchesPointers, Occupied, Put, PutByteBQ
<1>2. CASE ~PutRefused(bq)
  <2> DEFINE e == bq.end
  <2>1. bq' = [bq EXCEPT !.data[e] = item, !.end = Advance(e), !.count = @ + 1]
    BY <1>2 DEF Put, PutByteBQ
  <2>2. bq \in ByteQueue /\ e \in Index /\ bq.start \in Index /\ bq.count \in Nat
    BY DEF QueueInv, QueueTypeOK, ByteQueue
  <2>3. bq'.end = Advance(e) /\ bq'.start = bq.start /\ bq'.count = bq.count + 1
    BY <2>1, <2>2 DEF ByteQueue
  <2>4. bq' \in ByteQueue
    <3>1. bq.data \in [Index -> Item]
      BY <2>2 DEF ByteQueue
    <3>2. [bq.data EXCEPT ![e] = item] \in [Index -> Item]
      BY <2>2, <3>1
    <3>3. bq' = [data |-> [bq.data EXCEPT ![e] = item], start |-> bq.start,
                 end |-> Advance(e), count |-> bq.count + 1]
      BY <2>1, <2>2 DEF ByteQueue
    <3> QED BY <2>2, <3>2, <3>3, AdvanceInIndex DEF ByteQueue
  <2>5. QueueTypeOK'
    BY <1>2, <2>4 DEF QueueTypeOK, Put
  <2>6. CountMatchesPointers'
    BY <1>2, <2>2, <2>3, AdvanceInIndex, DataSizeAssumption
       DEF QueueInv, CountMatchesPointers, Occupied, PutRefused, Index, LastIndex
  <2> QED BY <2>5, <2>6 DEF QueueInv
<1> QED BY <1>1, <1>2

LEMMA GetKeepsQueueInv ==
  ASSUME QueueInv, Get
  PROVE  QueueInv'
<1>1. ret' \in Item \cup {0, 1}
  BY DEF QueueInv, QueueTypeOK, Get, PeekByteBQ, ByteQueue
<1>2. CASE IsEmptyBQ(bq)
  BY <1>1, <1>2 DEF QueueInv, QueueTypeOK, CountMatchesPointers, Occupied, Get, GetByteBQ
<1>3. CASE ~IsEmptyBQ(bq)
  <2> DEFINE s == bq.start
  <2>1. bq' = [bq EXCEPT !.start = Advance(s), !.count = @ - 1]
    BY <1>3 DEF Get, GetByteBQ
  <2>2. bq \in ByteQueue /\ s \in Index /\ bq.end \in Index /\ bq.count \in Nat
    BY DEF QueueInv, QueueTypeOK, ByteQueue
  <2>3. bq'.start = Advance(s) /\ bq'.end = bq.end /\ bq'.count = bq.count - 1
    BY <2>1, <2>2 DEF ByteQueue
  <2>4. bq.count - 1 \in Nat
    BY <1>3, <2>2, DataSizeAssumption
       DEF QueueInv, CountMatchesPointers, Occupied, IsEmptyBQ, Index
  <2>5. bq' \in ByteQueue
    BY <2>1, <2>2, <2>4, AdvanceInIndex DEF ByteQueue
  <2>6. CountMatchesPointers'
    BY <1>3, <2>2, <2>3, AdvanceInIndex, DataSizeAssumption
       DEF QueueInv, CountMatchesPointers, Occupied, IsEmptyBQ, Index
  <2> QED BY <1>1, <2>5, <2>6 DEF QueueInv, QueueTypeOK
<1> QED BY <1>2, <1>3

-----------------------------------------------------------------------------
(* In every reachable state the pointers are cells of the array and the    *)
(* counter is the number of cells between them.                            *)
THEOREM Invariance == QueueSpec => [](QueueTypeOK /\ CountMatchesPointers)
<1>1. QueueInit => QueueInv
  BY DataSizeAssumption
     DEF QueueInit, QueueInv, QueueTypeOK, CountMatchesPointers, Occupied, InitBQ, ByteQueue, Index
<1>2. QueueInv /\ [QueueNext]_queueVars => QueueInv'
  <2> SUFFICES ASSUME QueueInv, [QueueNext]_queueVars PROVE QueueInv'
    OBVIOUS
  <2>1. CASE Get
    BY <2>1, GetKeepsQueueInv
  <2>2. ASSUME NEW item \in Item, Put(item) PROVE QueueInv'
    BY <2>2, PutKeepsQueueInv
  <2>3. CASE UNCHANGED queueVars
    BY <2>3 DEF queueVars, QueueInv, QueueTypeOK, CountMatchesPointers, Occupied
  <2> QED BY <2>1, <2>2, <2>3 DEF QueueNext
<1> QED BY <1>1, <1>2, PTL DEF QueueSpec, QueueInv

(* A put is refused, and IsFullBQ answers yes, exactly with DataSize - 1   *)
(* bytes queued, wherever in the array the queue has got to.               *)
LEMMA QueueInvImpliesFull == QueueInv => FullIffCapacity
BY DataSizeAssumption
   DEF QueueInv, QueueTypeOK, CountMatchesPointers, Occupied, FullIffCapacity, IsFullBQ,
       PutRefused, CountBQ, ByteQueue, Index, LastIndex

THEOREM FullExactlyAtCapacity == QueueSpec => []FullIffCapacity
<1>1. QueueInv => FullIffCapacity
  BY QueueInvImpliesFull
<1> QED BY <1>1, Invariance, PTL DEF QueueInv
-----------------------------------------------------------------------------
(* The struct as the sequence of its queued bytes.                         *)
ContentsShape ==
  /\ Contents \in Seq(Item)
  /\ Len(Contents) = bq.count
  /\ bq.count \in 0 .. DataSize - 1
  /\ \A k \in 1 .. bq.count : Contents[k] = bq.data[Nth(k - 1)]

LEMMA ContentsIsSeq == QueueInv => ContentsShape
<1> SUFFICES ASSUME QueueInv PROVE ContentsShape
  OBVIOUS
<1>1. bq.count \in 0 .. DataSize - 1
  BY DataSizeAssumption
     DEF QueueInv, QueueTypeOK, ByteQueue, CountMatchesPointers, Occupied, Index
<1>2. ASSUME NEW k \in 1 .. bq.count PROVE bq.data[Nth(k - 1)] \in Item
  <2>1. Nth(k - 1) \in Index
    BY <1>1, DataSizeAssumption DEF QueueInv, QueueTypeOK, ByteQueue, Nth, Index, LastIndex
  <2> QED BY <2>1 DEF QueueInv, QueueTypeOK, ByteQueue
<1>3. Contents \in [1 .. bq.count -> Item]
  BY <1>2 DEF Contents
<1>4. Contents \in Seq(Item) /\ Len(Contents) = bq.count
  BY <1>1, <1>3
<1> QED BY <1>1, <1>4 DEF Contents, ContentsShape

(* A successful put writes the cell after the newest byte, so the queued   *)
(* bytes are the old ones with the item appended.                          *)
LEMMA PutAppends ==
  ASSUME QueueInv, QueueInv', NEW item \in Item, Put(item), ~PutRefused(bq)
  PROVE  Contents' = Append(Contents, item)
<1> DEFINE n == bq.count
           e == bq.end
<1>1. /\ bq \in ByteQueue /\ bq' \in ByteQueue
      /\ bq' = [bq EXCEPT !.data[e] = item, !.end = Advance(e), !.count = @ + 1]
  BY DEF QueueInv, QueueTypeOK, Put, PutByteBQ
<1>2. /\ bq'.data = [bq.data EXCEPT ![e] = item]
      /\ bq'.start = bq.start
      /\ bq'.count = n + 1
      /\ bq.data \in [Index -> Item]
      /\ e \in Index /\ bq.start \in Index /\ n \in Nat
  BY <1>1 DEF ByteQueue
<1>3. n + 1 <= DataSize - 1
  BY <1>2, ContentsIsSeq, QueueInvImpliesFull, DataSizeAssumption DEF ContentsShape, FullIffCapacity, CountBQ
<1>4. Nth(n) = e
  BY <1>2, DataSizeAssumption
     DEF QueueInv, CountMatchesPointers, Occupied, Nth, Index, LastIndex
<1>5. ASSUME NEW k \in 1 .. n PROVE Nth(k - 1) \in Index /\ Nth(k - 1) # e
  BY <1>2, <1>3, DataSizeAssumption
     DEF QueueInv, CountMatchesPointers, Occupied, Nth, Index, LastIndex
<1>6. Contents' \in Seq(Item) /\ Len(Contents') = n + 1
  <2>1. ContentsShape'
    BY ContentsIsSeq, PTL
  <2> QED BY <1>2, <2>1 DEF ContentsShape
<1>7. ASSUME NEW k \in 1 .. n + 1 PROVE Contents'[k] = Append(Contents, item)[k]
  <2>1. Contents'[k] = bq'.data[Nth(k - 1)]
    BY <1>2 DEF Contents, Nth
  <2>2. CASE k = n + 1
    BY <1>2, <1>4, <2>1, <2>2, ContentsIsSeq, AppendProperties DEF ContentsShape
  <2>3. CASE k \in 1 .. n
    <3>1. Contents'[k] = bq.data[Nth(k - 1)]
      BY <1>2, <1>5, <2>1, <2>3
    <3> QED BY <2>3, <3>1, ContentsIsSeq, AppendProperties DEF ContentsShape
  <2>4. k = n + 1 \/ k \in 1 .. n
    BY <1>2
  <2> QED BY <2>2, <2>3, <2>4
<1>8. Append(Contents, item) \in Seq(Item) /\ Len(Append(Contents, item)) = n + 1
  BY ContentsIsSeq, AppendProperties DEF ContentsShape
<1> QED BY <1>6, <1>7, <1>8, SeqEqual

(* A get that finds a byte removes the oldest one.                         *)
LEMMA GetTakesHead ==
  ASSUME QueueInv, QueueInv', Get, ~IsEmptyBQ(bq)
  PROVE  /\ Contents # <<>>
         /\ ret' = Head(Contents)
         /\ Contents' = Tail(Contents)
<1> DEFINE n == bq.count
           s == bq.start
<1>1. /\ bq \in ByteQueue
      /\ bq' = [bq EXCEPT !.start = Advance(s), !.count = @ - 1]
  BY DEF QueueInv, QueueTypeOK, Get, GetByteBQ
<1>2. /\ bq'.data = bq.data
      /\ bq'.start = Advance(s)
      /\ bq'.count = n - 1
      /\ s \in Index /\ bq.end \in Index
  BY <1>1 DEF ByteQueue
<1>3. n \in 1 .. DataSize - 1
  BY <1>2, ContentsIsSeq, DataSizeAssumption
     DEF ContentsShape, QueueInv, CountMatchesPointers, Occupied, IsEmptyBQ, Index
<1>4. Contents # <<>>
  BY <1>3, ContentsIsSeq DEF ContentsShape
<1>5. Nth(0) = s
  BY <1>2, DataSizeAssumption DEF Nth, Index, LastIndex
<1>6. ret' = Head(Contents)
  BY <1>3, <1>4, <1>5, ContentsIsSeq DEF ContentsShape, Get, PeekByteBQ
<1>7. Contents' \in Seq(Item) /\ Len(Contents') = n - 1
  <2>1. ContentsShape'
    BY ContentsIsSeq, PTL
  <2> QED BY <1>2, <2>1 DEF ContentsShape
<1>8. /\ Tail(Contents) \in Seq(Item)
      /\ Len(Tail(Contents)) = n - 1
      /\ \A k \in 1 .. n - 1 : Tail(Contents)[k] = Contents[k + 1]
  BY <1>4, ContentsIsSeq, HeadTailProperties DEF ContentsShape
<1>9. ASSUME NEW k \in 1 .. n - 1 PROVE Contents'[k] = Tail(Contents)[k]
  <2>1. Nth(k - 1)' = Nth(k)
    BY <1>2, <1>3, AdvanceInIndex, DataSizeAssumption DEF Nth, Index, LastIndex
  <2>2. Contents'[k] = bq.data[Nth(k)]
    BY <1>2, <2>1 DEF Contents
  <2>3. Contents[k + 1] = bq.data[Nth(k)]
    BY <1>3, ContentsIsSeq DEF ContentsShape
  <2> QED BY <1>8, <2>2, <2>3
<1> QED BY <1>4, <1>6, <1>7, <1>8, <1>9, SeqEqual

(* The byte queue implements the bounded FIFO queue: every put appends or  *)
(* is refused at capacity, every get takes the oldest byte or returns 0.   *)
THEOREM RefinesFifo == QueueSpec => ImplementsFifo
<1>1. QueueInit => Fifo!Init
  <2> SUFFICES ASSUME QueueInit PROVE Contents = <<>> /\ ret = 1
    BY DEF Fifo!Init
  <2>1. bq.count = 0
    BY DEF QueueInit, InitBQ
  <2> QED BY <2>1 DEF QueueInit, Contents
<1>2. QueueInv /\ QueueInv' /\ [QueueNext]_queueVars => [Fifo!Next]_(Fifo!vars)
  <2> SUFFICES ASSUME QueueInv, QueueInv', [QueueNext]_queueVars PROVE [Fifo!Next]_(Fifo!vars)
    OBVIOUS
  <2>1. ASSUME NEW item \in Item, Put(item) PROVE Fifo!Next
    <3>1. CASE PutRefused(bq)
      BY <2>1, <3>1, ContentsIsSeq, QueueInvImpliesFull
         DEF ContentsShape, Put, PutByteBQ, Contents, Nth, FullIffCapacity, CountBQ, Fifo!Put, Fifo!Next
    <3>2. CASE ~PutRefused(bq)
      <4>1. Contents' = Append(Contents, item) /\ ret' = 1
        BY <2>1, <3>2, PutAppends DEF Put
      <4>2. Len(Contents) < DataSize - 1
        BY <3>2, ContentsIsSeq, QueueInvImpliesFull, DataSizeAssumption
           DEF ContentsShape, FullIffCapacity, CountBQ
      <4> QED BY <4>1, <4>2 DEF Fifo!Put, Fifo!Next
    <3> QED BY <3>1, <3>2
  <2>2. CASE Get
    <3>1. CASE IsEmptyBQ(bq)
      <4>1. Contents = <<>>
        BY <3>1, ContentsIsSeq, DataSizeAssumption
           DEF ContentsShape, QueueInv, QueueTypeOK, ByteQueue, CountMatchesPointers, Occupied, IsEmptyBQ, Index
      <4>2. ret' = 0 /\ Contents' = Contents
        BY <2>2, <3>1 DEF Get, GetByteBQ, PeekByteBQ, Contents, Nth
      <4> QED BY <4>1, <4>2 DEF Fifo!Get, Fifo!Next
    <3>2. CASE ~IsEmptyBQ(bq)
      BY <2>2, <3>2, GetTakesHead DEF Fifo!Get, Fifo!Next
    <3> QED BY <3>1, <3>2
  <2>3. CASE UNCHANGED queueVars
    BY <2>3 DEF queueVars, Contents, Nth, Fifo!vars
  <2> QED BY <2>1, <2>2, <2>3 DEF QueueNext
<1>3. QueueSpec => []QueueInv
  BY Invariance DEF QueueInv
<1> QED BY <1>1, <1>2, <1>3, PTL DEF QueueSpec, ImplementsFifo, Fifo!Spec
-----------------------------------------------------------------------------
IInv == TypeOK /\ RegionsOrdered /\ ReservationApart

(* The part of the invariant that is about the object, for a record b.     *)
Sound(b) ==
  /\ b \in BipBuffer
  /\ b.ixb = 0
  /\ b.ixa + b.sza <= BufLen
  /\ b.szb > 0 => b.szb <= b.ixa /\ b.sza > 0
  /\ b.szResrv > 0 =>
       \/ /\ b.szb = 0
          /\ b.ixResrv = b.ixa + b.sza \/ b.sza = 0
          /\ b.ixResrv + b.szResrv <= BufLen
       \/ /\ b.sza > 0
          /\ b.ixResrv = b.szb
          /\ b.ixResrv + b.szResrv <= b.ixa

SoundState == Sound(bip) /\ mem \in [Cell -> Byte]

LEMMA SoundIsIInv == IInv <=> SoundState
BY DEF IInv, TypeOK, RegionsOrdered, ReservationApart, SoundState, Sound

(* The fields of a record of the right type.                               *)
LEMMA FieldTypes ==
  ASSUME NEW b \in BipBuffer
  PROVE  /\ b.ixa \in 0 .. BufLen /\ b.sza \in 0 .. BufLen
         /\ b.ixb \in 0 .. BufLen /\ b.szb \in 0 .. BufLen
         /\ b.ixResrv \in 0 .. BufLen /\ b.szResrv \in 0 .. BufLen
BY DEF BipBuffer, Offset

-----------------------------------------------------------------------------
(* A block that is granted lies in the free space next to a region.        *)
LEMMA ReserveSound ==
  ASSUME NEW b, Sound(b), NEW size \in Nat
  PROVE  Sound(Reserve(b, size))
<1> DEFINE block == ReserveBlock(b, size)
<1>1. b \in BipBuffer
  BY DEF Sound
<1>2. CASE ~block.granted
  BY <1>2 DEF Reserve
<1>3. CASE block.granted
  <2>1. /\ block.ix \in 0 .. BufLen /\ block.sz \in 0 .. BufLen
        /\ \/ b.szb = 0 /\ block.ix = b.ixa + b.sza /\ block.ix + block.sz <= BufLen
           \/ b.szb = 0 /\ b.sza = 0 /\ block.ix + block.sz <= BufLen
           \/ b.sza > 0 /\ block.ix = b.szb /\ block.ix + block.sz <= b.ixa
    BY <1>1, <1>3, FieldTypes, BufLenAssumption
       DEF Sound, ReserveBlock, NoBlock, Block, Lesser, GetSpaceAfterA, GetBFreeSpace
  <2>2. Reserve(b, size) = [ixa |-> b.ixa, sza |-> b.sza, ixb |-> b.ixb, szb |-> b.szb,
                            ixResrv |-> block.ix, szResrv |-> block.sz]
    BY <1>1, <1>3 DEF Reserve, BipBuffer
  <2> QED BY <1>1, <2>1, <2>2, FieldTypes DEF Sound, BipBuffer, Offset
<1> QED BY <1>2, <1>3

(* The object after a commit of n of the bytes that are reserved.          *)
LEMMA CommitPartialResult ==
  ASSUME NEW b \in BipBuffer, NEW size
  PROVE  LET n   == Lesser(size, b.szResrv)
             ixa == IF b.sza = 0 /\ b.szb = 0 THEN b.ixResrv ELSE b.ixa
             inA == b.ixResrv = ixa + b.sza
         IN  CommitPartial(b, size) =
               [ixa |-> ixa,
                sza |-> IF inA THEN b.sza + n ELSE b.sza,
                ixb |-> b.ixb,
                szb |-> IF inA THEN b.szb ELSE b.szb + n,
                ixResrv |-> b.ixResrv + n,
                szResrv |-> b.szResrv - n]
<1> DEFINE n   == Lesser(size, b.szResrv)
           ixa == IF b.sza = 0 /\ b.szb = 0 THEN b.ixResrv ELSE b.ixa
           inA == b.ixResrv = ixa + b.sza
<1>1. CommitPartial(b, size) =
        [b EXCEPT !.ixa     = ixa,
                  !.sza     = IF inA THEN b.sza + n ELSE b.sza,
                  !.szb     = IF inA THEN b.szb ELSE b.szb + n,
                  !.ixResrv = b.ixResrv + n,
                  !.szResrv = b.szResrv - n]
  BY DEF CommitPartial
<1>2. CommitPartial(b, size) =
        [ixa |-> ixa, sza |-> IF inA THEN b.sza + n ELSE b.sza, ixb |-> b.ixb,
         szb |-> IF inA THEN b.szb ELSE b.szb + n,
         ixResrv |-> b.ixResrv + n, szResrv |-> b.szResrv - n]
  <2> HIDE DEF ixa, inA, n
  <2> QED BY <1>1 DEF BipBuffer
<1> QED BY <1>2

(* Committed bytes extend the region the reservation adjoins, and what is  *)
(* left of the reservation adjoins that region again.                      *)
LEMMA CommitPartialSound ==
  ASSUME NEW b, Sound(b), NEW size \in Nat
  PROVE  Sound(CommitPartial(b, size))
<1> DEFINE n   == Lesser(size, b.szResrv)
           ixa == IF b.sza = 0 /\ b.szb = 0 THEN b.ixResrv ELSE b.ixa
           inA == b.ixResrv = ixa + b.sza
<1>1. b \in BipBuffer
  BY DEF Sound
<1>2. n \in 0 .. b.szResrv
  BY <1>1, FieldTypes, BufLenAssumption DEF Lesser
<1>3. CommitPartial(b, size) =
        [ixa |-> ixa,
         sza |-> IF inA THEN b.sza + n ELSE b.sza,
         ixb |-> b.ixb,
         szb |-> IF inA THEN b.szb ELSE b.szb + n,
         ixResrv |-> b.ixResrv + n,
         szResrv |-> b.szResrv - n]
  BY <1>1, CommitPartialResult
<1>4. CASE b.szResrv = 0
  <2>1. n = 0
    BY <1>2, <1>4
  <2> HIDE DEF n
  <2> QED BY <1>1, <1>3, <1>4, <2>1, FieldTypes, BufLenAssumption
             DEF Sound, BipBuffer, Offset
<1>5. CASE b.szResrv > 0
  <2> HIDE DEF n
  <2> QED BY <1>1, <1>2, <1>3, <1>5, FieldTypes, BufLenAssumption
             DEF Sound, BipBuffer, Offset
<1> QED BY <1>1, <1>4, <1>5, FieldTypes, BufLenAssumption

LEMMA CommitSound ==
  ASSUME NEW b, Sound(b), NEW size \in Nat
  PROVE  Sound(Commit(b, size))
<1>1. ASSUME NEW c, Sound(c),
             NEW d, d = [c EXCEPT !.ixResrv = 0, !.szResrv = 0]
      PROVE  Sound(d)
  <2>1. c \in BipBuffer
    BY <1>1 DEF Sound
  <2>2. d = [ixa |-> c.ixa, sza |-> c.sza, ixb |-> c.ixb, szb |-> c.szb,
             ixResrv |-> 0, szResrv |-> 0]
    BY <1>1, <2>1 DEF BipBuffer
  <2> QED BY <1>1, <2>1, <2>2, FieldTypes, BufLenAssumption DEF Sound, BipBuffer, Offset
<1>2. CASE size = 0
  BY <1>1, <1>2 DEF Commit
<1>3. CASE size # 0
  BY <1>1, <1>3, CommitPartialSound DEF Commit
<1> QED BY <1>2, <1>3

(* Draining A hands its place to B; a reservation that adjoined B then     *)
(* adjoins the new A, and one that adjoined A is apart from an empty       *)
(* buffer.                                                                 *)
LEMMA DecommitSound ==
  ASSUME NEW b, Sound(b), NEW size \in Nat
  PROVE  Sound(DecommitBlock(b, size))
<1>1. b \in BipBuffer
  BY DEF Sound
<1>2. CASE size >= b.sza
  <2>1. DecommitBlock(b, size) =
          [ixa |-> b.ixb, sza |-> b.szb, ixb |-> 0, szb |-> 0,
           ixResrv |-> b.ixResrv, szResrv |-> b.szResrv]
    BY <1>1, <1>2 DEF DecommitBlock, BipBuffer
  <2> QED BY <1>1, <1>2, <2>1, FieldTypes, BufLenAssumption DEF Sound, BipBuffer, Offset
<1>3. CASE ~(size >= b.sza)
  <2>1. DecommitBlock(b, size) =
          [ixa |-> b.ixa + size, sza |-> b.sza - size, ixb |-> b.ixb, szb |-> b.szb,
           ixResrv |-> b.ixResrv, szResrv |-> b.szResrv]
    BY <1>1, <1>3 DEF DecommitBlock, BipBuffer
  <2> QED BY <1>1, <1>3, <2>1, FieldTypes, BufLenAssumption DEF Sound, BipBuffer, Offset
<1> QED BY <1>2, <1>3

LEMMA ClearedSound == Sound(Cleared)
BY BufLenAssumption DEF Sound, Cleared, BipBuffer, Offset

-----------------------------------------------------------------------------
(* In every reachable state, whatever sizes the callers pass and whatever  *)
(* order they call in, the regions lie inside the array in order and an    *)
(* open reservation is apart from both.                                    *)
THEOREM RegionsSafe == Spec => [](TypeOK /\ RegionsOrdered /\ ReservationApart)
<1>1. Init => SoundState
  BY ClearedSound DEF Init, SoundState
<1>2. SoundState /\ [Next]_vars => SoundState'
  <2> SUFFICES ASSUME SoundState, [Next]_vars PROVE SoundState'
    OBVIOUS
  <2> USE DEF SoundState
  <2>1. ASSUME NEW size \in 0 .. MaxSize, ReserveCall(size)
        PROVE  SoundState'
    BY <2>1, ReserveSound, MaxSizeAssumption DEF ReserveCall
  <2>2. ASSUME NEW size \in 0 .. MaxSize, CommitCall(size)
        PROVE  SoundState'
    BY <2>2, CommitSound, MaxSizeAssumption DEF CommitCall
  <2>3. ASSUME NEW size \in 0 .. MaxSize, CommitPartialCall(size)
        PROVE  SoundState'
    BY <2>3, CommitPartialSound, MaxSizeAssumption DEF CommitPartialCall
  <2>4. ASSUME NEW size \in 0 .. MaxSize, DecommitCall(size)
        PROVE  SoundState'
    BY <2>4, DecommitSound, MaxSizeAssumption DEF DecommitCall
  <2>5. ASSUME NEW i \in Cell, NEW byte \in Byte, WriteReserved(i, byte)
        PROVE  SoundState'
    BY <2>5 DEF WriteReserved
  <2>6. CASE ClearCall
    BY <2>6, ClearedSound DEF ClearCall, Clear
  <2>7. CASE UNCHANGED vars
    BY <2>7 DEF vars
  <2> QED BY <2>1, <2>2, <2>3, <2>4, <2>5, <2>6, <2>7 DEF Next
<1>3. SoundState => TypeOK /\ RegionsOrdered /\ ReservationApart
  BY SoundIsIInv DEF IInv
<1> QED BY <1>1, <1>2, <1>3, PTL DEF Spec

-----------------------------------------------------------------------------
(* The refinement.  A block of the array m as a sequence; Bytes(ix, sz) is *)
(* Slice(mem, ix, sz).                                                     *)
Slice(m, ix, sz) == [k \in 1 .. sz |-> m[ix + k - 1]]

LEMMA SliceProperties ==
  ASSUME NEW m \in [Cell -> Byte], NEW ix \in Nat, NEW sz \in Nat, sz > 0 => ix + sz <= BufLen
  PROVE  /\ Slice(m, ix, sz) \in Seq(Byte)
         /\ Len(Slice(m, ix, sz)) = sz
         /\ \A k \in 1 .. sz : Slice(m, ix, sz)[k] = m[ix + k - 1]
<1>1. \A k \in 1 .. sz : m[ix + k - 1] \in Byte
  BY BufLenAssumption DEF Cell
<1>2. Slice(m, ix, sz) \in [1 .. sz -> Byte]
  BY <1>1 DEF Slice
<1>3. Slice(m, ix, sz) \in Seq(Byte)
  BY <1>2, SeqDef
<1>4. DOMAIN Slice(m, ix, sz) = 1 .. sz
  BY DEF Slice
<1>5. Len(Slice(m, ix, sz)) = sz
  BY <1>3, <1>4, LenProperties
<1> QED BY <1>3, <1>5 DEF Slice

LEMMA SliceEmpty ==
  ASSUME NEW m, NEW ix
  PROVE  Slice(m, ix, 0) = <<>>
BY DEF Slice

(* Two blocks that adjoin are one.                                         *)
LEMMA SliceConcat ==
  ASSUME NEW m \in [Cell -> Byte], NEW ix \in Nat, NEW a \in Nat, NEW b \in Nat,
         ix + a + b <= BufLen
  PROVE  Slice(m, ix, a) \o Slice(m, ix + a, b) = Slice(m, ix, a + b)
<1> DEFINE s == Slice(m, ix, a)
           t == Slice(m, ix + a, b)
           u == Slice(m, ix, a + b)
           c == s \o t
<1>1. s \in Seq(Byte) /\ Len(s) = a /\ \A k \in 1 .. a : s[k] = m[ix + k - 1]
  BY SliceProperties, BufLenAssumption
<1>2. t \in Seq(Byte) /\ Len(t) = b /\ \A k \in 1 .. b : t[k] = m[ix + a + k - 1]
  BY SliceProperties, BufLenAssumption
<1>3. u \in Seq(Byte) /\ Len(u) = a + b /\ \A k \in 1 .. a + b : u[k] = m[ix + k - 1]
  BY SliceProperties, BufLenAssumption
<1> HIDE DEF s, t, u
<1>4. /\ c \in Seq(Byte) /\ Len(c) = a + b
      /\ \A k \in 1 .. a + b : c[k] = IF k <= a THEN s[k] ELSE t[k - a]
  BY <1>1, <1>2, ConcatProperties
<1> HIDE DEF c
<1>5. ASSUME NEW k \in 1 .. a + b PROVE c[k] = u[k]
  <2>1. CASE k <= a
    <3>1. k \in 1 .. a
      BY <2>1
    <3> QED BY <1>1, <1>3, <1>4, <2>1, <3>1
  <2>2. CASE k > a
    <3>1. k - a \in 1 .. b /\ ix + a + (k - a) - 1 = ix + k - 1 /\ ~(k <= a)
      BY <2>2
    <3>2. t[k - a] = m[ix + a + (k - a) - 1]
      BY <1>2, <3>1
    <3> QED BY <1>3, <1>4, <3>1, <3>2
  <2> QED BY <2>1, <2>2
<1>6. c = u
  BY <1>3, <1>4, <1>5, SeqEqual
<1> QED BY <1>6 DEF c, s, t, u

(* The first bytes of a block, and what is left when they are dropped.     *)
LEMMA SliceParts ==
  ASSUME NEW m \in [Cell -> Byte], NEW ix \in Nat, NEW sz \in Nat, sz > 0 => ix + sz <= BufLen,
         NEW n \in 0 .. sz
  PROVE  /\ SubSeq(Slice(m, ix, sz), 1, n) = Slice(m, ix, n)
         /\ Stream!DropFirst(Slice(m, ix, sz), n) = Slice(m, ix + n, sz - n)
<1> DEFINE s == Slice(m, ix, sz)
           f == Slice(m, ix, n)
           l == Slice(m, ix + n, sz - n)
<1>1. /\ s \in Seq(Byte) /\ Len(s) = sz /\ \A k \in 1 .. sz : s[k] = m[ix + k - 1]
      /\ f \in Seq(Byte) /\ Len(f) = n /\ \A k \in 1 .. n : f[k] = m[ix + k - 1]
      /\ l \in Seq(Byte) /\ Len(l) = sz - n /\ \A k \in 1 .. sz - n : l[k] = m[ix + n + k - 1]
  BY SliceProperties, BufLenAssumption, SMTT(30)
<1> HIDE DEF s, f, l
<1>2. \A k \in 1 .. sz : s[k] \in Byte
  BY <1>1, ElementOfSeq
<1>3. SubSeq(s, 1, n) = f
  <2> DEFINE g == SubSeq(s, 1, n)
  <2>1. /\ g \in Seq(Byte) /\ Len(g) = n
        /\ \A k \in 1 .. n - 1 + 1 : g[k] = s[1 + k - 1]
    BY <1>2, SubSeqProperties
  <2> HIDE DEF g
  <2>2. ASSUME NEW k \in 1 .. n PROVE g[k] = f[k]
    <3>1. k \in 1 .. n - 1 + 1 /\ 1 + k - 1 = k /\ k \in 1 .. sz
      OBVIOUS
    <3>2. g[k] = s[k]
      BY <2>1, <3>1
    <3> QED BY <1>1, <3>1, <3>2
  <2>3. g = f
    BY <1>1, <2>1, <2>2, SeqEqual
  <2> QED BY <2>3 DEF g
<1>4. SubSeq(s, n + 1, sz) = l
  <2> DEFINE g == SubSeq(s, n + 1, sz)
  <2>1. /\ g \in Seq(Byte) /\ Len(g) = sz - n
        /\ \A k \in 1 .. sz - (n + 1) + 1 : g[k] = s[n + 1 + k - 1]
    BY <1>2, SubSeqProperties
  <2> HIDE DEF g
  <2>2. ASSUME NEW k \in 1 .. sz - n PROVE g[k] = l[k]
    <3>1. /\ k \in 1 .. sz - (n + 1) + 1 /\ n + 1 + k - 1 = n + k
          /\ n + k \in 1 .. sz /\ ix + (n + k) - 1 = ix + n + k - 1
      OBVIOUS
    <3>2. g[k] = s[n + k]
      BY <2>1, <3>1
    <3>3. s[n + k] = m[ix + (n + k) - 1]
      BY <1>1, <3>1
    <3> QED BY <1>1, <3>1, <3>2, <3>3
  <2>3. g = l
    BY <1>1, <2>1, <2>2, SeqEqual
  <2> QED BY <2>3 DEF g
<1> QED BY <1>1, <1>3, <1>4 DEF Stream!DropFirst, s, f, l

(* The rest of a sequence from some place on. *)
LEMMA Rest ==
  ASSUME NEW s, NEW a \in Nat, NEW z \in Nat, a <= z, \A i \in a + 1 .. z : s[i] \in Byte
  PROVE  /\ SubSeq(s, a + 1, z) \in Seq(Byte) /\ Len(SubSeq(s, a + 1, z)) = z - a
         /\ \A k \in 1 .. z - a : SubSeq(s, a + 1, z)[k] = s[a + k]
<1> DEFINE b == a + 1
           r == SubSeq(s, b, z)
<1>1. b \in Int /\ z \in Int /\ \A i \in b .. z : s[i] \in Byte
  OBVIOUS
<1>2. b = a + 1
  OBVIOUS
<1> HIDE DEF b
<1>3. /\ r \in Seq(Byte) /\ Len(r) = IF b <= z THEN z - b + 1 ELSE 0
      /\ \A k \in 1 .. z - b + 1 : r[k] = s[b + k - 1]
  BY <1>1, SubSeqProperties
<1> HIDE DEF r
<1>4. Len(r) = z - a
  BY <1>2, <1>3
<1>5. ASSUME NEW k \in 1 .. z - a PROVE r[k] = s[a + k]
  <2>1. k \in 1 .. z - b + 1 /\ b + k - 1 = a + k
    BY <1>2
  <2> QED BY <1>3, <2>1
<1> QED BY <1>2, <1>3, <1>4, <1>5 DEF r

(* Dropping from the front of two sequences that follow each other.        *)
LEMMA DropFromConcat ==
  ASSUME NEW s \in Seq(Byte), NEW t \in Seq(Byte), NEW n \in 0 .. Len(s)
  PROVE  Stream!DropFirst(s \o t, n) = Stream!DropFirst(s, n) \o t
<1> DEFINE p == Len(s)
           q == Len(t)
           c == s \o t
<1>1. p \in Nat /\ q \in Nat /\ n \in 0 .. p
  BY LenProperties
<1>2. /\ c \in Seq(Byte) /\ Len(c) = p + q
      /\ \A k \in 1 .. p + q : c[k] = IF k <= p THEN s[k] ELSE t[k - p]
  BY ConcatProperties
<1>3. (\A k \in 1 .. p : s[k] \in Byte) /\ (\A k \in 1 .. p + q : c[k] \in Byte)
  <2> HIDE DEF c
  <2> QED BY <1>2, ElementOfSeq
<1> HIDE DEF p, q, c
<1> DEFINE d == SubSeq(s, n + 1, p)
<1>4. /\ d \in Seq(Byte) /\ Len(d) = p - n
      /\ \A k \in 1 .. p - n : d[k] = s[n + k]
  <2>1. n \in Nat /\ n <= p /\ \A i \in n + 1 .. p : s[i] \in Byte
    BY <1>1, <1>3
  <2> QED BY <1>1, <2>1, Rest
<1> HIDE DEF d
<1> DEFINE z == p + q
           e == SubSeq(c, n + 1, z)
<1>5. /\ e \in Seq(Byte) /\ Len(e) = p + q - n
      /\ \A k \in 1 .. p + q - n : e[k] = c[n + k]
  <2>1. n \in Nat /\ n <= z /\ z \in Nat /\ z = p + q /\ \A i \in n + 1 .. z : c[i] \in Byte
    BY <1>1, <1>3
  <2> HIDE DEF z
  <2>2. /\ e \in Seq(Byte) /\ Len(e) = z - n
        /\ \A k \in 1 .. z - n : e[k] = c[n + k]
    BY <2>1, Rest
  <2> HIDE DEF e
  <2> QED BY <1>1, <2>1, <2>2
<1> HIDE DEF e, z
<1> DEFINE f == d \o t
<1>6. /\ f \in Seq(Byte) /\ Len(f) = p - n + q
      /\ \A k \in 1 .. p - n + q : f[k] = IF k <= p - n THEN d[k] ELSE t[k - (p - n)]
  <2>1. Len(t) = q /\ Len(d) = p - n
    BY <1>4 DEF q
  <2>2. /\ f \in Seq(Byte) /\ Len(f) = Len(d) + Len(t)
        /\ \A k \in 1 .. Len(d) + Len(t) : f[k] = IF k <= Len(d) THEN d[k] ELSE t[k - Len(d)]
    BY <1>4, ConcatProperties
  <2> HIDE DEF f
  <2> QED BY <2>1, <2>2
<1> HIDE DEF f
<1>7. ASSUME NEW k \in 1 .. p + q - n PROVE e[k] = f[k]
  <2>1. n + k \in 1 .. p + q /\ k \in 1 .. p - n + q
    BY <1>1
  <2>2. e[k] = c[n + k]
    BY <1>5, <2>1
  <2>3. CASE k <= p - n
    <3>1. n + k <= p /\ k \in 1 .. p - n
      BY <1>1, <2>3
    <3>2. c[n + k] = s[n + k] /\ d[k] = s[n + k]
      BY <1>2, <1>4, <2>1, <3>1
    <3> QED BY <1>6, <2>1, <2>2, <2>3, <3>2
  <2>4. CASE ~(k <= p - n)
    <3>1. (n + k) - p = k - (p - n) /\ ~(n + k <= p)
      BY <1>1, <2>4
    <3>2. c[n + k] = t[(n + k) - p]
      BY <1>2, <2>1, <3>1
    <3> QED BY <1>6, <2>1, <2>2, <2>4, <3>1, <3>2
  <2> QED BY <2>3, <2>4
<1>8. e = f
  <2>1. Len(e) = Len(f)
    BY <1>1, <1>5, <1>6
  <2> QED BY <1>5, <1>6, <1>7, <2>1, SeqEqual
<1> QED BY <1>2, <1>8 DEF Stream!DropFirst, p, q, c, d, e, f, z

-----------------------------------------------------------------------------
(* What the object b and the array m stand for: the committed bytes, and   *)
(* those of the reservation.                                               *)
Held(m, b) == Slice(m, b.ixa, b.sza) \o Slice(m, b.ixb, b.szb)
Open(m, b) == Slice(m, b.ixResrv, b.szResrv)

LEMMA Regions ==
  ASSUME NEW m \in [Cell -> Byte], NEW b, Sound(b)
  PROVE  /\ Slice(m, b.ixa, b.sza) \in Seq(Byte) /\ Len(Slice(m, b.ixa, b.sza)) = b.sza
         /\ Slice(m, b.ixb, b.szb) \in Seq(Byte) /\ Len(Slice(m, b.ixb, b.szb)) = b.szb
         /\ Open(m, b) \in Seq(Byte) /\ Len(Open(m, b)) = b.szResrv
         /\ Held(m, b) \in Seq(Byte) /\ Len(Held(m, b)) = b.sza + b.szb
<1>1. /\ b.ixa \in Nat /\ b.sza \in Nat /\ b.ixb \in Nat /\ b.szb \in Nat
      /\ b.ixResrv \in Nat /\ b.szResrv \in Nat
      /\ b.ixa + b.sza <= BufLen /\ b.ixb + b.szb <= BufLen
      /\ b.szResrv > 0 => b.ixResrv + b.szResrv <= BufLen
  BY FieldTypes, BufLenAssumption DEF Sound
<1>2. /\ Slice(m, b.ixa, b.sza) \in Seq(Byte) /\ Len(Slice(m, b.ixa, b.sza)) = b.sza
      /\ Slice(m, b.ixb, b.szb) \in Seq(Byte) /\ Len(Slice(m, b.ixb, b.szb)) = b.szb
  BY <1>1, SliceProperties
<1>3. Open(m, b) \in Seq(Byte) /\ Len(Open(m, b)) = b.szResrv
  BY <1>1, SliceProperties DEF Open
<1> DEFINE A == Slice(m, b.ixa, b.sza)
           B == Slice(m, b.ixb, b.szb)
<1>4. Held(m, b) = A \o B
  BY DEF Held
<1> HIDE DEF A, B
<1>5. A \in Seq(Byte) /\ Len(A) = b.sza /\ B \in Seq(Byte) /\ Len(B) = b.szb
  BY <1>2 DEF A, B
<1>6. A \o B \in Seq(Byte) /\ Len(A \o B) = b.sza + b.szb
  <2>1. A \o B \in Seq(Byte) /\ Len(A \o B) = Len(A) + Len(B)
    BY <1>5, ConcatProperties, Zenon
  <2> QED BY <1>5, <2>1
<1> QED BY <1>2, <1>3, <1>4, <1>6

(* A commit appends the first bytes of the reservation to the stream.      *)
LEMMA CommitPartialContents ==
  ASSUME NEW m \in [Cell -> Byte], NEW b, Sound(b), NEW size \in Nat
  PROVE  LET n == Lesser(size, b.szResrv)
             c == CommitPartial(b, size)
         IN  /\ n \in 0 .. b.szResrv
             /\ Held(m, c) = Held(m, b) \o SubSeq(Open(m, b), 1, n)
             /\ Open(m, c) = Stream!DropFirst(Open(m, b), n)
<1> DEFINE n   == Lesser(size, b.szResrv)
           c   == CommitPartial(b, size)
           ixa == IF b.sza = 0 /\ b.szb = 0 THEN b.ixResrv ELSE b.ixa
           inA == b.ixResrv = ixa + b.sza
           A   == Slice(m, b.ixa, b.sza)
           B   == Slice(m, b.ixb, b.szb)
           new == Slice(m, b.ixResrv, n)
<1>1. b \in BipBuffer /\ b.ixb = 0
  BY DEF Sound
<1>2. n \in 0 .. b.szResrv
  BY <1>1, FieldTypes, BufLenAssumption DEF Lesser
<1>3. /\ c.ixa = ixa /\ c.sza = (IF inA THEN b.sza + n ELSE b.sza)
      /\ c.ixb = b.ixb /\ c.szb = (IF inA THEN b.szb ELSE b.szb + n)
      /\ c.ixResrv = b.ixResrv + n /\ c.szResrv = b.szResrv - n
  <2>1. c = [ixa |-> ixa, sza |-> IF inA THEN b.sza + n ELSE b.sza, ixb |-> b.ixb,
             szb |-> IF inA THEN b.szb ELSE b.szb + n,
             ixResrv |-> b.ixResrv + n, szResrv |-> b.szResrv - n]
    BY <1>1, CommitPartialResult
  <2> HIDE DEF c, ixa, inA, n
  <2> QED BY <2>1
<1> HIDE DEF n, c
<1>4. /\ b.ixResrv \in Nat /\ b.szResrv \in Nat /\ b.ixa \in Nat /\ b.sza \in Nat /\ b.szb \in Nat
      /\ n \in Nat /\ (b.szResrv > 0 => b.ixResrv + b.szResrv <= BufLen)
      /\ BufLen \in Nat /\ b.ixa <= BufLen
  BY <1>1, <1>2, FieldTypes, BufLenAssumption DEF Sound
<1>5. /\ SubSeq(Open(m, b), 1, n) = new
      /\ Open(m, c) = Stream!DropFirst(Open(m, b), n)
  <2>1. Open(m, c) = Slice(m, b.ixResrv + n, b.szResrv - n)
    BY <1>3 DEF Open
  <2>2. /\ SubSeq(Slice(m, b.ixResrv, b.szResrv), 1, n) = Slice(m, b.ixResrv, n)
        /\ Stream!DropFirst(Slice(m, b.ixResrv, b.szResrv), n) =
             Slice(m, b.ixResrv + n, b.szResrv - n)
    BY <1>2, <1>4, SliceParts
  <2> QED BY <2>1, <2>2 DEF Open
<1>6. /\ A \in Seq(Byte) /\ B \in Seq(Byte) /\ Held(m, b) = A \o B
      /\ Held(m, b) \in Seq(Byte)
      /\ new \in Seq(Byte) /\ (n = 0 => new = <<>>)
  <2>1. n > 0 => b.ixResrv + n <= BufLen
    BY <1>2, <1>4
  <2> QED BY <1>4, <2>1, Regions, SliceProperties, SliceEmpty DEF Held
<1>7. Held(m, c) = Held(m, b) \o new
  <2>1. CASE b.sza = 0 /\ b.szb = 0
    <3>1. c.ixa = b.ixResrv /\ c.sza = n /\ c.szb = 0
      BY <1>3, <1>4, <2>1
    <3>2. Held(m, c) = new \o <<>> /\ A = <<>> /\ B = <<>>
      BY <2>1, <3>1, SliceEmpty DEF Held
    <3> QED BY <1>6, <3>2, ConcatEmptySeq
  <2>2. CASE ~(b.sza = 0 /\ b.szb = 0) /\ n = 0
    <3>1. c.ixa = b.ixa /\ c.sza = b.sza /\ c.ixb = b.ixb /\ c.szb = b.szb
      BY <1>3, <1>4, <2>2
    <3> QED BY <1>6, <2>2, <3>1, ConcatEmptySeq DEF Held
  <2>3. CASE b.sza > 0 /\ n > 0 /\ b.szb = 0 /\ b.ixResrv = b.ixa + b.sza
    <3>1. c.ixa = b.ixa /\ c.sza = b.sza + n /\ c.szb = 0
      BY <1>3, <1>4, <2>3
    <3>2. A \o new = Slice(m, b.ixa, b.sza + n)
      <4>0. b.ixa \in Nat /\ b.sza \in Nat /\ n \in Nat
        BY <1>4
      <4>1. b.ixa + b.sza + n <= BufLen
        BY <1>2, <1>4, <2>3
      <4>2. Slice(m, b.ixa, b.sza) \o Slice(m, b.ixa + b.sza, n) = Slice(m, b.ixa, b.sza + n)
        BY <4>0, <4>1, SliceConcat, Zenon
      <4> QED BY <2>3, <4>2
    <3>3. B = <<>> /\ Held(m, c) = Slice(m, b.ixa, b.sza + n) \o <<>>
      BY <2>3, <3>1, SliceEmpty DEF Held
    <3>4. A \o new \in Seq(Byte)
      BY <1>6, ConcatProperties
    <3> HIDE DEF A, B, new
    <3> QED BY <1>6, <3>2, <3>3, <3>4, ConcatEmptySeq
  <2>4. CASE b.sza > 0 /\ n > 0 /\ b.ixResrv = b.szb /\ b.ixResrv + b.szResrv <= b.ixa
    <3>1. c.ixa = b.ixa /\ c.sza = b.sza /\ c.ixb = 0 /\ c.szb = b.szb + n
      BY <1>1, <1>2, <1>3, <1>4, <2>4
    <3>2. 0 + b.szb + n <= BufLen /\ 0 + b.szb = b.ixResrv
      BY <1>2, <1>4, <2>4
    <3>3. B \o new = Slice(m, 0, b.szb + n)
      <4>0. 0 \in Nat /\ b.szb \in Nat /\ n \in Nat
        BY <1>4
      <4>1. Slice(m, 0, b.szb) \o Slice(m, 0 + b.szb, n) = Slice(m, 0, b.szb + n)
        BY <4>0, <3>2, SliceConcat, Zenon
      <4> QED BY <1>1, <3>2, <4>1
    <3>4. Held(m, c) = A \o (B \o new)
      BY <3>1, <3>3 DEF Held
    <3> HIDE DEF A, B, new
    <3> QED BY <1>6, <3>4, ConcatAssociative
  <2> QED BY <1>2, <1>4, <2>1, <2>2, <2>3, <2>4 DEF Sound
<1> QED BY <1>2, <1>5, <1>7 DEF n, c

(* A decommit drops bytes from the front of the stream, and at least one   *)
(* if there are any.                                                       *)
LEMMA DecommitContents ==
  ASSUME NEW m \in [Cell -> Byte], NEW b, Sound(b), NEW size \in Nat
  PROVE  LET n == Lesser(size, b.sza)
             c == DecommitBlock(b, size)
         IN  /\ n \in 0 .. size /\ n <= Len(Held(m, b))
             /\ size > 0 /\ Held(m, b) # <<>> => n > 0
             /\ Held(m, c) = Stream!DropFirst(Held(m, b), n)
             /\ Open(m, c) = Open(m, b)
<1> DEFINE n == Lesser(size, b.sza)
           c == DecommitBlock(b, size)
           A == Slice(m, b.ixa, b.sza)
           B == Slice(m, b.ixb, b.szb)
<1>1. /\ b \in BipBuffer /\ b.ixb = 0 /\ (b.szb > 0 => b.sza > 0)
      /\ b.ixa \in Nat /\ b.sza \in Nat /\ b.szb \in Nat
      /\ b.sza > 0 => b.ixa + b.sza <= BufLen
  BY FieldTypes, BufLenAssumption DEF Sound
<1>2. /\ A \in Seq(Byte) /\ Len(A) = b.sza /\ B \in Seq(Byte) /\ Len(B) = b.szb
      /\ Held(m, b) = A \o B
      /\ Len(Held(m, b)) = b.sza + b.szb
  BY Regions DEF Held
<1>3. n \in 0 .. size /\ n \in 0 .. b.sza /\ n <= Len(Held(m, b))
  BY <1>1, <1>2 DEF Lesser
<1>4. size > 0 /\ Held(m, b) # <<>> => n > 0
  <2>1. b.sza = 0 => Held(m, b) = <<>>
    <3>1. b.sza = 0 => A = <<>> /\ B = <<>>
      BY <1>1, SliceEmpty
    <3> HIDE DEF A, B
    <3> QED BY <1>2, <3>1, ConcatEmptySeq
  <2> QED BY <1>1, <2>1 DEF Lesser
<1>5. Stream!DropFirst(A, n) = Slice(m, b.ixa + n, b.sza - n)
  BY <1>1, <1>3, SliceParts, Zenon
<1>6. Stream!DropFirst(A \o B, n) = Stream!DropFirst(A, n) \o B
  <2>1. n \in 0 .. Len(A)
    BY <1>2, <1>3
  <2> HIDE DEF A, B, n
  <2> QED BY <1>2, <2>1, DropFromConcat
<1>7. Held(m, c) = Slice(m, b.ixa + n, b.sza - n) \o B /\ Open(m, c) = Open(m, b)
  <2>1. CASE size >= b.sza
    <3>1. c = [ixa |-> b.ixb, sza |-> b.szb, ixb |-> 0, szb |-> 0,
               ixResrv |-> b.ixResrv, szResrv |-> b.szResrv]
      BY <1>1, <2>1 DEF DecommitBlock, BipBuffer
    <3>2. b.sza - n = 0
      BY <1>1, <2>1 DEF Lesser
    <3>3. Slice(m, b.ixa + n, b.sza - n) = <<>> /\ Slice(m, 0, 0) = <<>>
      BY <3>2, SliceEmpty
    <3>4. Held(m, c) = B \o <<>> /\ Open(m, c) = Open(m, b)
      <4>1. /\ c.ixa = b.ixb /\ c.sza = b.szb /\ c.ixb = 0 /\ c.szb = 0
            /\ c.ixResrv = b.ixResrv /\ c.szResrv = b.szResrv
        BY <3>1
      <4>2. Slice(m, c.ixb, c.szb) = <<>>
        BY <3>3, <4>1, Zenon
      <4> HIDE DEF c
      <4> QED BY <4>1, <4>2, Zenon DEF Held, Open
    <3> HIDE DEF B
    <3> QED BY <1>2, <3>3, <3>4, ConcatEmptySeq
  <2>2. CASE ~(size >= b.sza)
    <3>1. c = [ixa |-> b.ixa + size, sza |-> b.sza - size, ixb |-> b.ixb, szb |-> b.szb,
               ixResrv |-> b.ixResrv, szResrv |-> b.szResrv]
      BY <1>1, <2>2 DEF DecommitBlock, BipBuffer
    <3>2. n = size
      BY <1>1, <2>2 DEF Lesser
    <3> QED BY <3>1, <3>2 DEF Held, Open
  <2> QED BY <2>1, <2>2
<1> HIDE DEF A, B, n, c
<1>8. Held(m, c) = Stream!DropFirst(Held(m, b), n)
  BY <1>2, <1>5, <1>6, <1>7
<1> QED BY <1>3, <1>4, <1>7, <1>8 DEF n, c

(* A write within the reservation leaves the stream alone.                 *)
LEMMA WriteContents ==
  ASSUME NEW m \in [Cell -> Byte], NEW b, Sound(b), NEW i \in Cell, i < b.szResrv,
         NEW byte \in Byte
  PROVE  Held([m EXCEPT ![b.ixResrv + i] = byte], b) = Held(m, b)
<1> DEFINE w == [m EXCEPT ![b.ixResrv + i] = byte]
<1>1. /\ b.ixa \in Nat /\ b.sza \in Nat /\ b.ixb = 0 /\ b.szb \in Nat
      /\ b.ixResrv \in Nat /\ b.szResrv \in Nat /\ BufLen \in Nat /\ i \in Nat
      /\ b.ixa + b.sza <= BufLen /\ (b.szb > 0 => b.szb <= b.ixa /\ b.sza > 0)
  BY FieldTypes, BufLenAssumption DEF Sound, Cell
<1>2. \/ b.szb = 0 /\ (b.ixResrv = b.ixa + b.sza \/ b.sza = 0)
      \/ b.ixResrv = b.szb /\ b.ixResrv + b.szResrv <= b.ixa
  BY <1>1 DEF Sound
<1>3. \A k \in 1 .. b.sza : b.ixa + k - 1 \in Cell /\ b.ixa + k - 1 # b.ixResrv + i
  BY <1>1, <1>2, SMTT(30) DEF Cell
<1>4. \A k \in 1 .. b.szb : b.ixb + k - 1 \in Cell /\ b.ixb + k - 1 # b.ixResrv + i
  BY <1>1, <1>2 DEF Cell
<1>5. Slice(w, b.ixa, b.sza) = Slice(m, b.ixa, b.sza)
  BY <1>3 DEF Slice
<1>6. Slice(w, b.ixb, b.szb) = Slice(m, b.ixb, b.szb)
  BY <1>4 DEF Slice
<1> QED BY <1>5, <1>6 DEF Held

(* A reservation of at most size bytes leaves the stream alone.            *)
LEMMA ReserveContents ==
  ASSUME NEW m \in [Cell -> Byte], NEW b, Sound(b), NEW size \in Nat
  PROVE  LET c == Reserve(b, size)
         IN  /\ Held(m, c) = Held(m, b)
             /\ Open(m, c) = Open(m, b) \/ c.szResrv \in 0 .. size
<1> DEFINE block == ReserveBlock(b, size)
<1>1. b \in BipBuffer
  BY DEF Sound
<1>2. CASE ~block.granted
  BY <1>2 DEF Reserve
<1>3. CASE block.granted
  <2>1. Reserve(b, size) = [ixa |-> b.ixa, sza |-> b.sza, ixb |-> b.ixb, szb |-> b.szb,
                            ixResrv |-> block.ix, szResrv |-> block.sz]
    BY <1>1, <1>3 DEF Reserve, BipBuffer
  <2>2. block.sz \in 0 .. size
    BY <1>1, <1>3, FieldTypes, BufLenAssumption
       DEF Sound, ReserveBlock, NoBlock, Block, Lesser, GetSpaceAfterA, GetBFreeSpace
  <2> QED BY <2>1, <2>2 DEF Held
<1> QED BY <1>2, <1>3

LEMMA ClearedContents ==
  ASSUME NEW m
  PROVE  Held(m, Cleared) = <<>> /\ Open(m, Cleared) = <<>>
<1>1. Slice(m, 0, 0) = <<>>
  BY SliceEmpty
<1>2. <<>> \o <<>> = <<>>
  OBVIOUS
<1> QED BY <1>1, <1>2 DEF Held, Open, Cleared

LEMMA StandsFor ==
  /\ Committed = Held(mem, bip)
  /\ Bytes(bip.ixResrv, bip.szResrv) = Open(mem, bip)
BY DEF Committed, Bytes, Held, Open, Slice

LEMMA StreamInit == Init => Stream!Init
BY StandsFor, ClearedContents DEF Init, Stream!Init

(* Each call is the call of the stream of the same name, or leaves it be.  *)
LEMMA StreamStep ==
  ASSUME SoundState, SoundState', [Next]_vars
  PROVE  [Stream!Next]_(Stream!vars)
<1> DEFINE old == Held(mem, bip)
           open == Open(mem, bip)
<1>0. /\ Sound(bip) /\ mem \in [Cell -> Byte] /\ Sound(bip') /\ mem' \in [Cell -> Byte]
      /\ MaxSize \in Nat
  BY MaxSizeAssumption DEF SoundState
<1>1. /\ Committed = old /\ Bytes(bip.ixResrv, bip.szResrv) = open
      /\ Committed' = Held(mem', bip') /\ Bytes(bip.ixResrv, bip.szResrv)' = Open(mem', bip')
      /\ Len(open) = bip.szResrv /\ open \in Seq(Byte) /\ old \in Seq(Byte)
      /\ Len(Open(mem', bip')) = bip'.szResrv /\ Open(mem', bip') \in Seq(Byte)
  <2>1. Committed' = Held(mem', bip') /\ Bytes(bip.ixResrv, bip.szResrv)' = Open(mem', bip')
    BY DEF Committed, Bytes, Held, Open, Slice
  <2> QED BY <1>0, <2>1, StandsFor, Regions
<1>2. ASSUME Held(mem', bip') = old, Open(mem', bip') = open
      PROVE  UNCHANGED Stream!vars
  BY <1>1, <1>2 DEF Stream!vars
<1>3. ASSUME NEW size \in 0 .. MaxSize, ReserveCall(size)
      PROVE  Stream!Next \/ UNCHANGED Stream!vars
  <2>1. mem' = mem /\ bip' = Reserve(bip, size) /\ size \in Nat
    BY <1>0, <1>3 DEF ReserveCall
  <2>2. Held(mem', bip') = old /\ (Open(mem', bip') = open \/ bip'.szResrv \in 0 .. size)
    BY <1>0, <2>1, ReserveContents
  <2>3. CASE bip'.szResrv \in 0 .. size
    <3>1. Open(mem', bip') \in [1 .. bip'.szResrv -> Byte]
      BY <1>1, LenProperties
    <3>2. Stream!Reserve(size)
      BY <1>1, <2>2, <2>3, <3>1 DEF Stream!Reserve
    <3> QED BY <3>2 DEF Stream!Next
  <2> QED BY <1>2, <2>2, <2>3
<1>4. ASSUME NEW size \in 0 .. MaxSize, CommitPartialCall(size)
      PROVE  Stream!Next
  <2>1. mem' = mem /\ bip' = CommitPartial(bip, size) /\ size \in Nat
    BY <1>0, <1>4 DEF CommitPartialCall
  <2>2. Stream!CommitPartial(size)
    BY <1>0, <1>1, <2>1, CommitPartialContents DEF Stream!CommitPartial, Lesser
  <2> QED BY <2>2 DEF Stream!Next
<1>5. ASSUME NEW size \in 0 .. MaxSize, CommitCall(size)
      PROVE  Stream!Next
  <2>1. mem' = mem /\ bip' = Commit(bip, size) /\ size \in Nat
    BY <1>0, <1>5 DEF CommitCall
  <2> DEFINE c == IF size = 0 THEN bip ELSE CommitPartial(bip, size)
             n == Lesser(size, bip.szResrv)
  <2>2. c \in BipBuffer
    BY <1>0, <2>1, CommitPartialSound DEF Sound
  <2>3. bip' = [ixa |-> c.ixa, sza |-> c.sza, ixb |-> c.ixb, szb |-> c.szb,
                ixResrv |-> 0, szResrv |-> 0]
    BY <2>1, <2>2 DEF Commit, BipBuffer
  <2>4. Held(mem', bip') = Held(mem, c) /\ Open(mem', bip') = <<>>
    BY <2>1, <2>3, SliceEmpty DEF Held, Open
  <2>5. Held(mem, c) = old \o SubSeq(open, 1, n)
    <3>1. CASE size = 0
      <4>1. n = 0
        BY <1>0, <3>1, FieldTypes DEF Lesser, Sound
      <4>2. SubSeq(open, 1, 0) = <<>>
        BY SubSeqEmpty
      <4> QED BY <1>1, <3>1, <4>1, <4>2, ConcatEmptySeq
    <3>2. CASE size # 0
      BY <1>0, <2>1, <3>2, CommitPartialContents
    <3> QED BY <3>1, <3>2
  <2>6. Stream!Commit(size)
    BY <1>1, <2>4, <2>5 DEF Stream!Commit, Lesser
  <2> QED BY <2>6 DEF Stream!Next
<1>6. ASSUME NEW size \in 0 .. MaxSize, DecommitCall(size)
      PROVE  Stream!Next
  <2>1. mem' = mem /\ bip' = DecommitBlock(bip, size) /\ size \in Nat
    BY <1>0, <1>6 DEF DecommitCall
  <2>2. Stream!Decommit(size)
    BY <1>0, <1>1, <2>1, DecommitContents DEF Stream!Decommit
  <2> QED BY <2>2 DEF Stream!Next
<1>7. ASSUME NEW i \in Cell, NEW byte \in Byte, WriteReserved(i, byte)
      PROVE  Stream!Next
  <2>1. bip' = bip /\ mem' = [mem EXCEPT ![bip.ixResrv + i] = byte] /\ i < bip.szResrv
    BY <1>7 DEF WriteReserved
  <2>2. Held(mem', bip') = old
    BY <1>0, <2>1, WriteContents
  <2>3. Open(mem', bip') \in [1 .. Len(open) -> Byte]
    BY <1>1, <2>1, LenProperties
  <2>4. Stream!Write
    BY <1>1, <2>2, <2>3 DEF Stream!Write
  <2> QED BY <2>4 DEF Stream!Next
<1>8. CASE ClearCall
  <2>1. Held(mem', bip') = <<>> /\ Open(mem', bip') = <<>>
    BY <1>8, ClearedContents DEF ClearCall, Clear
  <2> QED BY <1>1, <2>1 DEF Stream!Clear, Stream!Next
<1>9. CASE UNCHANGED vars
  BY <1>2, <1>9 DEF vars
<1> QED BY <1>3, <1>4, <1>5, <1>6, <1>7, <1>8, <1>9 DEF Next

(* The bytes read are the bytes committed, in order, for every size of the *)
(* array, every byte set and every order of calls: the object and its      *)
(* array implement the stream that is written in two phases.               *)
THEOREM IsStagedFifo == Spec => ImplementsStagedFifo
<1>1. Spec => []SoundState
  <2>1. TypeOK /\ RegionsOrdered /\ ReservationApart => SoundState
    BY SoundIsIInv DEF IInv
  <2> QED BY RegionsSafe, <2>1, PTL
<1>2. SoundState /\ SoundState' /\ [Next]_vars => [Stream!Next]_(Stream!vars)
  BY StreamStep
<1> QED BY <1>1, <1>2, StreamInit, PTL DEF Spec, ImplementsStagedFifo, Stream!Spec
=============================================================================
