------------------------ MODULE PacketFinder_proofs ------------------------
(***************************************************************************)
(* Proofs about the packet finder for every size of the buffer whose       *)
(* offsets fit a cell of the index queue, every size of that queue, every  *)
(* longest packet and every CRC.                                           *)
(***************************************************************************)
EXTENDS PacketFinder, WellFoundedInduction, SequenceTheorems, TLAPS

(* From where on bytes are kept: what start_data is during a call of       *)
(* PutBytes, and what the next one will make it.                           *)
Base == IF parsing THEN start_data ELSE FlushUnusedBytes

From(index) == Distance(Base, index)

(* Up to here the parser has decided about the bytes. *)
Decided == IF pf.state = "kStart" THEN pf.parse_index ELSE pf.packet_start_index

(* How far the parser is from the assumed length byte. *)
Parsed == Distance(pf.packet_start_index, pf.parse_index)

QueueOK(q) ==
  /\ q \in BQ!ByteQueue
  /\ q.count = IF q.end >= q.start THEN q.end - q.start ELSE q.end - q.start + IndexSize

InOrder ==
  /\ From(pf.packet_start_index) + Parsed = From(pf.parse_index)
  /\ From(pf.parse_index) <= From(end_data)
  /\ ~parsing => pf.parse_index = end_data

Place ==
  /\ pf.state = "kStart" => Parsed = 0 \/ Parsed = pf.received_length + 4
  /\ pf.state = "kLen" => Parsed = 0
  /\ pf.state = "kType" => Parsed = 1
  /\ pf.state = "kData" => Parsed = pf.data_bytes + 2 /\ pf.data_bytes < pf.received_length
  /\ pf.state = "kCRCL" => Parsed = pf.received_length + 2
  /\ pf.state = "kCRCH" => Parsed = pf.received_length + 3 /\ pf.received_crc \in ByteValue
  /\ pf.state \notin {"kStart", "kLen"} => buffer[pf.packet_start_index] = pf.received_length

(* Where the packet ends whose length byte is at start. *)
After(start) == From(start) + buffer[start] + 4

PacketsApart ==
  \A k \in 1 .. Len(Waiting) :
    /\ Waiting[k] \in Cell /\ buffer[Waiting[k]] <= MaxData
    /\ From(Waiting[k]) <= From(pf.packet_start_index)
    /\ After(Waiting[k]) <= From(Decided)
    /\ \A j \in k + 1 .. Len(Waiting) : After(Waiting[k]) <= From(Waiting[j])

IInv == TypeOK /\ QueueOK(packet_indices) /\ InOrder /\ Place /\ PacketsApart
-----------------------------------------------------------------------------
(* Going round the buffer. *)
LEMMA DistanceFacts ==
  ASSUME NEW a \in Cell, NEW b \in Cell
  PROVE  /\ Distance(a, b) \in 0 .. PacketBufferSize - 1
         /\ Distance(a, b) = 0 <=> a = b
BY SizeAssumption DEF Cell, Distance

LEMMA Rebase ==
  ASSUME NEW a \in Cell, NEW b \in Cell, NEW c \in Cell, Distance(a, b) <= Distance(a, c)
  PROVE  Distance(b, c) = Distance(a, c) - Distance(a, b)
BY SizeAssumption DEF Cell, Distance

LEMMA NextFacts ==
  ASSUME NEW a \in Cell, NEW b \in Cell, NEW c \in Cell, b # c, Distance(a, b) <= Distance(a, c)
  PROVE  /\ IncrementParseIndex(b) \in Cell
         /\ Distance(a, IncrementParseIndex(b)) = Distance(a, b) + 1
         /\ Distance(a, b) + 1 <= Distance(a, c)
BY SizeAssumption DEF Cell, Distance, IncrementParseIndex

-----------------------------------------------------------------------------
(* The index queue as the sequence of its items. *)
LEMMA ItemsFacts ==
  ASSUME NEW q, QueueOK(q)
  PROVE  /\ q.count \in 0 .. IndexSize - 1
         /\ Items(q) \in Seq(0 .. IndexMod - 1) /\ Len(Items(q)) = q.count
         /\ \A k \in 1 .. q.count : Items(q)[k] = q.data[Round(q.start, k - 1, IndexSize)]
         /\ BQ!IsEmptyBQ(q) <=> q.count = 0
         /\ BQ!PutRefused(q) <=> q.count = IndexSize - 1
         /\ q.count > 0 => BQ!PeekByteBQ(q) = Items(q)[1]
<1>1. /\ q.start \in 0 .. IndexSize - 1 /\ q.end \in 0 .. IndexSize - 1 /\ q.count \in Nat
  BY DEF QueueOK, BQ!ByteQueue, BQ!Index
<1>0. q.data \in [0 .. IndexSize - 1 -> 0 .. IndexMod - 1]
  BY DEF QueueOK, BQ!ByteQueue, BQ!Index
<1>2. q.count = IF q.end >= q.start THEN q.end - q.start ELSE q.end - q.start + IndexSize
  BY DEF QueueOK
<1>3. IndexSize \in Nat \ {0}
  BY SizeAssumption
<1>4. q.count \in 0 .. IndexSize - 1
  BY <1>1, <1>2, <1>3
<1>5. ASSUME NEW k \in 1 .. q.count
      PROVE  q.data[Round(q.start, k - 1, IndexSize)] \in 0 .. IndexMod - 1
  <2>1. Round(q.start, k - 1, IndexSize) \in 0 .. IndexSize - 1
    BY <1>1, <1>3, <1>4 DEF Round
  <2> QED BY <1>0, <2>1
<1>6. Items(q) \in [1 .. q.count -> 0 .. IndexMod - 1]
  BY <1>5 DEF Items
<1>7. Items(q) \in Seq(0 .. IndexMod - 1) /\ Len(Items(q)) = q.count
  <2> DEFINE m == q.count
             items == Items(q)
             Index == 0 .. IndexMod - 1
  <2>1. m \in Nat /\ items \in [1 .. m -> Index]
    BY <1>1, <1>6
  <2> HIDE DEF m, items, Index
  <2>2. items \in Seq(Index) /\ Len(items) = m
    BY <2>1
  <2> QED BY <2>2 DEF m, items, Index
<1>8. \A k \in 1 .. q.count : Items(q)[k] = q.data[Round(q.start, k - 1, IndexSize)]
  BY DEF Items
<1>9. BQ!IsEmptyBQ(q) <=> q.count = 0
  BY <1>1, <1>2, <1>3 DEF BQ!IsEmptyBQ
<1>10. BQ!PutRefused(q) <=> q.count = IndexSize - 1
  BY <1>1, <1>2, <1>3 DEF BQ!PutRefused, BQ!LastIndex
<1>11. q.count > 0 => BQ!PeekByteBQ(q) = Items(q)[1]
  <2> SUFFICES ASSUME q.count > 0 PROVE BQ!PeekByteBQ(q) = Items(q)[1]
    OBVIOUS
  <2>1. 1 \in 1 .. q.count /\ Round(q.start, 1 - 1, IndexSize) = q.start
    BY <1>1, <1>3, <1>4 DEF Round
  <2> QED BY <1>1, <1>8, <1>9, <2>1 DEF BQ!PeekByteBQ
<1> QED BY <1>4, <1>7, <1>8, <1>9, <1>10, <1>11

LEMMA PutItem ==
  ASSUME NEW q, QueueOK(q), NEW item \in 0 .. IndexMod - 1
  PROVE  /\ QueueOK(BQ!PutByteBQ(q, item))
         /\ Items(BQ!PutByteBQ(q, item))
              = IF q.count = IndexSize - 1 THEN Items(q) ELSE Append(Items(q), item)
<1> DEFINE r == BQ!PutByteBQ(q, item)
<1>0. q.data \in [0 .. IndexSize - 1 -> 0 .. IndexMod - 1] /\ q \in BQ!ByteQueue
  BY DEF QueueOK, BQ!ByteQueue, BQ!Index
<1>1. /\ q.start \in 0 .. IndexSize - 1 /\ q.end \in 0 .. IndexSize - 1 /\ q.count \in Nat
      /\ q.count = IF q.end >= q.start THEN q.end - q.start ELSE q.end - q.start + IndexSize
  BY DEF QueueOK, BQ!ByteQueue, BQ!Index
<1>2. IndexSize \in Nat \ {0}
  BY SizeAssumption
<1>3. CASE q.count = IndexSize - 1
  <2>1. r = q
    BY <1>3, ItemsFacts DEF BQ!PutByteBQ
  <2> QED BY <1>3, <2>1
<1>4. CASE q.count # IndexSize - 1
  <2> DEFINE e == q.end
             n == q.count
             new == BQ!Advance(e)
  <2>1. ~BQ!PutRefused(q) /\ n \in 0 .. IndexSize - 2
    BY <1>2, <1>4, ItemsFacts
  <2>2. r = [q EXCEPT !.data[e] = item, !.end = new, !.count = @ + 1]
    BY <2>1 DEF BQ!PutByteBQ
  <2>3. new \in 0 .. IndexSize - 1 /\ new = IF e + 1 = IndexSize THEN 0 ELSE e + 1
    BY <1>1, <1>2 DEF BQ!Advance, BQ!LastIndex
  <2> HIDE DEF r, new
  <2>4. /\ r.start = q.start /\ r.end = new /\ r.count = n + 1
        /\ r.data = [q.data EXCEPT ![e] = item]
    BY <1>0, <2>2 DEF BQ!ByteQueue
  <2>5. r \in BQ!ByteQueue
    <3>1. [q.data EXCEPT ![e] = item] \in [0 .. IndexSize - 1 -> 0 .. IndexMod - 1]
      BY <1>0, <1>1
    <3>2. r = [data |-> [q.data EXCEPT ![e] = item], start |-> q.start, end |-> new, count |-> n + 1]
      BY <1>0, <2>2 DEF BQ!ByteQueue
    <3> QED BY <1>0, <1>1, <2>1, <2>3, <3>1, <3>2 DEF BQ!ByteQueue, BQ!Index
  <2>6. QueueOK(r)
    <3>1. r.count = IF r.end >= r.start THEN r.end - r.start ELSE r.end - r.start + IndexSize
      BY <1>1, <1>2, <2>1, <2>3, <2>4
    <3> QED BY <2>5, <3>1 DEF QueueOK
  <2>7. Items(r) \in Seq(0 .. IndexMod - 1) /\ Len(Items(r)) = n + 1
        /\ \A k \in 1 .. n + 1 : Items(r)[k] = r.data[Round(q.start, k - 1, IndexSize)]
    <3>1. Items(r) \in Seq(0 .. IndexMod - 1) /\ Len(Items(r)) = r.count
          /\ \A k \in 1 .. r.count : Items(r)[k] = r.data[Round(r.start, k - 1, IndexSize)]
      BY <2>6, ItemsFacts
    <3> QED BY <2>4, <3>1
  <2>8. Items(q) \in Seq(0 .. IndexMod - 1) /\ Len(Items(q)) = n
        /\ \A k \in 1 .. n : Items(q)[k] = q.data[Round(q.start, k - 1, IndexSize)]
    BY ItemsFacts
  <2>9. /\ Append(Items(q), item) \in Seq(0 .. IndexMod - 1)
        /\ Len(Append(Items(q), item)) = n + 1
        /\ \A k \in 1 .. n : Append(Items(q), item)[k] = Items(q)[k]
        /\ Append(Items(q), item)[n + 1] = item
    BY <2>8, AppendProperties
  <2>10. ASSUME NEW k \in 1 .. n + 1 PROVE Items(r)[k] = Append(Items(q), item)[k]
    <3>1. CASE k = n + 1
      <4>1. Round(q.start, k - 1, IndexSize) = e
        BY <1>1, <1>2, <2>1, <3>1 DEF Round
      <4>2. r.data[e] = item
        BY <1>0, <1>1, <2>4
      <4>3. Items(r)[k] = r.data[e]
        BY <2>7, <4>1
      <4>4. Append(Items(q), item)[k] = item
        BY <2>9, <3>1
      <4> QED BY <4>2, <4>3, <4>4
    <3>2. CASE k \in 1 .. n
      <4>1. /\ Round(q.start, k - 1, IndexSize) # e
            /\ Round(q.start, k - 1, IndexSize) \in 0 .. IndexSize - 1
        BY <1>1, <1>2, <2>1, <3>2 DEF Round
      <4>2. Items(r)[k] = r.data[Round(q.start, k - 1, IndexSize)]
        BY <2>7
      <4>3. r.data[Round(q.start, k - 1, IndexSize)] = q.data[Round(q.start, k - 1, IndexSize)]
        BY <1>0, <2>4, <4>1
      <4>4. Append(Items(q), item)[k] = q.data[Round(q.start, k - 1, IndexSize)]
        BY <2>8, <2>9, <3>2
      <4> QED BY <4>2, <4>3, <4>4
    <3>3. k = n + 1 \/ k \in 1 .. n
      BY <2>1
    <3> QED BY <3>1, <3>2, <3>3
  <2>11. Items(r) = Append(Items(q), item)
    BY <2>7, <2>9, <2>10, SeqEqual
  <2> QED BY <1>4, <2>6, <2>11 DEF r
<1> QED BY <1>3, <1>4

LEMMA GetItem ==
  ASSUME NEW q, QueueOK(q), q.count > 0
  PROVE  QueueOK(BQ!GetByteBQ(q)) /\ Items(BQ!GetByteBQ(q)) = Tail(Items(q))
<1> DEFINE r == BQ!GetByteBQ(q)
           s == q.start
           n == q.count
           new == BQ!Advance(s)
<1>0. q.data \in [0 .. IndexSize - 1 -> 0 .. IndexMod - 1] /\ q \in BQ!ByteQueue
  BY DEF QueueOK, BQ!ByteQueue, BQ!Index
<1>1. /\ s \in 0 .. IndexSize - 1 /\ q.end \in 0 .. IndexSize - 1 /\ n \in Nat
      /\ n = IF q.end >= s THEN q.end - s ELSE q.end - s + IndexSize
  BY DEF QueueOK, BQ!ByteQueue, BQ!Index
<1>2. IndexSize \in Nat \ {0}
  BY SizeAssumption
<1>3. n \in 1 .. IndexSize - 1 /\ ~BQ!IsEmptyBQ(q)
  BY <1>1, ItemsFacts
<1>4. r = [q EXCEPT !.start = new, !.count = @ - 1]
  BY <1>3 DEF BQ!GetByteBQ
<1>5. new \in 0 .. IndexSize - 1 /\ new = IF s + 1 = IndexSize THEN 0 ELSE s + 1
  BY <1>1, <1>2 DEF BQ!Advance, BQ!LastIndex
<1> HIDE DEF r, new
<1>6. r.start = new /\ r.end = q.end /\ r.count = n - 1 /\ r.data = q.data
  BY <1>0, <1>4 DEF BQ!ByteQueue
<1>7. r \in BQ!ByteQueue
  <2>1. r = [data |-> q.data, start |-> new, end |-> q.end, count |-> n - 1]
    BY <1>0, <1>4 DEF BQ!ByteQueue
  <2>2. n - 1 \in Nat
    BY <1>3
  <2> QED BY <1>0, <1>1, <1>5, <2>1, <2>2 DEF BQ!ByteQueue, BQ!Index
<1>8. QueueOK(r)
  <2>1. r.count = IF r.end >= r.start THEN r.end - r.start ELSE r.end - r.start + IndexSize
    BY <1>1, <1>2, <1>3, <1>5, <1>6
  <2> QED BY <1>7, <2>1 DEF QueueOK
<1>9. Items(r) \in Seq(0 .. IndexMod - 1) /\ Len(Items(r)) = n - 1
      /\ \A k \in 1 .. n - 1 : Items(r)[k] = q.data[Round(new, k - 1, IndexSize)]
  BY <1>6, <1>8, ItemsFacts
<1>10. Items(q) \in Seq(0 .. IndexMod - 1) /\ Len(Items(q)) = n
       /\ \A k \in 1 .. n : Items(q)[k] = q.data[Round(s, k - 1, IndexSize)]
  BY ItemsFacts
<1>11. Items(q) # <<>>
  BY <1>3, <1>10
<1>12. /\ Tail(Items(q)) \in Seq(0 .. IndexMod - 1) /\ Len(Tail(Items(q))) = n - 1
       /\ \A k \in 1 .. n - 1 : Tail(Items(q))[k] = Items(q)[k + 1]
  BY <1>10, <1>11, HeadTailProperties
<1>13. ASSUME NEW k \in 1 .. n - 1 PROVE Items(r)[k] = Tail(Items(q))[k]
  <2>1. k + 1 \in 1 .. n /\ (k + 1) - 1 = k
    BY <1>3
  <2>2. Round(new, k - 1, IndexSize) = Round(s, k, IndexSize)
    BY <1>1, <1>2, <1>3, <1>5 DEF Round
  <2> QED BY <1>9, <1>10, <1>12, <2>1, <2>2
<1>14. Items(r) = Tail(Items(q))
  BY <1>9, <1>12, <1>13, SeqEqual
<1> QED BY <1>8, <1>14 DEF r

-----------------------------------------------------------------------------
(* How many bytes PutBytes copies. *)
Copied(start, bytes) == FirstHalf(start, bytes) + SecondHalf(start, bytes)

(* The copy puts bytes behind those that are kept, in order, and no byte   *)
(* that is kept is overwritten.                                            *)
LEMMA CopyFacts ==
  ASSUME NEW start \in Cell, end_data \in Cell, NEW bytes \in Seq(ByteValue),
         buffer \in [Cell -> ByteValue]
  PROVE  LET end == CopiedEnd(start, bytes)
             copy == CopiedBuffer(start, bytes)
             m == Copied(start, bytes)
         IN  /\ m \in 0 .. Len(bytes) /\ end \in Cell /\ copy \in [Cell -> ByteValue]
             /\ Distance(start, end) = Distance(start, end_data) + m
             /\ \A i \in Cell : Distance(start, i) < Distance(start, end_data) => copy[i] = buffer[i]
             /\ \A j \in 1 .. m : copy[Round(end_data, j - 1, PacketBufferSize)] = bytes[j]
<1> DEFINE end == CopiedEnd(start, bytes)
           copy == CopiedBuffer(start, bytes)
           m == Copied(start, bytes)
           first == FirstHalf(start, bytes)
           second == SecondHalf(start, bytes)
           n == Len(bytes)
           N == PacketBufferSize
           e == end_data
<1>1. n \in Nat /\ N \in Nat \ {0} /\ start \in 0 .. N - 1 /\ e \in 0 .. N - 1
  BY SizeAssumption, LenProperties DEF Cell
<1>2. /\ first = Lesser(EndSpace(start), n) /\ second = Lesser(StartSpace(start), n - first)
      /\ end = IF second > 0 THEN second ELSE IF e + first > N - 1 THEN 0 ELSE e + first
      /\ m = first + second
  BY DEF FirstHalf, SecondHalf, CopiedEnd, Copied
<1>0. copy = [i \in Cell |-> IF i >= e /\ i < e + first THEN bytes[i - e + 1]
                           ELSE IF i < second THEN bytes[first + i + 1] ELSE buffer[i]]
  BY DEF CopiedBuffer
<1>3. \A j \in 1 .. n : bytes[j] \in ByteValue
  BY ElementOfSeq
<1> HIDE DEF end, copy, m, first, second, n, N, e
<1>4. /\ EndSpace(start) = IF e < start THEN start - e - 1 ELSE IF start = 0 THEN N - 1 - e ELSE N - e
      /\ StartSpace(start) = IF e < start \/ start = 0 THEN 0 ELSE start - 1
  BY DEF EndSpace, StartSpace, N, e
<1>5. EndSpace(start) \in Nat /\ StartSpace(start) \in Nat
  BY <1>1, <1>4
<1>6. /\ first \in Nat /\ first <= EndSpace(start) /\ first <= n /\ (first < n => first = EndSpace(start))
      /\ second \in Nat /\ second <= StartSpace(start) /\ second <= n - first
  <2>1. first = IF EndSpace(start) < n THEN EndSpace(start) ELSE n
    BY <1>2 DEF Lesser
  <2>2. first \in Nat /\ first <= EndSpace(start) /\ first <= n /\ (first < n => first = EndSpace(start))
    BY <1>1, <1>5, <2>1
  <2>3. second = IF StartSpace(start) < n - first THEN StartSpace(start) ELSE n - first
    BY <1>2 DEF Lesser
  <2> QED BY <1>1, <1>5, <2>2, <2>3
<1>7. second > 0 => first = EndSpace(start) /\ EndSpace(start) = N - e /\ start <= e
  BY <1>1, <1>4, <1>5, <1>6
<1>8. m \in 0 .. n /\ end \in 0 .. N - 1
  <2>1. m \in 0 .. n
    BY <1>1, <1>2, <1>6
  <2>2. CASE second > 0
    BY <1>1, <1>2, <1>4, <1>6, <2>1, <2>2
  <2>3. CASE second = 0
    <3>1. first <= N - e
      BY <1>1, <1>4, <1>6
    <3>2. end = IF e + first > N - 1 THEN 0 ELSE e + first
      BY <1>2, <1>6, <2>3
    <3> QED BY <1>1, <1>6, <2>1, <3>1, <3>2
  <2> QED BY <1>6, <2>2, <2>3
<1>9. Distance(start, end) = Distance(start, e) + m
  <2>1. /\ Distance(start, end) = IF end >= start THEN end - start ELSE end - start + N
        /\ Distance(start, e) = IF e >= start THEN e - start ELSE e - start + N
    BY DEF Distance, N
  <2>2. CASE second > 0
    <3>1. first = N - e /\ start <= e /\ second < start /\ end = second /\ m = first + second
      BY <1>1, <1>2, <1>4, <1>6, <1>7, <2>2
    <3> QED BY <1>1, <1>6, <2>1, <3>1
  <2>3. CASE second = 0
    <3>1. m = first /\ end = IF e + first > N - 1 THEN 0 ELSE e + first
      BY <1>2, <1>6, <2>3
    <3>2. CASE e < start
      <4>1. first <= start - e - 1
        BY <1>4, <1>6, <3>2
      <4> QED BY <1>1, <1>6, <2>1, <3>1, <3>2, <4>1
    <3>3. CASE start = 0 /\ start <= e
      <4>1. first <= N - 1 - e
        BY <1>1, <1>4, <1>6, <3>3
      <4> QED BY <1>1, <1>6, <2>1, <3>1, <3>3, <4>1
    <3>4. CASE start # 0 /\ start <= e
      <4>1. first <= N - e
        BY <1>1, <1>4, <1>6, <3>4
      <4> QED BY <1>1, <1>6, <2>1, <3>1, <3>4, <4>1
    <3> QED BY <1>1, <3>2, <3>3, <3>4
  <2> QED BY <1>6, <2>2, <2>3
<1>10. ASSUME NEW i \in Cell PROVE copy[i] \in ByteValue
  <2>1. i \in 0 .. N - 1
    BY DEF Cell, N
  <2>2. CASE i >= e /\ i < e + first
    <3>1. i - e + 1 \in 1 .. n
      BY <1>1, <1>6, <2>1, <2>2
    <3> QED BY <1>0, <1>3, <2>2, <3>1
  <2>3. CASE ~(i >= e /\ i < e + first) /\ i < second
    <3>1. first + i + 1 \in 1 .. n
      BY <1>1, <1>6, <2>1, <2>3
    <3> QED BY <1>0, <1>3, <2>3, <3>1
  <2>4. CASE ~(i >= e /\ i < e + first) /\ ~(i < second)
    BY <1>0, <2>4
  <2> QED BY <2>2, <2>3, <2>4
<1>11. ASSUME NEW i \in Cell, Distance(start, i) < Distance(start, e) PROVE copy[i] = buffer[i]
  <2>1. i \in 0 .. N - 1
    BY DEF Cell, N
  <2>2. /\ Distance(start, i) = IF i >= start THEN i - start ELSE i - start + N
        /\ Distance(start, e) = IF e >= start THEN e - start ELSE e - start + N
    BY DEF Distance, N
  <2>3. ~(i >= e /\ i < e + first) /\ ~(i < second)
    BY <1>1, <1>4, <1>6, <1>7, <1>11, <2>1, <2>2
  <2> QED BY <1>0, <2>3
<1>12. ASSUME NEW j \in 1 .. m PROVE copy[Round(e, j - 1, N)] = bytes[j]
  <2> DEFINE i == Round(e, j - 1, N)
  <2>1. i = IF e + (j - 1) >= N THEN e + (j - 1) - N ELSE e + (j - 1)
    BY DEF Round
  <2> HIDE DEF i
  <2>2. CASE j <= first
    <3>1. e + first <= N
      BY <1>1, <1>4, <1>6
    <3>2. i = e + (j - 1) /\ i \in 0 .. N - 1 /\ i >= e /\ i < e + first /\ i - e + 1 = j
      BY <1>1, <1>6, <1>8, <2>1, <2>2, <3>1
    <3>3. i \in Cell
      BY <3>2 DEF Cell, N
    <3> QED BY <1>0, <3>2, <3>3 DEF i
  <2>3. CASE ~(j <= first)
    <3>1. second > 0 /\ e + first = N
      <4>1. first < m /\ second > 0
        BY <1>2, <1>6, <1>8, <2>3
      <4> QED BY <1>1, <1>6, <1>7, <4>1
    <3>2. i = j - 1 - first /\ i \in 0 .. N - 1 /\ i < second /\ first + i + 1 = j /\ ~(i >= e)
      <4>1. second < start /\ start <= e /\ m = first + second /\ j \in Nat /\ j <= m /\ first < j
        <5>1. second < start /\ start <= e
          BY <1>1, <1>4, <1>6, <3>1
        <5>2. m = first + second /\ j \in Nat /\ j <= m
          BY <1>2, <1>8
        <5> QED BY <1>6, <2>3, <5>1, <5>2
      <4>2. e + (j - 1) >= N
        BY <1>1, <1>6, <3>1, <4>1
      <4>3. i = e + (j - 1) - N
        BY <2>1, <4>2
      <4> QED BY <1>1, <1>6, <3>1, <4>1, <4>3
    <3>3. i \in Cell
      BY <3>2 DEF Cell, N
    <3> QED BY <1>0, <3>2, <3>3 DEF i
  <2> QED BY <1>1, <1>6, <1>8, <2>2, <2>3
<1>13. copy \in [Cell -> ByteValue]
  BY <1>0, <1>10
<1>14. end \in Cell
  BY <1>8 DEF Cell, N
<1> QED BY <1>8, <1>9, <1>11, <1>12, <1>13, <1>14 DEF end, copy, m, n, N, e

-----------------------------------------------------------------------------
LEMMA Fields ==
  ASSUME TypeOK
  PROVE  /\ start_data \in Cell /\ end_data \in Cell /\ buffer \in [Cell -> ByteValue]
         /\ pf.parse_index \in Cell /\ pf.packet_start_index \in Cell
         /\ pf.state \in State /\ pf.received_length \in 0 .. MaxData /\ pf.data_bytes \in 0 .. MaxData
         /\ pf.expected_crc \in CrcValue /\ pf.received_crc \in CrcValue
         /\ parsing \in BOOLEAN /\ Decided \in Cell
BY DEF TypeOK, Decided

LEMMA WaitingFacts ==
  ASSUME IInv
  PROVE  /\ Waiting \in Seq(0 .. IndexMod - 1) /\ Len(Waiting) \in Nat
         /\ Len(Waiting) = 0 => FlushUnusedBytes = pf.packet_start_index
         /\ Len(Waiting) > 0 => FlushUnusedBytes = Waiting[1]
         /\ Base \in Cell
<1>1. QueueOK(packet_indices)
  BY DEF IInv
<1>2. /\ Waiting \in Seq(0 .. IndexMod - 1) /\ Len(Waiting) = packet_indices.count
      /\ packet_indices.count \in 0 .. IndexSize - 1
      /\ BQ!IsEmptyBQ(packet_indices) <=> packet_indices.count = 0
      /\ packet_indices.count > 0 => BQ!PeekByteBQ(packet_indices) = Waiting[1]
  BY <1>1, ItemsFacts DEF Waiting
<1>3. Len(Waiting) \in Nat
  BY <1>2, LenProperties
<1>4. /\ Len(Waiting) = 0 => FlushUnusedBytes = pf.packet_start_index
      /\ Len(Waiting) > 0 => FlushUnusedBytes = Waiting[1]
  BY <1>2, <1>3 DEF FlushUnusedBytes
<1>5. FlushUnusedBytes \in Cell
  <2>1. pf.packet_start_index \in Cell
    BY Fields DEF IInv
  <2>2. Len(Waiting) > 0 => Waiting[1] \in Cell
    BY <1>3 DEF IInv, PacketsApart
  <2> QED BY <1>3, <1>4, <2>1, <2>2
<1>6. start_data \in Cell
  BY Fields DEF IInv
<1> QED BY <1>2, <1>3, <1>4, <1>5, <1>6 DEF Base

(* While the loop runs: where the byte after this one is. *)
LEMMA NextPlace ==
  ASSUME IInv, parsing, pf.parse_index # end_data
  PROVE  /\ Base = start_data /\ NextIndex \in Cell
         /\ From(NextIndex) = From(pf.parse_index) + 1 /\ From(NextIndex) <= From(end_data)
         /\ Distance(pf.packet_start_index, NextIndex) = Parsed + 1
         /\ From(pf.packet_start_index) + Parsed = From(pf.parse_index)
         /\ From(pf.packet_start_index) \in Nat /\ Parsed \in Nat /\ From(end_data) \in Nat
         /\ ThisByte \in ByteValue
<1> DEFINE psi == pf.packet_start_index
           at == pf.parse_index
<1>1. /\ start_data \in Cell /\ end_data \in Cell /\ psi \in Cell /\ at \in Cell
      /\ buffer \in [Cell -> ByteValue]
  BY Fields DEF IInv
<1>2. Base = start_data
  BY DEF Base
<1>3. /\ Distance(start_data, psi) + Distance(psi, at) = Distance(start_data, at)
      /\ Distance(start_data, at) <= Distance(start_data, end_data)
  BY <1>2 DEF IInv, InOrder, From, Parsed
<1> HIDE DEF psi, at
<1>4. /\ Distance(start_data, psi) \in Nat /\ Distance(psi, at) \in Nat
      /\ Distance(start_data, at) \in Nat /\ Distance(start_data, end_data) \in Nat
  BY <1>1, DistanceFacts
<1>5. at # end_data
  BY DEF at
<1>6. /\ IncrementParseIndex(at) \in Cell
      /\ Distance(start_data, IncrementParseIndex(at)) = Distance(start_data, at) + 1
      /\ Distance(start_data, at) + 1 <= Distance(start_data, end_data)
  BY <1>1, <1>3, <1>5, NextFacts
<1>7. Distance(psi, end_data) = Distance(start_data, end_data) - Distance(start_data, psi)
  <2>1. Distance(start_data, psi) <= Distance(start_data, end_data)
    BY <1>3, <1>4
  <2> QED BY <1>1, <2>1, Rebase
<1>8. Distance(psi, at) <= Distance(psi, end_data)
  BY <1>3, <1>4, <1>7
<1>9. Distance(psi, IncrementParseIndex(at)) = Distance(psi, at) + 1
  BY <1>1, <1>5, <1>8, NextFacts
<1>10. ThisByte \in ByteValue
  BY <1>1 DEF ThisByte, at
<1> QED BY <1>2, <1>3, <1>4, <1>6, <1>9, <1>10 DEF From, Parsed, NextIndex, psi, at

(* A step of the parser that finishes no packet leaves the waiting ones as *)
(* they are.                                                               *)
LEMMA ParserMoves ==
  ASSUME IInv, parsing,
         UNCHANGED <<start_data, end_data, buffer, parsing, packet_indices>>,
         pf'.parse_index \in Cell, pf'.packet_start_index \in Cell,
         From(pf.packet_start_index) <= From(pf'.packet_start_index),
         From(pf'.packet_start_index) + Distance(pf'.packet_start_index, pf'.parse_index)
           = From(pf'.parse_index),
         From(pf'.parse_index) <= From(end_data),
         From(Decided) <= From(Decided')
  PROVE  QueueOK(packet_indices)' /\ InOrder' /\ PacketsApart'
<1>1. Base = start_data /\ Base' = Base /\ \A i : From(i)' = Distance(Base, i)
  BY DEF Base, From
<1>2. Parsed' = Distance(pf'.packet_start_index, pf'.parse_index)
  BY DEF Parsed
<1>3. InOrder'
  BY <1>1, <1>2 DEF InOrder, From
<1>4. Waiting' = Waiting
  BY DEF Waiting, Items
<1>5. Base \in Cell /\ Len(Waiting) \in Nat
  BY WaitingFacts
<1>6. Decided' \in Cell /\ Decided \in Cell
  BY Fields DEF IInv, Decided
<1>7. PacketsApart'
  <2> SUFFICES ASSUME NEW k \in 1 .. Len(Waiting)
               PROVE  /\ Waiting[k] \in Cell /\ buffer[Waiting[k]] <= MaxData
                      /\ From(Waiting[k]) <= From(pf'.packet_start_index)
                      /\ After(Waiting[k]) <= From(Decided')
                      /\ \A j \in k + 1 .. Len(Waiting) : After(Waiting[k]) <= From(Waiting[j])
    BY <1>1, <1>4 DEF PacketsApart, From, After
  <2>1. /\ Waiting[k] \in Cell /\ buffer[Waiting[k]] <= MaxData
        /\ From(Waiting[k]) <= From(pf.packet_start_index)
        /\ After(Waiting[k]) <= From(Decided)
        /\ \A j \in k + 1 .. Len(Waiting) : After(Waiting[k]) <= From(Waiting[j])
    BY DEF IInv, PacketsApart
  <2>2. buffer[Waiting[k]] \in Nat
    BY <2>1, Fields, SizeAssumption DEF IInv, ByteValue
  <2>3. /\ From(Waiting[k]) \in Nat /\ From(pf.packet_start_index) \in Nat
        /\ From(pf'.packet_start_index) \in Nat /\ From(Decided) \in Nat /\ From(Decided') \in Nat
    <3>1. \A i \in Cell : From(i) \in Nat
      BY <1>5, DistanceFacts DEF From
    <3>2. pf.packet_start_index \in Cell
      BY Fields DEF IInv
    <3> QED BY <1>6, <2>1, <3>1, <3>2
  <2>4. After(Waiting[k]) \in Nat
    BY <2>2, <2>3 DEF After
  <2> QED BY <2>1, <2>3, <2>4
<1> QED BY <1>3, <1>7 DEF IInv, QueueOK

-----------------------------------------------------------------------------
(* The steps of the parser that leave the queue as it is: what is asked of *)
(* the new fields of the parser. *)
LEMMA ParserKeeps ==
  ASSUME IInv, parsing, pf.parse_index # end_data,
         UNCHANGED <<start_data, end_data, buffer, parsing, buffer_status, packet_indices>>,
         pf' \in [state : State, parse_index : Cell, packet_start_index : Cell,
                  received_length : 0 .. MaxData, expected_crc : CrcValue,
                  received_crc : CrcValue, data_bytes : 0 .. MaxData],
         \/ pf'.packet_start_index = pf.packet_start_index
            /\ pf'.parse_index \in {pf.packet_start_index, NextIndex}
         \/ pf'.packet_start_index = NextIndex /\ pf'.parse_index = NextIndex,
         From(Decided) <= From(Decided'),
         Place'
  PROVE  IInv'
<1> DEFINE psi == pf.packet_start_index
<1>1. /\ NextIndex \in Cell
      /\ From(NextIndex) = From(pf.parse_index) + 1 /\ From(NextIndex) <= From(end_data)
      /\ Distance(psi, NextIndex) = Parsed + 1
      /\ From(psi) + Parsed = From(pf.parse_index)
      /\ From(psi) \in Nat /\ Parsed \in Nat /\ From(end_data) \in Nat
  BY NextPlace
<1>2. psi \in Cell
  BY Fields DEF IInv
<1>3. Distance(psi, psi) = 0 /\ Distance(NextIndex, NextIndex) = 0
  BY <1>1, <1>2, DistanceFacts
<1> HIDE DEF psi
<1>4. /\ From(psi) <= From(pf'.packet_start_index)
      /\ From(pf'.packet_start_index) + Distance(pf'.packet_start_index, pf'.parse_index)
           = From(pf'.parse_index)
      /\ From(pf'.parse_index) <= From(end_data)
  <2>1. CASE pf'.packet_start_index = NextIndex /\ pf'.parse_index = NextIndex
    BY <1>1, <1>3, <2>1
  <2>2. CASE pf'.packet_start_index = psi /\ pf'.parse_index = psi
    BY <1>1, <1>3, <2>2
  <2>3. CASE pf'.packet_start_index = psi /\ pf'.parse_index = NextIndex
    BY <1>1, <2>3
  <2> QED BY <2>1, <2>2, <2>3 DEF psi
<1>5. pf'.parse_index \in Cell /\ pf'.packet_start_index \in Cell
  OBVIOUS
<1>6. QueueOK(packet_indices)' /\ InOrder' /\ PacketsApart'
  BY <1>4, <1>5, ParserMoves DEF psi
<1>7. TypeOK'
  BY DEF IInv, TypeOK
<1> QED BY <1>6, <1>7 DEF IInv

LEMMA StartKeeps == IInv /\ ParseStart => IInv'
<1> SUFFICES ASSUME IInv, ParseStart PROVE IInv'
  OBVIOUS
<1> DEFINE new == [pf EXCEPT !.state = IF ThisByte = StartByte THEN "kLen" ELSE "kStart",
                            !.parse_index = NextIndex, !.packet_start_index = NextIndex]
<1>1. /\ parsing /\ pf.parse_index # end_data /\ pf.state = "kStart" /\ pf' = new
      /\ UNCHANGED <<start_data, end_data, buffer, parsing, buffer_status, packet_indices>>
  BY DEF ParseStart, Parse
<1>2. /\ NextIndex \in Cell /\ From(NextIndex) = From(pf.parse_index) + 1
      /\ From(pf.packet_start_index) + Parsed = From(pf.parse_index)
      /\ From(pf.packet_start_index) \in Nat /\ Parsed \in Nat
  BY <1>1, NextPlace
<1>3. pf' \in [state : State, parse_index : Cell, packet_start_index : Cell,
               received_length : 0 .. MaxData, expected_crc : CrcValue,
               received_crc : CrcValue, data_bytes : 0 .. MaxData]
  BY <1>1, <1>2 DEF IInv, TypeOK, State
<1>4. /\ pf'.packet_start_index = NextIndex /\ pf'.parse_index = NextIndex
      /\ pf'.state \in {"kStart", "kLen"}
  BY <1>1 DEF IInv, TypeOK
<1>5. Place'
  <2>1. Parsed' = 0
    BY <1>2, <1>4, DistanceFacts DEF Parsed
  <2> QED BY <1>4, <2>1 DEF Place
<1>6. From(Decided) <= From(Decided')
  <2>1. Decided = pf.parse_index /\ Decided' = NextIndex
    BY <1>1, <1>4 DEF Decided
  <2> QED BY <1>2, <2>1
<1> QED BY <1>1, <1>3, <1>4, <1>5, <1>6, ParserKeeps

LEMMA LenKeeps == IInv /\ ParseLen => IInv'
<1> SUFFICES ASSUME IInv, ParseLen PROVE IInv'
  OBVIOUS
<1>1. /\ parsing /\ pf.parse_index # end_data /\ pf.state = "kLen"
      /\ pf' = IF ThisByte <= MaxData
               THEN [pf EXCEPT !.state = "kType", !.packet_start_index = pf.parse_index,
                               !.received_length = ThisByte, !.expected_crc = MakeCrc(ThisByte),
                               !.parse_index = NextIndex]
               ELSE [pf EXCEPT !.state = "kStart", !.packet_start_index = pf.parse_index]
      /\ UNCHANGED <<start_data, end_data, buffer, parsing, buffer_status, packet_indices>>
  BY DEF ParseLen, Parse
<1>2. /\ NextIndex \in Cell /\ Distance(pf.packet_start_index, NextIndex) = Parsed + 1
      /\ Parsed \in Nat /\ ThisByte \in ByteValue
      /\ From(pf.packet_start_index) \in Nat
  BY <1>1, NextPlace
<1>3. Parsed = 0
  BY <1>1 DEF IInv, Place
<1>4. pf.parse_index = pf.packet_start_index
  BY <1>3, Fields, DistanceFacts DEF IInv, Parsed
<1>5. Decided = pf.packet_start_index
  BY <1>1 DEF Decided
<1>6. CASE ThisByte <= MaxData
  <2>1. /\ pf'.packet_start_index = pf.packet_start_index /\ pf'.parse_index = NextIndex
        /\ pf'.state = "kType" /\ pf'.received_length = ThisByte
    BY <1>1, <1>4, <1>6 DEF IInv, TypeOK
  <2>2. ThisByte \in 0 .. MaxData /\ MakeCrc(ThisByte) \in CrcValue
    <3>1. ThisByte \in Nat /\ MaxData \in Nat
      BY <1>2, StartAssumption DEF ByteValue
    <3>2. MakeCrc(ThisByte) \in CrcValue
      <4>1. pf.expected_crc \in CrcValue
        BY Fields DEF IInv
      <4> QED BY <1>2, <4>1, CrcAssumption
    <3> QED BY <1>6, <3>1, <3>2
  <2>3. pf' \in [state : State, parse_index : Cell, packet_start_index : Cell,
                 received_length : 0 .. MaxData, expected_crc : CrcValue,
                 received_crc : CrcValue, data_bytes : 0 .. MaxData]
    BY <1>1, <1>2, <1>6, <2>2 DEF IInv, TypeOK, State
  <2>4. Place'
    <3>1. Parsed' = 1
      BY <1>2, <1>3, <2>1 DEF Parsed
    <3>2. buffer'[pf'.packet_start_index] = pf'.received_length
      BY <1>1, <1>4, <2>1 DEF ThisByte
    <3> QED BY <2>1, <3>1, <3>2 DEF Place
  <2>5. From(Decided) <= From(Decided')
    <3>1. Decided' = pf.packet_start_index
      BY <2>1 DEF Decided
    <3> QED BY <1>2, <1>5, <3>1
  <2> QED BY <1>1, <2>1, <2>3, <2>4, <2>5, ParserKeeps
<1>7. CASE ~(ThisByte <= MaxData)
  <2>1. /\ pf'.packet_start_index = pf.packet_start_index
        /\ pf'.parse_index = pf.packet_start_index /\ pf'.state = "kStart"
    BY <1>1, <1>4, <1>7 DEF IInv, TypeOK
  <2>2. pf' \in [state : State, parse_index : Cell, packet_start_index : Cell,
                 received_length : 0 .. MaxData, expected_crc : CrcValue,
                 received_crc : CrcValue, data_bytes : 0 .. MaxData]
    BY <1>1, <1>2, <1>7 DEF IInv, TypeOK, State
  <2>3. Place'
    <3>1. Parsed' = 0
      BY <1>3, <1>4, <2>1 DEF Parsed
    <3> QED BY <2>1, <3>1 DEF Place
  <2>4. From(Decided) <= From(Decided')
    <3>1. Decided' = pf.packet_start_index
      BY <2>1 DEF Decided
    <3> QED BY <1>2, <1>5, <3>1
  <2> QED BY <1>1, <2>1, <2>2, <2>3, <2>4, ParserKeeps
<1> QED BY <1>6, <1>7

(* The steps that take one byte of the packet after its length.            *)
LEMMA InsideKeeps ==
  ASSUME IInv, NEW new, NEW state, Parse(state, new),
         state \in {"kType", "kData", "kCRCL"}, UNCHANGED packet_indices,
         new \in [state : State, parse_index : Cell, packet_start_index : Cell,
                  received_length : 0 .. MaxData, expected_crc : CrcValue,
                  received_crc : CrcValue, data_bytes : 0 .. MaxData],
         new.packet_start_index = pf.packet_start_index, new.parse_index = NextIndex,
         new.received_length = pf.received_length,
         \/ new.state = "kData" /\ Parsed = new.data_bytes + 1 /\ new.data_bytes < pf.received_length
         \/ new.state = "kCRCL" /\ Parsed = pf.received_length + 1
         \/ new.state = "kCRCH" /\ Parsed = pf.received_length + 2 /\ new.received_crc \in ByteValue
  PROVE  IInv'
<1>1. /\ parsing /\ pf.parse_index # end_data /\ pf.state = state /\ pf' = new
      /\ UNCHANGED <<start_data, end_data, buffer, parsing, buffer_status, packet_indices>>
  BY DEF Parse
<1>2. /\ NextIndex \in Cell /\ Distance(pf.packet_start_index, NextIndex) = Parsed + 1
      /\ Parsed \in Nat /\ From(pf.packet_start_index) \in Nat
  BY <1>1, NextPlace
<1>3. Parsed' = Parsed + 1
  BY <1>1, <1>2 DEF Parsed
<1>4. buffer'[pf'.packet_start_index] = pf'.received_length
  BY <1>1 DEF IInv, Place
<1>5. new.data_bytes \in Nat /\ pf.received_length \in Nat
  BY Fields DEF IInv
<1>6. Place'
  BY <1>1, <1>2, <1>3, <1>4, <1>5 DEF Place
<1>7. From(Decided) <= From(Decided')
  <2>1. Decided' = pf.packet_start_index /\ Decided = pf.packet_start_index
    BY <1>1 DEF Decided
  <2> QED BY <1>2, <2>1
<1> QED BY <1>1, <1>6, <1>7, ParserKeeps

LEMMA TypeKeeps == IInv /\ ParseType => IInv'
<1> SUFFICES ASSUME IInv, ParseType PROVE IInv'
  OBVIOUS
<1> DEFINE new == [pf EXCEPT !.expected_crc = ByteUpdateCrc(@, ThisByte),
                            !.state = IF pf.received_length > 0 THEN "kData" ELSE "kCRCL",
                            !.data_bytes = 0, !.parse_index = NextIndex]
<1>1. Parse("kType", new) /\ UNCHANGED packet_indices
  BY DEF ParseType
<1>2. NextIndex \in Cell /\ ThisByte \in ByteValue
  BY <1>1, NextPlace DEF Parse
<1>3. ByteUpdateCrc(pf.expected_crc, ThisByte) \in CrcValue
  BY <1>2, Fields, CrcAssumption DEF IInv
<1>4. 0 \in 0 .. MaxData /\ pf.received_length \in 0 .. MaxData
  BY StartAssumption, Fields DEF IInv
<1>5. /\ new \in [state : State, parse_index : Cell, packet_start_index : Cell,
                  received_length : 0 .. MaxData, expected_crc : CrcValue,
                  received_crc : CrcValue, data_bytes : 0 .. MaxData]
      /\ new.packet_start_index = pf.packet_start_index /\ new.parse_index = NextIndex
      /\ new.received_length = pf.received_length /\ new.data_bytes = 0
      /\ new.state = IF pf.received_length > 0 THEN "kData" ELSE "kCRCL"
  BY <1>2, <1>3, <1>4 DEF IInv, TypeOK, State
<1>6. Parsed = 1
  BY <1>1 DEF IInv, Place, Parse
<1> HIDE DEF new
<1> QED BY <1>1, <1>4, <1>5, <1>6, InsideKeeps

LEMMA DataKeeps == IInv /\ ParseData => IInv'
<1> SUFFICES ASSUME IInv, ParseData PROVE IInv'
  OBVIOUS
<1> DEFINE new == [pf EXCEPT !.expected_crc = ByteUpdateCrc(@, ThisByte), !.data_bytes = @ + 1,
                            !.state = IF pf.data_bytes + 1 >= pf.received_length
                                      THEN "kCRCL" ELSE "kData",
                            !.parse_index = NextIndex]
<1>1. Parse("kData", new) /\ UNCHANGED packet_indices
  BY DEF ParseData
<1>2. NextIndex \in Cell /\ ThisByte \in ByteValue
  BY <1>1, NextPlace DEF Parse
<1>3. ByteUpdateCrc(pf.expected_crc, ThisByte) \in CrcValue
  BY <1>2, Fields, CrcAssumption DEF IInv
<1>4. Parsed = pf.data_bytes + 2 /\ pf.data_bytes < pf.received_length
  BY <1>1 DEF IInv, Place, Parse
<1>5. /\ MaxData \in Nat /\ pf.received_length \in 0 .. MaxData /\ pf.data_bytes \in Nat
      /\ pf.data_bytes + 1 \in 0 .. MaxData
  BY <1>4, StartAssumption, Fields DEF IInv
<1>6. /\ new \in [state : State, parse_index : Cell, packet_start_index : Cell,
                  received_length : 0 .. MaxData, expected_crc : CrcValue,
                  received_crc : CrcValue, data_bytes : 0 .. MaxData]
      /\ new.packet_start_index = pf.packet_start_index /\ new.parse_index = NextIndex
      /\ new.received_length = pf.received_length /\ new.data_bytes = pf.data_bytes + 1
      /\ new.state = IF pf.data_bytes + 1 >= pf.received_length THEN "kCRCL" ELSE "kData"
  BY <1>2, <1>3, <1>5 DEF IInv, TypeOK, State
<1> HIDE DEF new
<1>7. \/ new.state = "kData" /\ Parsed = new.data_bytes + 1 /\ new.data_bytes < pf.received_length
      \/ new.state = "kCRCL" /\ Parsed = pf.received_length + 1
  BY <1>4, <1>5, <1>6
<1> QED BY <1>1, <1>6, <1>7, InsideKeeps

LEMMA LowKeeps == IInv /\ ParseCRCL => IInv'
<1> SUFFICES ASSUME IInv, ParseCRCL PROVE IInv'
  OBVIOUS
<1> DEFINE new == [pf EXCEPT !.received_crc = ThisByte, !.state = "kCRCH", !.parse_index = NextIndex]
<1>1. Parse("kCRCL", new) /\ UNCHANGED packet_indices
  BY DEF ParseCRCL
<1>2. NextIndex \in Cell /\ ThisByte \in ByteValue
  BY <1>1, NextPlace DEF Parse
<1>3. ThisByte \in CrcValue
  <2>1. ByteMod \in Nat \ {0} /\ ByteMod <= ByteMod * ByteMod
    BY SizeAssumption
  <2> QED BY <1>2, <2>1 DEF ByteValue, CrcValue
<1>4. Parsed = pf.received_length + 2
  BY <1>1 DEF IInv, Place, Parse
<1>5. /\ new \in [state : State, parse_index : Cell, packet_start_index : Cell,
                  received_length : 0 .. MaxData, expected_crc : CrcValue,
                  received_crc : CrcValue, data_bytes : 0 .. MaxData]
      /\ new.packet_start_index = pf.packet_start_index /\ new.parse_index = NextIndex
      /\ new.received_length = pf.received_length /\ new.received_crc = ThisByte
      /\ new.state = "kCRCH"
  BY <1>2, <1>3 DEF IInv, TypeOK, State
<1> HIDE DEF new
<1> QED BY <1>1, <1>2, <1>4, <1>5, InsideKeeps

(* Both bytes of a CRC make a CRC. *)
LEMMA CrcOfBytes ==
  ASSUME NEW low \in ByteValue, NEW high \in ByteValue
  PROVE  low + ByteMod * high \in CrcValue
<1> DEFINE N == ByteMod
<1>1. N \in Nat \ {0} /\ low \in Nat /\ high \in Nat /\ low <= N - 1 /\ high <= N - 1
  BY SizeAssumption DEF ByteValue
<1> HIDE DEF N
<1>2. N * high <= N * (N - 1) /\ N * high \in Nat /\ N * (N - 1) = N * N - N /\ N * N \in Nat
  BY <1>1
<1> QED BY <1>1, <1>2 DEF CrcValue, N

LEMMA RejectKeeps == IInv /\ RejectPacket => IInv'
<1> SUFFICES ASSUME IInv, RejectPacket PROVE IInv'
  OBVIOUS
<1> DEFINE new == [pf EXCEPT !.received_crc = ReceivedCrc, !.state = "kStart",
                            !.parse_index = pf.packet_start_index]
<1>1. /\ parsing /\ pf.parse_index # end_data /\ pf.state = "kCRCH" /\ pf' = new
      /\ UNCHANGED <<start_data, end_data, buffer, parsing, buffer_status, packet_indices>>
  BY DEF RejectPacket, Parse
<1>2. /\ ThisByte \in ByteValue /\ From(pf.packet_start_index) \in Nat
      /\ pf.packet_start_index \in Cell
  BY <1>1, NextPlace, Fields DEF IInv
<1>3. ReceivedCrc \in CrcValue
  <2>1. pf.received_crc \in ByteValue
    BY <1>1 DEF IInv, Place
  <2> QED BY <1>2, <2>1, CrcOfBytes DEF ReceivedCrc
<1>4. /\ pf' \in [state : State, parse_index : Cell, packet_start_index : Cell,
                  received_length : 0 .. MaxData, expected_crc : CrcValue,
                  received_crc : CrcValue, data_bytes : 0 .. MaxData]
      /\ pf'.packet_start_index = pf.packet_start_index
      /\ pf'.parse_index = pf.packet_start_index /\ pf'.state = "kStart"
  BY <1>1, <1>2, <1>3 DEF IInv, TypeOK, State
<1>5. Place'
  <2>1. Parsed' = 0
    BY <1>2, <1>4, DistanceFacts DEF Parsed
  <2> QED BY <1>4, <2>1 DEF Place
<1>6. From(Decided) <= From(Decided')
  <2>1. Decided = pf.packet_start_index /\ Decided' = pf.packet_start_index
    BY <1>1, <1>4 DEF Decided
  <2> QED BY <1>2, <2>1
<1> QED BY <1>1, <1>4, <1>5, <1>6, ParserKeeps

(* A cell of the index queue holds every offset: the Arduino's build, whose *)
(* buffer has 255 cells.                                                   *)
OffsetsFit == PacketBufferSize <= IndexMod

(* An accepted packet ends where the parser now is and starts after every  *)
(* packet that waits.                                                      *)
LEMMA AcceptKeeps == OffsetsFit /\ IInv /\ AcceptPacket => IInv'
<1> SUFFICES ASSUME OffsetsFit, IInv, AcceptPacket PROVE IInv'
  OBVIOUS
<1> DEFINE psi == pf.packet_start_index
           n == Len(Waiting)
<1>1. /\ parsing /\ pf.parse_index # end_data /\ pf.state = "kCRCH"
      /\ pf' = [pf EXCEPT !.received_crc = ReceivedCrc, !.state = "kStart", !.parse_index = NextIndex]
      /\ UNCHANGED <<start_data, end_data, buffer, parsing, buffer_status>>
      /\ packet_indices' = BQ!PutByteBQ(packet_indices, psi % IndexMod)
  BY DEF AcceptPacket, Parse
<1>2. /\ NextIndex \in Cell /\ From(NextIndex) = From(pf.parse_index) + 1
      /\ From(NextIndex) <= From(end_data) /\ Distance(psi, NextIndex) = Parsed + 1
      /\ From(psi) + Parsed = From(pf.parse_index) /\ From(psi) \in Nat /\ Parsed \in Nat
      /\ ThisByte \in ByteValue /\ Base = start_data
  BY <1>1, NextPlace
<1>3. psi \in Cell /\ pf.received_length \in 0 .. MaxData /\ buffer \in [Cell -> ByteValue]
  BY Fields DEF IInv
<1>4. /\ Parsed = pf.received_length + 3 /\ pf.received_crc \in ByteValue
      /\ buffer[psi] = pf.received_length
  BY <1>1 DEF IInv, Place
<1>5. ReceivedCrc \in CrcValue
  BY <1>2, <1>4, CrcOfBytes DEF ReceivedCrc
<1>6. psi % IndexMod = psi /\ psi \in 0 .. IndexMod - 1
  <2>1. psi \in Nat /\ psi < IndexMod /\ IndexMod \in Nat \ {0}
    BY <1>3, SizeAssumption DEF Cell, OffsetsFit
  <2> HIDE DEF psi
  <2> QED BY <2>1
<1>7. /\ QueueOK(packet_indices')
      /\ Waiting' = Waiting \/ Waiting' = Append(Waiting, psi)
  BY <1>1, <1>6, PutItem DEF IInv, Waiting
<1>8. /\ pf' \in [state : State, parse_index : Cell, packet_start_index : Cell,
                  received_length : 0 .. MaxData, expected_crc : CrcValue,
                  received_crc : CrcValue, data_bytes : 0 .. MaxData]
      /\ pf'.packet_start_index = psi /\ pf'.parse_index = NextIndex
      /\ pf'.state = "kStart" /\ pf'.received_length = pf.received_length
  BY <1>1, <1>2, <1>5 DEF IInv, TypeOK, State
<1>9. TypeOK'
  BY <1>1, <1>7, <1>8 DEF IInv, TypeOK, QueueOK
<1>10. Parsed' = pf.received_length + 4
  BY <1>2, <1>3, <1>4, <1>8 DEF Parsed
<1>11. Place'
  BY <1>8, <1>10 DEF Place
<1>12. \A i : From(i)' = From(i) /\ After(i)' = After(i)
  BY <1>1 DEF From, Base, After
<1>13. InOrder'
  <2>1. From(psi) + Parsed' = From(NextIndex)
    BY <1>2, <1>3, <1>4, <1>10
  <2> QED BY <1>1, <1>2, <1>8, <1>12, <2>1 DEF InOrder, From, Base
<1>14. Decided = psi /\ Decided' = NextIndex
  BY <1>1, <1>8 DEF Decided
<1>15. /\ After(psi) = From(NextIndex) /\ From(psi) <= From(NextIndex)
       /\ From(NextIndex) \in Nat
  BY <1>2, <1>3, <1>4 DEF After
<1>16. n \in Nat /\ Waiting \in Seq(0 .. IndexMod - 1)
  BY WaitingFacts
<1>17. ASSUME NEW k \in 1 .. n
       PROVE  /\ Waiting[k] \in Cell /\ buffer[Waiting[k]] <= MaxData
              /\ From(Waiting[k]) <= From(psi)
              /\ After(Waiting[k]) <= From(psi) /\ After(Waiting[k]) <= From(NextIndex)
              /\ \A j \in k + 1 .. n : After(Waiting[k]) <= From(Waiting[j])
  <2>1. /\ Waiting[k] \in Cell /\ buffer[Waiting[k]] <= MaxData
        /\ From(Waiting[k]) <= From(psi) /\ After(Waiting[k]) <= From(psi)
        /\ \A j \in k + 1 .. n : After(Waiting[k]) <= From(Waiting[j])
    BY <1>14 DEF IInv, PacketsApart
  <2>2. After(Waiting[k]) \in Nat
    <3>1. From(Waiting[k]) \in Nat
      BY <2>1, WaitingFacts, DistanceFacts DEF From
    <3>2. buffer[Waiting[k]] \in Nat
      BY <1>3, <2>1, SizeAssumption DEF ByteValue
    <3> QED BY <3>1, <3>2 DEF After
  <2> QED BY <1>2, <1>15, <2>1, <2>2
<1>18. PacketsApart'
  <2>1. CASE Waiting' = Waiting
    BY <1>1, <1>8, <1>12, <1>14, <1>17, <2>1 DEF PacketsApart
  <2>2. CASE Waiting' = Append(Waiting, psi)
    <3>1. /\ Len(Waiting') = n + 1 /\ Waiting'[n + 1] = psi
          /\ \A k \in 1 .. n : Waiting'[k] = Waiting[k]
      BY <1>6, <1>16, <2>2, AppendProperties
    <3> SUFFICES ASSUME NEW k \in 1 .. n + 1
                 PROVE  /\ Waiting'[k] \in Cell /\ buffer[Waiting'[k]] <= MaxData
                        /\ From(Waiting'[k]) <= From(psi)
                        /\ After(Waiting'[k]) <= From(NextIndex)
                        /\ \A j \in k + 1 .. n + 1 : After(Waiting'[k]) <= From(Waiting'[j])
      BY <1>1, <1>8, <1>12, <1>14, <3>1 DEF PacketsApart
    <3>2. CASE k = n + 1
      <4>1. buffer[psi] <= MaxData
        BY <1>3, <1>4, StartAssumption
      <4>2. k + 1 .. n + 1 = {}
        BY <1>16, <3>2
      <4> QED BY <1>2, <1>3, <1>15, <3>1, <3>2, <4>1, <4>2
    <3>3. CASE k \in 1 .. n
      <4>1. Waiting'[k] = Waiting[k]
        BY <3>1, <3>3
      <4>2. ASSUME NEW j \in k + 1 .. n + 1 PROVE After(Waiting[k]) <= From(Waiting'[j])
        <5>1. CASE j = n + 1
          BY <1>17, <3>1, <3>3, <5>1
        <5>2. CASE j \in k + 1 .. n
          <6>1. j \in 1 .. n
            BY <1>16, <5>2
          <6> QED BY <1>17, <3>1, <3>3, <5>2, <6>1
        <5> QED BY <1>16, <5>1, <5>2
      <4> QED BY <1>17, <3>3, <4>1, <4>2
    <3> QED BY <1>16, <3>2, <3>3
  <2> QED BY <1>7, <2>1, <2>2
<1> QED BY <1>7, <1>9, <1>11, <1>13, <1>18 DEF IInv

(* When a call of PutBytes begins or ends and when a packet is dropped,    *)
(* bytes in front of all that is still needed are given up.                *)
LEMMA BaseMoves ==
  ASSUME IInv, UNCHANGED <<end_data, buffer, pf>>, QueueOK(packet_indices'),
         Base' \in Cell, From(Base') <= From(pf.packet_start_index),
         NEW d \in 0 .. 1, Len(Waiting') \in Nat, Len(Waiting) = Len(Waiting') + d,
         \A k \in 1 .. Len(Waiting') :
           Waiting'[k] = Waiting[k + d] /\ From(Base') <= From(Waiting[k + d]),
         ~parsing' => pf.parse_index = end_data
  PROVE  InOrder' /\ Place' /\ PacketsApart'
<1> DEFINE b == Base'
           psi == pf.packet_start_index
           at == pf.parse_index
           W == Waiting'
<1>1. /\ psi \in Cell /\ at \in Cell /\ end_data \in Cell /\ Decided \in Cell
      /\ buffer \in [Cell -> ByteValue] /\ Base \in Cell
  BY Fields, WaitingFacts DEF IInv
<1>2. \A i \in Cell : From(i) \in Nat
  BY <1>1, DistanceFacts DEF From
<1>3. /\ From(psi) + Parsed = From(at) /\ From(at) <= From(end_data)
  BY DEF IInv, InOrder
<1>4. Parsed \in Nat
  <2>1. psi \in Cell /\ at \in Cell
    BY <1>1
  <2> HIDE DEF psi, at
  <2>2. Distance(psi, at) \in Nat
    BY <2>1, DistanceFacts
  <2> QED BY <2>2 DEF Parsed, psi, at
<1>5. \A i : From(i)' = Distance(b, i)
  <2> SUFFICES ASSUME NEW i PROVE From(i)' = Distance(b, i)
    OBVIOUS
  <2> QED BY DEF From
<1>6. Parsed' = Parsed /\ Decided' = Decided /\ Place'
  BY DEF Parsed, Decided, IInv, Place
<1> HIDE DEF b, W
<1>7. b \in Cell /\ From(b) \in Nat /\ From(b) <= From(psi)
  BY <1>2 DEF b
<1>8. ASSUME NEW i \in Cell, From(b) <= From(i) PROVE Distance(b, i) = From(i) - From(b)
  <2>1. Distance(Base, b) <= Distance(Base, i)
    BY <1>8 DEF From
  <2> QED BY <1>1, <1>7, <2>1, Rebase DEF From
<1>9. From(b) <= From(at) /\ From(b) <= From(end_data)
  BY <1>1, <1>2, <1>3, <1>4, <1>7
<1>10. From(b) <= From(Decided)
  BY <1>7, <1>9 DEF Decided
<1>11. InOrder'
  <2>1. /\ Distance(b, psi) = From(psi) - From(b) /\ Distance(b, at) = From(at) - From(b)
        /\ Distance(b, end_data) = From(end_data) - From(b)
    BY <1>1, <1>7, <1>8, <1>9
  <2>2. /\ Distance(b, psi) + Parsed = Distance(b, at)
        /\ Distance(b, at) <= Distance(b, end_data)
    BY <1>1, <1>2, <1>3, <1>4, <1>7, <2>1
  <2> QED BY <1>5, <1>6, <2>2 DEF InOrder
<1>12. PacketsApart'
  <2> SUFFICES ASSUME NEW k \in 1 .. Len(W)
               PROVE  /\ W[k] \in Cell /\ buffer[W[k]] <= MaxData
                      /\ Distance(b, W[k]) <= Distance(b, psi)
                      /\ Distance(b, W[k]) + buffer[W[k]] + 4 <= Distance(b, Decided)
                      /\ \A j \in k + 1 .. Len(W) :
                           Distance(b, W[k]) + buffer[W[k]] + 4 <= Distance(b, W[j])
    BY <1>5, <1>6 DEF PacketsApart, After, W
  <2> DEFINE w == Waiting[k + d]
  <2>1. /\ W[k] = w /\ From(b) <= From(w) /\ k + d \in 1 .. Len(Waiting)
    BY DEF W, b
  <2>2. /\ w \in Cell /\ buffer[w] <= MaxData
        /\ From(w) <= From(psi) /\ From(w) + buffer[w] + 4 <= From(Decided)
        /\ \A j \in k + d + 1 .. Len(Waiting) : From(w) + buffer[w] + 4 <= From(Waiting[j])
    BY <2>1 DEF IInv, PacketsApart, After
  <2> HIDE DEF w
  <2>3. buffer[w] \in Nat
    BY <1>1, <2>2, SizeAssumption DEF ByteValue
  <2>4. /\ Distance(b, w) = From(w) - From(b) /\ Distance(b, psi) = From(psi) - From(b)
        /\ Distance(b, Decided) = From(Decided) - From(b)
    BY <1>1, <1>7, <1>8, <1>10, <2>1, <2>2
  <2>5. From(w) \in Nat /\ From(psi) \in Nat /\ From(Decided) \in Nat
    BY <1>1, <1>2, <2>2
  <2>6. ASSUME NEW j \in k + 1 .. Len(W)
        PROVE  Distance(b, w) + buffer[w] + 4 <= Distance(b, W[j])
    <3> DEFINE v == Waiting[j + d]
    <3>1. j \in 1 .. Len(W) /\ j + d \in k + d + 1 .. Len(Waiting) /\ j + d \in 1 .. Len(Waiting)
      BY DEF W
    <3>2. W[j] = v /\ From(b) <= From(v)
      BY <3>1 DEF W, b
    <3>3. v \in Cell /\ From(w) + buffer[w] + 4 <= From(v)
      BY <2>2, <3>1 DEF IInv, PacketsApart
    <3> HIDE DEF v
    <3>4. Distance(b, v) = From(v) - From(b) /\ From(v) \in Nat
      BY <1>2, <1>8, <3>2, <3>3
    <3> QED BY <1>7, <2>3, <2>4, <2>5, <3>2, <3>3, <3>4, SMTT(30)
  <2>7. /\ Distance(b, w) <= Distance(b, psi)
        /\ Distance(b, w) + buffer[w] + 4 <= Distance(b, Decided)
    BY <1>7, <2>2, <2>3, <2>4, <2>5, SMTT(30)
  <2> QED BY <2>1, <2>2, <2>6, <2>7
<1> QED BY <1>6, <1>11, <1>12

(* The oldest waiting packet, after d are dropped, lies before the others  *)
(* and before what is being parsed.                                        *)
LEMMA OldestFirst ==
  ASSUME IInv, NEW d \in 0 .. 1, d <= Len(Waiting), NEW b,
         b = IF Len(Waiting) = d THEN pf.packet_start_index ELSE Waiting[d + 1]
  PROVE  /\ b \in Cell /\ From(b) <= From(pf.packet_start_index)
         /\ \A k \in 1 .. Len(Waiting) - d : From(b) <= From(Waiting[k + d])
<1> DEFINE psi == pf.packet_start_index
           n == Len(Waiting)
           v(k) == Waiting[k]
<1>1. psi \in Cell /\ n \in Nat /\ Base \in Cell
  BY Fields, WaitingFacts DEF IInv
<1>2. \A i \in Cell : From(i) \in Nat
  BY <1>1, DistanceFacts DEF From
<1>3. \A k \in 1 .. n :
        /\ v(k) \in Cell /\ From(v(k)) <= From(psi)
        /\ \A j \in k + 1 .. n : From(v(k)) + buffer[v(k)] + 4 <= From(v(j))
  BY DEF IInv, PacketsApart, After
<1>4. \A i \in Cell : buffer[i] \in Nat
  BY Fields, SizeAssumption DEF IInv, ByteValue
<1>0. d <= n /\ b = IF n = d THEN psi ELSE v(d + 1)
  OBVIOUS
<1> SUFFICES /\ b \in Cell /\ From(b) <= From(psi)
             /\ \A k \in 1 .. n - d : From(b) <= From(v(k + d))
  OBVIOUS
<1> HIDE DEF psi, n, v
<1>5. CASE n = d
  BY <1>0, <1>1, <1>2, <1>5
<1>6. CASE n # d
  <2>1. d + 1 \in 1 .. n /\ b = v(d + 1)
    BY <1>0, <1>1, <1>6
  <2>2. ASSUME NEW k \in 1 .. n - d PROVE From(b) <= From(v(k + d))
    <3>1. CASE k = 1
      <4>1. v(k + d) = b /\ b \in Cell
        BY <1>3, <2>1, <3>1
      <4> QED BY <1>2, <4>1
    <3>2. CASE k # 1
      <4>1. k + d \in (d + 1) + 1 .. n /\ k + d \in 1 .. n
        BY <1>1, <1>0, <3>2
      <4>2. From(b) + buffer[b] + 4 <= From(v(k + d)) /\ b \in Cell /\ v(k + d) \in Cell
        BY <1>3, <2>1, <4>1
      <4> QED BY <1>2, <1>4, <4>2
    <3> QED BY <3>1, <3>2
  <2> QED BY <1>3, <2>1, <2>2
<1> QED BY <1>5, <1>6

LEMMA ExhaustedKeeps == IInv /\ Exhausted => IInv'
<1> SUFFICES ASSUME IInv, Exhausted PROVE IInv'
  OBVIOUS
<1>1. /\ pf.parse_index = end_data /\ parsing' = FALSE
      /\ UNCHANGED <<start_data, end_data, buffer, pf, packet_indices, buffer_status>>
  BY DEF Exhausted
<1>2. Waiting' = Waiting /\ Base' = FlushUnusedBytes
  BY <1>1 DEF Waiting, Items, Base, FlushUnusedBytes
<1>3. /\ Len(Waiting) \in Nat
      /\ Len(Waiting) = 0 => FlushUnusedBytes = pf.packet_start_index
      /\ Len(Waiting) > 0 => FlushUnusedBytes = Waiting[1]
  BY WaitingFacts
<1>4. Base' = IF Len(Waiting) = 0 THEN pf.packet_start_index ELSE Waiting[0 + 1]
  BY <1>2, <1>3
<1>5. 0 <= Len(Waiting) /\ Len(Waiting) - 0 = Len(Waiting) /\ Len(Waiting) = Len(Waiting') + 0
  BY <1>2, <1>3
<1>6. /\ Base' \in Cell /\ From(Base') <= From(pf.packet_start_index)
      /\ \A k \in 1 .. Len(Waiting) - 0 : From(Base') <= From(Waiting[k + 0])
  BY <1>4, <1>5, OldestFirst
<1>7. QueueOK(packet_indices')
  BY <1>1 DEF IInv
<1>8. \A k \in 1 .. Len(Waiting') : Waiting'[k] = Waiting[k + 0] /\ From(Base') <= From(Waiting[k + 0])
  BY <1>2, <1>5, <1>6
<1>9. InOrder' /\ Place' /\ PacketsApart'
  <2>1. /\ 0 \in 0 .. 1 /\ Len(Waiting') \in Nat /\ UNCHANGED <<end_data, buffer, pf>>
        /\ ~parsing' => pf.parse_index = end_data
    BY <1>1, <1>2, <1>3
  <2> QED BY <1>5, <1>6, <1>7, <1>8, <2>1, BaseMoves
<1>10. TypeOK'
  BY <1>1 DEF IInv, TypeOK
<1> QED BY <1>7, <1>9, <1>10 DEF IInv

LEMMA DropKeeps == IInv /\ DropPacket => IInv'
<1> SUFFICES ASSUME IInv, DropPacket PROVE IInv'
  OBVIOUS
<1> DEFINE start == BQ!PeekByteBQ(packet_indices)
           rest  == BQ!GetByteBQ(packet_indices)
           after == ReturnIndex(start) + PacketLength(start)
<1>1. /\ ~parsing /\ ~BQ!IsEmptyBQ(packet_indices) /\ packet_indices' = rest
      /\ start_data' = IF ~BQ!IsEmptyBQ(rest) THEN BQ!PeekByteBQ(rest)
                       ELSE IF after >= PacketBufferSize THEN after - PacketBufferSize ELSE after
      /\ UNCHANGED <<end_data, buffer, pf, parsing, buffer_status>>
  BY DEF DropPacket
<1>2. /\ QueueOK(packet_indices) /\ packet_indices.count > 0
      /\ Waiting \in Seq(0 .. IndexMod - 1) /\ Len(Waiting) = packet_indices.count
      /\ Len(Waiting) \in Nat /\ Len(Waiting) >= 1 /\ start = Waiting[1]
  <2>1. QueueOK(packet_indices)
    BY DEF IInv
  <2> HIDE DEF start
  <2>2. packet_indices.count \in 0 .. IndexSize - 1 /\ packet_indices.count # 0
    BY <1>1, <2>1, ItemsFacts
  <2>3. packet_indices.count > 0
    BY <2>2
  <2> QED BY <2>1, <2>2, <2>3, ItemsFacts DEF Waiting, start
<1>3. QueueOK(rest) /\ Waiting' = Tail(Waiting)
  BY <1>1, <1>2, GetItem DEF Waiting
<1>4. /\ Len(Waiting') \in Nat /\ Len(Waiting) = Len(Waiting') + 1
      /\ \A k \in 1 .. Len(Waiting') : Waiting'[k] = Waiting[k + 1]
  BY <1>2, <1>3, HeadTailProperties
<1>5. /\ BQ!IsEmptyBQ(rest) <=> Len(Waiting') = 0
      /\ Len(Waiting') > 0 => BQ!PeekByteBQ(rest) = Waiting'[1]
  <2>1. Waiting' = Items(rest)
    BY <1>1 DEF Waiting
  <2> HIDE DEF rest
  <2> QED BY <1>3, <2>1, ItemsFacts
<1>6. Base' = IF Len(Waiting) = 1 THEN pf.packet_start_index ELSE Waiting[1 + 1]
  <2>1. Base' = IF BQ!IsEmptyBQ(rest) THEN pf.packet_start_index ELSE BQ!PeekByteBQ(rest)
    BY <1>1 DEF Base, FlushUnusedBytes
  <2> HIDE DEF rest
  <2>2. CASE Len(Waiting') = 0
    BY <1>4, <1>5, <2>1, <2>2
  <2>3. CASE Len(Waiting') # 0
    <3>1. 1 \in 1 .. Len(Waiting')
      BY <1>4, <2>3
    <3> QED BY <1>4, <1>5, <2>1, <2>3, <3>1
  <2> QED BY <2>2, <2>3
<1>7. /\ Base' \in Cell /\ From(Base') <= From(pf.packet_start_index)
      /\ \A k \in 1 .. Len(Waiting) - 1 : From(Base') <= From(Waiting[k + 1])
  BY <1>2, <1>6, OldestFirst
<1>8. QueueOK(packet_indices')
  BY <1>1, <1>3
<1>9. /\ ~parsing' => pf.parse_index = end_data
      /\ \A k \in 1 .. Len(Waiting') : Waiting'[k] = Waiting[k + 1] /\ From(Base') <= From(Waiting[k + 1])
  <2>1. Len(Waiting) - 1 = Len(Waiting')
    BY <1>4
  <2> QED BY <1>1, <1>4, <1>7, <2>1 DEF IInv, InOrder
<1>10. InOrder' /\ Place' /\ PacketsApart'
  BY <1>1, <1>4, <1>7, <1>8, <1>9, BaseMoves
<1>11. start \in Cell /\ buffer[start] \in Nat /\ buffer[start] + 4 <= PacketBufferSize - 1
  <2> HIDE DEF start
  <2>1. start \in Cell /\ From(start) + buffer[start] + 4 <= From(Decided)
    <3>1. 1 \in 1 .. Len(Waiting)
      BY <1>2
    <3> QED BY <1>2, <3>1 DEF IInv, PacketsApart, After
  <2>2. buffer[start] \in Nat
    BY <2>1, Fields, SizeAssumption DEF IInv, ByteValue
  <2>3. From(start) \in 0 .. PacketBufferSize - 1 /\ From(Decided) \in 0 .. PacketBufferSize - 1
    <3>1. Base \in Cell /\ Decided \in Cell
      BY WaitingFacts, Fields DEF IInv
    <3> QED BY <2>1, <3>1, DistanceFacts DEF From
  <2> QED BY <2>1, <2>2, <2>3, SizeAssumption
<1>12. start_data' \in Cell
  <2>1. CASE BQ!IsEmptyBQ(rest)
    <3>1. after \in Nat /\ after < 2 * PacketBufferSize
      BY <1>11, SizeAssumption DEF Cell, ReturnIndex, PacketLength
    <3>2. start_data' = IF after >= PacketBufferSize THEN after - PacketBufferSize ELSE after
      BY <1>1, <2>1
    <3> HIDE DEF after
    <3> QED BY <3>1, <3>2, SizeAssumption DEF Cell
  <2>2. CASE ~BQ!IsEmptyBQ(rest)
    <3>1. start_data' = BQ!PeekByteBQ(rest)
      BY <1>1, <2>2
    <3> HIDE DEF rest
    <3>2. 1 \in 1 .. Len(Waiting') /\ 1 + 1 \in 1 .. Len(Waiting)
      BY <1>4, <1>5, <2>2
    <3>3. start_data' = Waiting[1 + 1]
      BY <1>4, <1>5, <3>1, <3>2
    <3> QED BY <3>2, <3>3 DEF IInv, PacketsApart
  <2> QED BY <2>1, <2>2
<1>13. TypeOK'
  BY <1>1, <1>8, <1>12 DEF IInv, TypeOK, QueueOK
<1> QED BY <1>8, <1>10, <1>13 DEF IInv

(* New bytes go behind the kept ones, which stay as they are: the copy     *)
(* overwrites neither a waiting packet nor the length byte the parser      *)
(* reads again after a bad CRC.                                            *)
LEMMA PutBytesKeeps ==
  ASSUME IInv, NEW bytes \in Chunks, PutBytes(bytes)
  PROVE  IInv'
<1> DEFINE psi == pf.packet_start_index
           at == pf.parse_index
           n == Len(Waiting)
<1>1. /\ ~parsing /\ parsing' /\ start_data' = Base /\ parsing' = TRUE
      /\ buffer' = CopiedBuffer(Base, bytes) /\ end_data' = CopiedEnd(Base, bytes)
      /\ buffer_status' \in {SUCCESS, BUFFER_OVERFLOW}
      /\ UNCHANGED <<pf, packet_indices>>
  BY DEF PutBytes, Base
<1>2. /\ psi \in Cell /\ at \in Cell /\ end_data \in Cell /\ Decided \in Cell
      /\ buffer \in [Cell -> ByteValue] /\ Base \in Cell /\ n \in Nat
  BY Fields, WaitingFacts DEF IInv
<1>3. bytes \in Seq(ByteValue)
  BY ChunksAssumption
<1>4. /\ Copied(Base, bytes) \in Nat /\ end_data' \in Cell /\ buffer' \in [Cell -> ByteValue]
      /\ Distance(Base, end_data') = From(end_data) + Copied(Base, bytes)
      /\ \A i \in Cell : From(i) < From(end_data) => buffer'[i] = buffer[i]
  <2> DEFINE start == Base
  <2>1. start \in Cell
    BY <1>2
  <2> HIDE DEF start
  <2>2. /\ Copied(start, bytes) \in 0 .. Len(bytes) /\ CopiedEnd(start, bytes) \in Cell
        /\ CopiedBuffer(start, bytes) \in [Cell -> ByteValue]
        /\ Distance(start, CopiedEnd(start, bytes)) = Distance(start, end_data) + Copied(start, bytes)
        /\ \A i \in Cell : Distance(start, i) < Distance(start, end_data)
             => CopiedBuffer(start, bytes)[i] = buffer[i]
    BY <1>2, <1>3, <2>1, CopyFacts
  <2>3. Copied(start, bytes) \in Nat
    BY <2>2, <1>3, LenProperties
  <2> QED BY <1>1, <2>2, <2>3 DEF start, From
<1>5. \A i \in Cell : From(i) \in Nat
  BY <1>2, DistanceFacts DEF From
<1>6. Base' = Base /\ \A i : From(i)' = From(i)
  <2>1. Base' = Base
    BY <1>1 DEF Base
  <2>2. ASSUME NEW i PROVE From(i)' = From(i)
    BY <2>1 DEF From
  <2> QED BY <2>1, <2>2
<1>7. /\ From(psi) + Parsed = From(at) /\ at = end_data /\ Parsed \in Nat
  <2>1. From(psi) + Parsed = From(at) /\ at = end_data
    BY <1>1 DEF IInv, InOrder
  <2>2. Distance(psi, at) \in Nat
    <3>1. psi \in Cell /\ at \in Cell
      BY <1>2
    <3> HIDE DEF psi, at
    <3> QED BY <3>1, DistanceFacts
  <2> QED BY <2>1, <2>2 DEF Parsed
<1>8. Parsed' = Parsed /\ Decided' = Decided /\ Waiting' = Waiting
  BY <1>1 DEF Parsed, Decided, Waiting, Items
<1>9. InOrder'
  <2>1. From(at) <= Distance(Base, end_data')
    BY <1>2, <1>4, <1>5, <1>7
  <2>2. (From(end_data))' = Distance(Base, end_data')
    BY <1>6 DEF From
  <2>3. /\ (From(pf.packet_start_index))' = From(psi)
        /\ (From(pf.parse_index))' = From(at)
    BY <1>1, <1>6 DEF From
  <2> QED BY <1>1, <1>7, <1>8, <2>1, <2>2, <2>3 DEF InOrder
<1>10. Place'
  <2>1. pf.state \notin {"kStart", "kLen"} => buffer'[psi] = buffer[psi]
    <3> SUFFICES ASSUME pf.state \notin {"kStart", "kLen"} PROVE buffer'[psi] = buffer[psi]
      OBVIOUS
    <3>1. /\ pf.state \in State /\ pf.received_length \in Nat /\ pf.data_bytes \in Nat
      BY Fields, StartAssumption DEF IInv
    <3>2. Parsed >= 1
      BY <3>1 DEF IInv, Place, State
    <3>3. From(psi) < From(end_data)
      BY <1>2, <1>5, <1>7, <3>2
    <3> QED BY <1>2, <1>4, <3>3
  <2> QED BY <1>1, <1>8, <2>1 DEF IInv, Place
<1>11. From(Decided) <= From(end_data)
  BY <1>2, <1>5, <1>7 DEF Decided
<1>12. PacketsApart'
  <2> SUFFICES ASSUME NEW k \in 1 .. n
               PROVE  /\ Waiting[k] \in Cell /\ buffer'[Waiting[k]] <= MaxData
                      /\ From(Waiting[k]) <= From(psi)
                      /\ From(Waiting[k]) + buffer'[Waiting[k]] + 4 <= From(Decided)
                      /\ \A j \in k + 1 .. n :
                           From(Waiting[k]) + buffer'[Waiting[k]] + 4 <= From(Waiting[j])
    BY <1>1, <1>6, <1>8 DEF PacketsApart, After
  <2>1. /\ Waiting[k] \in Cell /\ buffer[Waiting[k]] <= MaxData
        /\ From(Waiting[k]) <= From(psi)
        /\ From(Waiting[k]) + buffer[Waiting[k]] + 4 <= From(Decided)
        /\ \A j \in k + 1 .. n : From(Waiting[k]) + buffer[Waiting[k]] + 4 <= From(Waiting[j])
    BY DEF IInv, PacketsApart, After
  <2>2. buffer[Waiting[k]] \in Nat
    BY <1>2, <2>1, SizeAssumption DEF ByteValue
  <2>3. From(Waiting[k]) < From(end_data)
    BY <1>2, <1>5, <1>11, <2>1, <2>2
  <2>4. buffer'[Waiting[k]] = buffer[Waiting[k]]
    BY <1>4, <2>1, <2>3
  <2> QED BY <2>1, <2>4
<1>13. TypeOK'
  BY <1>1, <1>2, <1>4 DEF IInv, TypeOK
<1> QED BY <1>1, <1>9, <1>10, <1>12, <1>13 DEF IInv

LEMMA InitKeeps == Init => IInv
<1> SUFFICES ASSUME Init PROVE IInv
  OBVIOUS
<1>1. /\ 0 \in Cell /\ 0 \in ByteValue /\ 0 \in CrcValue /\ 0 \in 0 .. MaxData
      /\ 0 \in 0 .. IndexMod - 1 /\ 0 \in 0 .. IndexSize - 1 /\ 0 \in Nat
  <2>1. ByteMod * ByteMod - 1 \in Nat
    <3>1. ByteMod \in Nat \ {0} /\ ByteMod <= ByteMod * ByteMod
      BY SizeAssumption
    <3> QED BY <3>1
  <2> QED BY <2>1, SizeAssumption, StartAssumption DEF Cell, ByteValue, CrcValue
<1>2. /\ start_data = 0 /\ end_data = 0 /\ buffer = [i \in Cell |-> 0] /\ parsing = FALSE
      /\ pf = [state |-> "kStart", parse_index |-> 0, packet_start_index |-> 0,
               received_length |-> 0, expected_crc |-> 0, received_crc |-> 0, data_bytes |-> 0]
      /\ packet_indices = [data |-> [i \in 0 .. IndexSize - 1 |-> 0], start |-> 0, end |-> 0, count |-> 0]
      /\ buffer_status = SUCCESS
  BY DEF Init, BQ!InitBQ
<1>3. packet_indices \in BQ!ByteQueue
  BY <1>1, <1>2 DEF BQ!ByteQueue, BQ!Index
<1>4. TypeOK
  BY <1>1, <1>2, <1>3 DEF TypeOK, State
<1>5. QueueOK(packet_indices)
  BY <1>2, <1>3 DEF QueueOK
<1>6. Base = 0
  BY <1>2 DEF Base, FlushUnusedBytes, BQ!IsEmptyBQ
<1>7. From(0) = 0 /\ Parsed = 0
  BY <1>2, <1>6 DEF From, Parsed, Distance
<1>8. InOrder /\ Place
  BY <1>2, <1>7 DEF InOrder, Place
<1>9. Len(Waiting) = 0
  BY <1>2, <1>5, ItemsFacts DEF Waiting
<1>10. PacketsApart
  BY <1>9 DEF PacketsApart
<1> QED BY <1>4, <1>5, <1>8, <1>10 DEF IInv

(* What every step of PutBytes and of DropPacket preserves.                *)
LEMMA InvKept == OffsetsFit /\ IInv /\ [Next]_vars => IInv'
<1> SUFFICES ASSUME OffsetsFit, IInv, [Next]_vars PROVE IInv'
  OBVIOUS
<1>1. CASE \E bytes \in Chunks : PutBytes(bytes)
  BY <1>1, PutBytesKeeps
<1>2. CASE ParserStep
  <2>1. CASE ParseStart BY <2>1, StartKeeps
  <2>2. CASE ParseLen BY <2>2, LenKeeps
  <2>3. CASE ParseType BY <2>3, TypeKeeps
  <2>4. CASE ParseData BY <2>4, DataKeeps
  <2>5. CASE ParseCRCL BY <2>5, LowKeeps
  <2>6. CASE AcceptPacket BY <2>6, AcceptKeeps
  <2>7. CASE RejectPacket BY <2>7, RejectKeeps
  <2> QED BY <1>2, <2>1, <2>2, <2>3, <2>4, <2>5, <2>6, <2>7 DEF ParserStep
<1>3. CASE Exhausted
  BY <1>3, ExhaustedKeeps
<1>4. CASE DropPacket
  BY <1>4, DropKeeps
<1>5. CASE UNCHANGED vars
  <2>1. /\ start_data' = start_data /\ end_data' = end_data /\ buffer' = buffer /\ pf' = pf
        /\ packet_indices' = packet_indices /\ parsing' = parsing /\ buffer_status' = buffer_status
    BY <1>5 DEF vars
  <2>2. /\ Waiting' = Waiting /\ Decided' = Decided /\ Parsed' = Parsed /\ Base' = Base
    BY <2>1 DEF Waiting, Items, Decided, Parsed, Base, FlushUnusedBytes
  <2>3. ASSUME NEW i PROVE From(i)' = From(i) /\ After(i)' = After(i)
    BY <2>1, <2>2 DEF From, After
  <2>4. TypeOK' /\ QueueOK(packet_indices')
    BY <2>1 DEF IInv, TypeOK
  <2>5. InOrder' /\ Place'
    BY <2>1, <2>2 DEF IInv, InOrder, Place, From
  <2>6. PacketsApart'
    BY <2>1, <2>2, <2>3 DEF IInv, PacketsApart
  <2> QED BY <2>1, <2>4, <2>5, <2>6 DEF IInv
<1> QED BY <1>1, <1>2, <1>3, <1>4, <1>5 DEF Next

LEMMA Inductive == OffsetsFit => (Spec => []IInv)
<1> SUFFICES ASSUME OffsetsFit PROVE Spec => []IInv
  OBVIOUS
<1>1. IInv /\ [Next]_vars => IInv'
  BY InvKept
<1> QED BY <1>1, InitKeeps, PTL DEF Spec

(* Offsets stay inside the buffer, lengths below the longest packet and    *)
(* CRC fields in sixteen bits: PutBytes and DropPacket never leave an      *)
(* index past the end.                                                     *)
THEOREM TypeCorrect == OffsetsFit => (Spec => []TypeOK)
<1> SUFFICES ASSUME OffsetsFit PROVE Spec => []TypeOK
  OBVIOUS
<1>1. IInv => TypeOK
  BY DEF IInv
<1> QED BY <1>1, Inductive, PTL

(* The parser works inside the bytes that are kept and the waiting packets *)
(* lie before it in order, whatever arrives and whenever packets are       *)
(* dropped.                                                                *)
THEOREM StaysInside == OffsetsFit => (Spec => []ParserInsideData)
<1> SUFFICES ASSUME OffsetsFit PROVE Spec => []ParserInsideData
  OBVIOUS
<1>1. ASSUME IInv, parsing
      PROVE  /\ From(pf.parse_index) <= From(end_data)
             /\ From(pf.packet_start_index) <= From(pf.parse_index)
             /\ \A k \in 1 .. Len(Waiting) - 1 : From(Waiting[k]) < From(Waiting[k + 1])
  <2>1. /\ pf.packet_start_index \in Cell /\ pf.parse_index \in Cell /\ Base \in Cell
        /\ Len(Waiting) \in Nat /\ buffer \in [Cell -> ByteValue]
    BY <1>1, Fields, WaitingFacts DEF IInv
  <2>2. \A i \in Cell : From(i) \in Nat
    BY <2>1, DistanceFacts DEF From
  <2>3. Parsed \in Nat
    <3> DEFINE psi == pf.packet_start_index
               at == pf.parse_index
    <3>1. psi \in Cell /\ at \in Cell
      BY <2>1
    <3> HIDE DEF psi, at
    <3>2. Distance(psi, at) \in Nat
      BY <3>1, DistanceFacts
    <3> QED BY <3>2 DEF Parsed, psi, at
  <2>4. /\ From(pf.parse_index) <= From(end_data)
        /\ From(pf.packet_start_index) + Parsed = From(pf.parse_index)
    BY <1>1 DEF IInv, InOrder
  <2>5. From(pf.packet_start_index) <= From(pf.parse_index)
    BY <2>1, <2>2, <2>3, <2>4
  <2>6. ASSUME NEW k \in 1 .. Len(Waiting) - 1 PROVE From(Waiting[k]) < From(Waiting[k + 1])
    <3>1. k \in 1 .. Len(Waiting) /\ k + 1 \in 1 .. Len(Waiting) /\ k + 1 \in k + 1 .. Len(Waiting)
      BY <2>1
    <3>2. /\ Waiting[k] \in Cell /\ Waiting[k + 1] \in Cell
          /\ From(Waiting[k]) + buffer[Waiting[k]] + 4 <= From(Waiting[k + 1])
      BY <1>1, <3>1 DEF IInv, PacketsApart, After
    <3>3. buffer[Waiting[k]] \in Nat
      BY <2>1, <3>2, SizeAssumption DEF ByteValue
    <3> QED BY <2>2, <3>2, <3>3
  <2> QED BY <2>4, <2>5, <2>6
<1>2. IInv => ParserInsideData
  BY <1>1 DEF ParserInsideData, From, Base
<1> QED BY <1>2, Inductive, PTL

(* Where the parser stands between two calls.                              *)
LEMMA BetweenCalls ==
  ASSUME IInv, ~parsing
  PROVE  /\ Distance(pf.packet_start_index, end_data) = Parsed /\ Parsed \in Nat
         /\ pf.parse_index = end_data /\ pf.packet_start_index \in Cell /\ end_data \in Cell
         /\ Parsed <= pf.received_length + 4
         /\ pf.state # "kStart" => Parsed <= pf.received_length + 3
<1>1. /\ pf.packet_start_index \in Cell /\ pf.parse_index \in Cell /\ pf.state \in State
      /\ pf.received_length \in Nat /\ pf.data_bytes \in Nat
  BY Fields, StartAssumption DEF IInv
<1>2. pf.parse_index = end_data
  BY DEF IInv, InOrder
<1>3. Distance(pf.packet_start_index, end_data) = Parsed
  BY <1>2 DEF Parsed
<1>4. Parsed \in Nat /\ Parsed <= pf.received_length + 4
      /\ (pf.state # "kStart" => Parsed <= pf.received_length + 3)
  BY <1>1 DEF IInv, Place, State
<1> QED BY <1>1, <1>2, <1>3, <1>4

(* When PutBytes returns, what it keeps for later is a proper beginning of *)
(* a packet: no packet that has arrived completely waits for another call. *)
THEOREM FoundWhenReturning == OffsetsFit => (Spec => []NothingLeftUnparsed)
<1> SUFFICES ASSUME OffsetsFit PROVE Spec => []NothingLeftUnparsed
  OBVIOUS
<1>1. ASSUME IInv, ~parsing PROVE Stream!Undecided
  <2> DEFINE psi == pf.packet_start_index
             span == Span(psi, end_data)
  <2>1. /\ Distance(psi, end_data) = Parsed /\ Parsed \in Nat /\ pf.parse_index = end_data
        /\ psi \in Cell /\ end_data \in Cell
        /\ pf.state # "kStart" => Parsed <= pf.received_length + 3
    BY <1>1, BetweenCalls
  <2>2. /\ pf.received_length \in 0 .. MaxData /\ MaxData \in Nat /\ StartByte \in Nat
        /\ pf.state \in State /\ buffer \in [Cell -> ByteValue]
    BY <1>1, Fields, StartAssumption DEF IInv, ByteValue
  <2>3. CASE pf.state = "kStart"
    <3>1. Distance(end_data, end_data) = 0
      BY <2>1, DistanceFacts
    <3>2. Pending = [k \in 1 .. 0 |-> buffer[Round(end_data, k - 1, PacketBufferSize)]]
      BY <2>1, <2>3, <3>1 DEF Pending, Span
    <3>3. Pending = <<>>
      BY <3>2
    <3> QED BY <3>3 DEF Stream!Undecided
  <2>4. CASE pf.state # "kStart"
    <3>1. span = [k \in 1 .. Parsed |-> buffer[Round(psi, k - 1, PacketBufferSize)]]
      BY <2>1 DEF Span
    <3>2. ASSUME NEW k \in 1 .. Parsed
          PROVE  buffer[Round(psi, k - 1, PacketBufferSize)] \in ByteValue
      <4>1. Parsed <= PacketBufferSize - 1
        BY <2>1, DistanceFacts, SizeAssumption
      <4>2. Round(psi, k - 1, PacketBufferSize) \in Cell
        BY <2>1, <4>1, SizeAssumption DEF Cell, Round
      <4> QED BY <2>2, <4>2
    <3>3. span \in Seq(ByteValue) /\ Len(span) = Parsed
      <4> DEFINE s == span
                 m == Parsed
      <4>1. s \in [1 .. m -> ByteValue] /\ m \in Nat
        BY <2>1, <3>1, <3>2
      <4> HIDE DEF s, m
      <4>2. s \in Seq(ByteValue) /\ Len(s) = m
        BY <4>1
      <4> QED BY <4>2 DEF s, m
    <3>4. Pending = <<StartByte>> \o span
      BY <2>4 DEF Pending
    <3> HIDE DEF span
    <3>5. /\ Len(Pending) = Parsed + 1 /\ Pending[1] = StartByte
          /\ Parsed >= 1 => Pending[2] = span[1]
      <4>1. <<StartByte>> \in Seq(ByteValue) /\ Len(<<StartByte>>) = 1
        BY StartAssumption
      <4> QED BY <2>1, <3>3, <3>4, <4>1
    <3>6. CASE pf.state = "kLen"
      <4>0. Parsed = 0
        BY <1>1, <3>6 DEF IInv, Place
      <4>1. ~(Len(Pending) >= 2)
        BY <3>5, <4>0
      <4>2. Pending[1] = StartByte
        BY <3>5
      <4>3. ~Stream!LengthSeen(Pending) /\ ~Stream!FrameComplete(Pending)
        BY <4>1 DEF Stream!LengthSeen, Stream!FrameComplete
      <4> QED BY <4>2, <4>3 DEF Stream!Undecided, Stream!NoPacketHere, Stream!PacketHere
    <3>7. CASE pf.state # "kLen"
      <4>1. Parsed >= 1 /\ buffer[psi] = pf.received_length
        <5>1. Place
          BY <1>1 DEF IInv
        <5>2. buffer[psi] = pf.received_length
          BY <2>4, <3>7, <5>1 DEF Place
        <5>3. pf.received_length \in Nat /\ pf.data_bytes \in Nat
          BY <1>1, Fields, StartAssumption DEF IInv
        <5>4. Parsed >= 1
          BY <2>2, <2>4, <3>7, <5>1, <5>3 DEF Place, State
        <5> QED BY <5>2, <5>4
      <4>2. Pending[2] = pf.received_length
        <5>1. Round(psi, 1 - 1, PacketBufferSize) = psi
          <6>1. psi \in Nat /\ psi < PacketBufferSize /\ PacketBufferSize \in Nat
            BY <2>1, SizeAssumption DEF Cell
          <6> HIDE DEF psi
          <6> QED BY <6>1 DEF Round
        <5>2. span[1] = buffer[psi]
          <6> HIDE DEF psi
          <6>1. 1 \in 1 .. Parsed
            BY <2>1, <4>1
          <6> QED BY <3>1, <5>1, <6>1 DEF span
        <5> QED BY <3>5, <4>1, <5>2
      <4>3. ~(Len(Pending) >= Pending[2] + 5) /\ ~(Pending[2] > MaxData)
        BY <2>1, <2>2, <2>4, <3>5, <4>2
      <4> QED BY <3>5, <4>3 DEF Stream!Undecided, Stream!NoPacketHere, Stream!PacketHere,
                                Stream!FrameComplete, Stream!FrameLen
    <3> QED BY <3>6, <3>7
  <2> QED BY <2>3, <2>4
<1>2. IInv => NothingLeftUnparsed
  BY <1>1 DEF NothingLeftUnparsed
<1> QED BY <1>2, Inductive, PTL

(* FlushUnusedBytes gives up all that is noise: with no packet waiting, at *)
(* most the longest packet without its start byte stays in the buffer.     *)
THEOREM NoiseGoes == OffsetsFit => (Spec => []NoiseIsFlushed)
<1> SUFFICES ASSUME OffsetsFit PROVE Spec => []NoiseIsFlushed
  OBVIOUS
<1>1. ASSUME IInv, ~parsing, BQ!IsEmptyBQ(packet_indices)
      PROVE  Distance(FlushUnusedBytes, end_data) <= MaxData + 4
  <2>1. FlushUnusedBytes = pf.packet_start_index
    BY <1>1 DEF FlushUnusedBytes
  <2>2. pf.received_length \in 0 .. MaxData /\ MaxData \in Nat
    BY <1>1, Fields, StartAssumption DEF IInv
  <2>3. /\ Distance(pf.packet_start_index, end_data) = Parsed /\ Parsed \in Nat
        /\ Parsed <= pf.received_length + 4
    BY <1>1, BetweenCalls
  <2> QED BY <2>1, <2>2, <2>3
<1>2. IInv => NoiseIsFlushed
  BY <1>1 DEF NoiseIsFlushed
<1> QED BY <1>2, Inductive, PTL
-----------------------------------------------------------------------------
(* The packet finder implements the packet stream: exactly the well formed *)
(* packets of the bytes it keeps come out, in order and unchanged.         *)

LEMMA LeastNat ==
  ASSUME NEW T, T \subseteq Nat, T # {}
  PROVE  \E x \in T : \A y \in T : x <= y
<1>1. IsWellFoundedOn(OpToRel(<, Nat), Nat)
  BY NatLessThanWellFounded
<1>2. PICK x \in T : \A y \in T : ~(<<y, x>> \in OpToRel(<, Nat))
  BY <1>1, WFMin
<1>3. OpToRel(<, Nat) = {ss \in Nat \X Nat : ss[1] < ss[2]}
  BY DEF OpToRel
<1>4. ASSUME NEW y \in T PROVE x <= y
  <2>1. ~(<<y, x>> \in {ss \in Nat \X Nat : ss[1] < ss[2]})
    BY <1>2, <1>3
  <2>2. y \in Nat /\ x \in Nat
    OBVIOUS
  <2> QED BY <2>1, <2>2
<1> QED BY <1>4
-----------------------------------------------------------------------------
(* The CRCs of all beginnings of s up to the n-th byte.                    *)
IsCrcTable(s, n, crc) ==
  crc = [i \in 1 .. n |-> IF i = 1 THEN MakeCrc(s[1]) ELSE ByteUpdateCrc(crc[i - 1], s[i])]

LEMMA CrcIsLast ==
  ASSUME NEW s
  PROVE  Stream!CrcOf(s) = (CHOOSE crc : IsCrcTable(s, Len(s), crc))[Len(s)]
BY DEF Stream!CrcOf, IsCrcTable

(* By the shortest beginning without one. *)
LEMMA CrcTableExists ==
  ASSUME NEW s, NEW n \in Nat
  PROVE  \E crc : IsCrcTable(s, n, crc)
<1> DEFINE T == {m \in Nat : ~ \E crc : IsCrcTable(s, m, crc)}
<1>1. CASE T = {}
  BY <1>1
<1>2. CASE T # {}
  <2>1. PICK m \in T : \A y \in T : m <= y
    BY <1>2, LeastNat
  <2>2. CASE m = 0
    <3> DEFINE crc == [i \in 1 .. 0 |-> 0]
    <3>1. IsCrcTable(s, 0, crc)
      BY DEF IsCrcTable
    <3> QED BY <2>1, <2>2, <3>1
  <2>3. CASE m # 0
    <3>1. m - 1 \in Nat /\ m - 1 \notin T
      BY <2>1, <2>3
    <3>2. PICK crc : IsCrcTable(s, m - 1, crc)
      BY <3>1
    <3> DEFINE last == IF m = 1 THEN MakeCrc(s[1]) ELSE ByteUpdateCrc(crc[m - 1], s[m])
               new == [i \in 1 .. m |-> IF i = m THEN last ELSE crc[i]]
               table == [i \in 1 .. m |-> IF i = 1 THEN MakeCrc(s[1])
                                          ELSE ByteUpdateCrc(new[i - 1], s[i])]
    <3>3. ASSUME NEW i \in 1 .. m PROVE new[i] = table[i]
      <4>1. CASE i = m
        <5>1. i # 1 => i - 1 \in 1 .. m /\ i - 1 # m /\ new[i - 1] = crc[i - 1]
          BY <2>1
        <5> QED BY <4>1, <5>1
      <4>2. CASE i # m
        <5>1. i \in 1 .. m - 1
          BY <2>1, <4>2
        <5>2. new[i] = IF i = 1 THEN MakeCrc(s[1]) ELSE ByteUpdateCrc(crc[i - 1], s[i])
          BY <3>2, <4>2, <5>1 DEF IsCrcTable
        <5>3. i # 1 => i - 1 \in 1 .. m /\ i - 1 # m /\ new[i - 1] = crc[i - 1]
          BY <2>1, <5>1
        <5> QED BY <5>2, <5>3
      <4> QED BY <4>1, <4>2
    <3>4. new = table
      <4>1. new = [i \in 1 .. m |-> new[i]] /\ table = [i \in 1 .. m |-> table[i]]
        OBVIOUS
      <4> HIDE DEF new, table
      <4> QED BY <3>3, <4>1
    <3>5. IsCrcTable(s, m, new)
      <4> HIDE DEF new
      <4> QED BY <3>4 DEF IsCrcTable
    <3> HIDE DEF new
    <3> QED BY <2>1, <3>5
  <2> QED BY <2>2, <2>3
<1> QED BY <1>1, <1>2

(* Two tables agree as far as their bytes do. *)
LEMMA CrcTablesAgree ==
  ASSUME NEW s, NEW t, NEW m \in Nat, NEW n \in Nat, NEW f, NEW g, m <= n,
         IsCrcTable(s, m, f), IsCrcTable(t, n, g), \A i \in 1 .. m : s[i] = t[i]
  PROVE  \A i \in 1 .. m : f[i] = g[i]
<1> DEFINE T == {i \in Nat : i \in 1 .. m /\ f[i] # g[i]}
<1>1. CASE T = {}
  <2> SUFFICES ASSUME NEW i \in 1 .. m PROVE f[i] = g[i]
    OBVIOUS
  <2>1. i \in Nat
    OBVIOUS
  <2> QED BY <1>1, <2>1
<1>2. CASE T # {}
  <2>1. PICK i \in T : \A y \in T : i <= y
    BY <1>2, LeastNat
  <2>2. i \in 1 .. m /\ i \in 1 .. n /\ f[i] # g[i]
    BY <2>1
  <2> HIDE DEF T
  <2>3. /\ f[i] = IF i = 1 THEN MakeCrc(s[1]) ELSE ByteUpdateCrc(f[i - 1], s[i])
        /\ g[i] = IF i = 1 THEN MakeCrc(t[1]) ELSE ByteUpdateCrc(g[i - 1], t[i])
    BY <2>2 DEF IsCrcTable
  <2>4. CASE i = 1
    <3>1. s[1] = t[1]
      BY <2>2, <2>4
    <3> QED BY <2>2, <2>3, <2>4, <3>1
  <2>5. CASE i # 1
    <3>1. i - 1 \in 1 .. m /\ i - 1 \in Nat /\ ~(i <= i - 1)
      BY <2>2, <2>5
    <3>2. f[i - 1] = g[i - 1]
      BY <2>1, <3>1 DEF T
    <3>3. s[i] = t[i]
      BY <2>2
    <3> QED BY <2>2, <2>3, <2>5, <3>2, <3>3
  <2> QED BY <2>4, <2>5
<1> QED BY <1>1, <1>2

LEMMA CrcOfOne ==
  ASSUME NEW s \in Seq(ByteValue), Len(s) = 1
  PROVE  Stream!CrcOf(s) = MakeCrc(s[1])
<1> DEFINE crc == CHOOSE crc : IsCrcTable(s, 1, crc)
<1>1. IsCrcTable(s, 1, crc)
  <2>1. \E c : IsCrcTable(s, 1, c)
    BY CrcTableExists
  <2> QED BY <2>1
<1>2. Stream!CrcOf(s) = crc[1]
  BY CrcIsLast
<1> HIDE DEF crc
<1> QED BY <1>1, <1>2 DEF IsCrcTable

LEMMA CrcExtends ==
  ASSUME NEW s \in Seq(ByteValue), NEW t \in Seq(ByteValue), Len(s) >= 1, Len(t) = Len(s) + 1,
         \A i \in 1 .. Len(s) : t[i] = s[i]
  PROVE  Stream!CrcOf(t) = ByteUpdateCrc(Stream!CrcOf(s), t[Len(t)])
<1> DEFINE n == Len(s)
           f == CHOOSE crc : IsCrcTable(s, n, crc)
           g == CHOOSE crc : IsCrcTable(t, n + 1, crc)
<1>0. n \in Nat /\ n >= 1 /\ Len(t) = n + 1
  OBVIOUS
<1>1. IsCrcTable(s, n, f)
  <2>1. \E crc : IsCrcTable(s, n, crc)
    BY <1>0, CrcTableExists
  <2> QED BY <2>1
<1>2. IsCrcTable(t, n + 1, g)
  <2> DEFINE m == n + 1
  <2>0. m \in Nat
    BY <1>0
  <2> HIDE DEF m
  <2>1. \E crc : IsCrcTable(t, m, crc)
    BY <2>0, CrcTableExists
  <2>2. IsCrcTable(t, m, CHOOSE crc : IsCrcTable(t, m, crc))
    BY <2>1
  <2> QED BY <2>2 DEF m
<1>3. Stream!CrcOf(s) = f[n] /\ Stream!CrcOf(t) = g[n + 1]
  <2>1. Len(t) = n + 1
    OBVIOUS
  <2> QED BY <2>1, CrcIsLast
<1>4. \A i \in 1 .. n : s[i] = t[i]
  OBVIOUS
<1> HIDE DEF n, f, g
<1>5. \A i \in 1 .. n : f[i] = g[i]
  <2>1. n <= n /\ n <= n + 1 /\ n + 1 \in Nat
    BY <1>0
  <2> DEFINE m == n + 1
  <2>2. IsCrcTable(t, m, g) /\ m \in Nat /\ n <= m
    BY <1>2, <2>1
  <2> HIDE DEF m
  <2> QED BY <1>0, <1>1, <1>4, <2>2, CrcTablesAgree
<1>6. g[n + 1] = ByteUpdateCrc(g[n], t[n + 1])
  <2>1. n + 1 \in 1 .. n + 1 /\ n + 1 # 1 /\ (n + 1) - 1 = n
    BY <1>0
  <2> QED BY <1>2, <2>1 DEF IsCrcTable
<1>7. n \in 1 .. n
  BY <1>0
<1> QED BY <1>0, <1>3, <1>5, <1>6, <1>7
-----------------------------------------------------------------------------
(* The n bytes from a on, going round the buffer. *)
Ring(mem, a, n) == [k \in 1 .. n |-> mem[Round(a, k - 1, PacketBufferSize)]]

Ahead(a, n) == Round(a, n, PacketBufferSize)

LEMMA AheadFacts ==
  ASSUME NEW a \in Cell
  PROVE  /\ \A n \in 0 .. PacketBufferSize : Ahead(a, n) \in Cell
         /\ Ahead(a, 0) = a
         /\ \A i, j \in 0 .. PacketBufferSize :
              i + j <= PacketBufferSize => Ahead(Ahead(a, i), j) = Ahead(a, i + j)
         /\ \A n \in 0 .. PacketBufferSize - 1 : Distance(a, Ahead(a, n)) = n
         /\ \A b \in Cell : Ahead(a, Distance(a, b)) = b
BY SizeAssumption DEF Ahead, Round, Cell, Distance

LEMMA NextIsAhead ==
  ASSUME NEW a \in Cell
  PROVE  IncrementParseIndex(a) = Ahead(a, 1)
BY SizeAssumption DEF Ahead, Round, Cell, IncrementParseIndex

LEMMA RingFacts ==
  ASSUME NEW mem \in [Cell -> ByteValue], NEW a \in Cell, NEW n \in 0 .. PacketBufferSize
  PROVE  /\ Ring(mem, a, n) \in Seq(ByteValue) /\ Len(Ring(mem, a, n)) = n
         /\ \A k \in 1 .. n : Ring(mem, a, n)[k] = mem[Ahead(a, k - 1)]
<1> DEFINE r == Ring(mem, a, n)
<1>1. ASSUME NEW k \in 1 .. n PROVE mem[Ahead(a, k - 1)] \in ByteValue
  <2>1. k - 1 \in 0 .. PacketBufferSize
    BY SizeAssumption
  <2>2. Ahead(a, k - 1) \in Cell
    BY <2>1, AheadFacts
  <2> QED BY <2>2
<1>2. r \in [1 .. n -> ByteValue] /\ n \in Nat
  BY <1>1, SizeAssumption DEF Ring, Ahead
<1>3. \A k \in 1 .. n : r[k] = mem[Ahead(a, k - 1)]
  BY DEF Ring, Ahead
<1> HIDE DEF r
<1>4. r \in Seq(ByteValue) /\ Len(r) = n
  BY <1>2
<1> QED BY <1>3, <1>4 DEF r

LEMMA SubRing ==
  ASSUME NEW mem \in [Cell -> ByteValue], NEW a \in Cell, NEW n \in 0 .. PacketBufferSize,
         NEW i \in 1 .. n + 1, NEW j \in 0 .. n, i <= j + 1
  PROVE  SubSeq(Ring(mem, a, n), i, j) = Ring(mem, Ahead(a, i - 1), j - i + 1)
<1> DEFINE r == Ring(mem, a, n)
           b == Ahead(a, i - 1)
           m == j - i + 1
           sub == SubSeq(r, i, j)
           ring == Ring(mem, b, m)
<1>1. /\ r \in Seq(ByteValue) /\ Len(r) = n
      /\ \A k \in 1 .. n : r[k] = mem[Ahead(a, k - 1)] /\ r[k] \in ByteValue
  BY RingFacts, ElementOfSeq
<1>2. /\ n \in Nat /\ i - 1 \in 0 .. PacketBufferSize /\ m \in 0 .. PacketBufferSize
      /\ (i - 1) + m <= PacketBufferSize /\ m = j - i + 1
  BY SizeAssumption
<1>3. b \in Cell
  BY <1>2, AheadFacts
<1>4. \A k \in 1 .. m : i + k - 1 \in 1 .. n
  BY <1>2
<1> HIDE DEF r, b, m
<1>5. ring \in Seq(ByteValue) /\ Len(ring) = m /\ \A k \in 1 .. m : ring[k] = mem[Ahead(b, k - 1)]
  BY <1>2, <1>3, RingFacts
<1>6. /\ sub \in Seq(ByteValue) /\ Len(sub) = m
      /\ \A k \in 1 .. m : sub[k] = r[i + k - 1]
  <2>1. \A k \in i .. j : r[k] \in ByteValue
    BY <1>1, <1>2
  <2>2. /\ sub \in Seq(ByteValue) /\ Len(sub) = IF i <= j THEN j - i + 1 ELSE 0
        /\ \A k \in 1 .. j - i + 1 : sub[k] = r[i + k - 1]
    BY <2>1, SubSeqProperties
  <2> QED BY <1>2, <2>2
<1>7. ASSUME NEW k \in 1 .. m PROVE sub[k] = ring[k]
  <2>1. k - 1 \in 0 .. PacketBufferSize /\ (i - 1) + (k - 1) <= PacketBufferSize
    BY <1>2, SizeAssumption
  <2>2. Ahead(b, k - 1) = Ahead(a, (i - 1) + (k - 1))
    BY <1>2, <2>1, AheadFacts DEF b
  <2>3. (i - 1) + (k - 1) = (i + k - 1) - 1 /\ i + k - 1 \in 1 .. n
    BY <1>2, <1>4
  <2>4. r[i + k - 1] = mem[Ahead(a, (i + k - 1) - 1)]
    BY <1>1, <2>3
  <2> QED BY <1>5, <1>6, <2>2, <2>3, <2>4
<1> HIDE DEF sub, ring
<1>8. sub = ring
  BY <1>5, <1>6, <1>7, SeqEqual
<1> QED BY <1>8 DEF sub, ring, r, b, m

LEMMA SpanIsRing ==
  ASSUME NEW a, NEW b
  PROVE  Span(a, b) = Ring(buffer, a, Distance(a, b))
BY DEF Span, Ring

(* A packet, wrapped round the end of the buffer or not. *)
LEMMA PacketCells ==
  ASSUME NEW start \in Cell, buffer \in [Cell -> ByteValue], buffer[start] \in Nat,
         buffer[start] + 2 <= PacketBufferSize
  PROVE  PacketAt(start) = Ring(buffer, Ahead(start, 1), buffer[start] + 1)
<1> DEFINE index == ReturnIndex(start)
           length == PacketLength(start)
           N == PacketBufferSize
           at_end == N - index
           ring == Ring(buffer, index, length)
<1>1. N \in Nat \ {0} /\ start \in 0 .. N - 1
  BY SizeAssumption DEF Cell
<1>2. index = Ahead(start, 1) /\ index \in 0 .. N - 1
  BY <1>1 DEF ReturnIndex, Ahead, Round
<1>3. length = buffer[start] + 1 /\ length \in Nat /\ length < N
  BY <1>1 DEF PacketLength
<1> HIDE DEF index, length, N
<1>4. /\ ring \in Seq(ByteValue) /\ Len(ring) = length
      /\ \A k \in 1 .. length : ring[k] = buffer[Ahead(index, k - 1)]
  <2>1. index \in Cell /\ length \in 0 .. PacketBufferSize
    BY <1>1, <1>2, <1>3 DEF Cell, N
  <2> QED BY <2>1, RingFacts
<1>5. PacketAt(start) = IF index + length < N THEN CellsOf(index, length)
                        ELSE CellsOf(index, at_end) \o CellsOf(0, length - at_end)
  BY DEF PacketAt, index, length, N
<1>6. ASSUME NEW from \in 0 .. N - 1, NEW count \in Nat, from + count <= N
      PROVE  /\ CellsOf(from, count) \in Seq(ByteValue) /\ Len(CellsOf(from, count)) = count
             /\ \A k \in 1 .. count : CellsOf(from, count)[k] = buffer[from + k - 1]
  <2> DEFINE cells == CellsOf(from, count)
  <2>1. ASSUME NEW k \in 1 .. count PROVE buffer[from + k - 1] \in ByteValue
    <3>1. from + k - 1 \in 0 .. N - 1
      BY <1>1, <1>6
    <3> QED BY <3>1 DEF Cell, N
  <2>2. cells \in [1 .. count -> ByteValue]
    BY <2>1 DEF CellsOf
  <2>3. \A k \in 1 .. count : cells[k] = buffer[from + k - 1]
    BY DEF CellsOf
  <2> HIDE DEF cells
  <2>4. cells \in Seq(ByteValue) /\ Len(cells) = count
    BY <2>2
  <2> QED BY <2>3, <2>4 DEF cells
<1>7. CASE index + length < N
  <2> DEFINE cells == CellsOf(index, length)
  <2>1. /\ cells \in Seq(ByteValue) /\ Len(cells) = length
        /\ \A k \in 1 .. length : cells[k] = buffer[index + k - 1]
    <3>1. index \in 0 .. N - 1 /\ length \in Nat /\ index + length <= N
      BY <1>1, <1>2, <1>3, <1>7
    <3> QED BY <1>6, <3>1
  <2>2. ASSUME NEW k \in 1 .. length PROVE cells[k] = ring[k]
    <3>1. Ahead(index, k - 1) = index + k - 1
      BY <1>1, <1>2, <1>3, <1>7 DEF Ahead, Round, N
    <3> QED BY <1>4, <2>1, <3>1
  <2> HIDE DEF cells, ring
  <2>3. cells = ring
    BY <1>4, <2>1, <2>2, SeqEqual
  <2> QED BY <1>2, <1>3, <1>5, <1>7, <2>3 DEF cells, ring
<1>8. CASE ~(index + length < N)
  <2> DEFINE head == CellsOf(index, at_end)
             rest == CellsOf(0, length - at_end)
             both == head \o rest
  <2>0. at_end \in 1 .. N /\ length - at_end \in Nat /\ 0 + (length - at_end) <= N
        /\ index + at_end <= N /\ 0 \in 0 .. N - 1 /\ at_end \in Nat
    BY <1>1, <1>2, <1>3, <1>8
  <2>1. /\ head \in Seq(ByteValue) /\ Len(head) = at_end
        /\ \A k \in 1 .. at_end : head[k] = buffer[index + k - 1]
    BY <1>2, <1>6, <2>0
  <2>2. /\ rest \in Seq(ByteValue) /\ Len(rest) = length - at_end
        /\ \A k \in 1 .. length - at_end : rest[k] = buffer[0 + k - 1]
    BY <1>6, <2>0
  <2> HIDE DEF head, rest, ring
  <2>3. /\ both \in Seq(ByteValue) /\ Len(both) = Len(head) + Len(rest)
        /\ \A k \in 1 .. Len(head) + Len(rest) :
             both[k] = IF k <= Len(head) THEN head[k] ELSE rest[k - Len(head)]
    BY <2>1, <2>2, ConcatProperties
  <2>4. Len(both) = length /\ Len(head) + Len(rest) = length
    BY <1>3, <2>0, <2>1, <2>2, <2>3
  <2>5. ASSUME NEW k \in 1 .. length PROVE both[k] = ring[k]
    <3>0. both[k] = IF k <= at_end THEN head[k] ELSE rest[k - at_end]
      BY <2>1, <2>3, <2>4
    <3>1. CASE k <= at_end
      <4>1. Ahead(index, k - 1) = index + k - 1 /\ k \in 1 .. at_end
        BY <1>1, <1>2, <1>3, <2>0, <3>1 DEF Ahead, Round, N
      <4> QED BY <1>4, <2>1, <3>0, <3>1, <4>1
    <3>2. CASE ~(k <= at_end)
      <4>1. Ahead(index, k - 1) = 0 + (k - at_end) - 1 /\ k - at_end \in 1 .. length - at_end
        BY <1>1, <1>2, <1>3, <2>0, <3>2 DEF Ahead, Round, N
      <4> QED BY <1>4, <2>2, <3>0, <3>2, <4>1
    <3> QED BY <3>1, <3>2
  <2> HIDE DEF both
  <2>6. both = ring
    BY <1>4, <2>3, <2>4, <2>5, SeqEqual
  <2> QED BY <1>2, <1>3, <1>5, <1>8, <2>6 DEF both, head, rest, ring
<1> QED BY <1>7, <1>8

LEMMA ShiftedSubSeq ==
  ASSUME NEW r \in Seq(ByteValue), NEW p \in Seq(ByteValue), Len(p) = Len(r) + 1,
         \A k \in 1 .. Len(r) : p[k + 1] = r[k],
         NEW i \in 1 .. Len(r) + 1, NEW j \in 0 .. Len(r), i <= j + 1
  PROVE  SubSeq(p, i + 1, j + 1) = SubSeq(r, i, j)
<1> DEFINE n == Len(r)
           x == SubSeq(p, i + 1, j + 1)
           y == SubSeq(r, i, j)
<1>0. n \in Nat /\ i \in 1 .. n + 1 /\ j \in 0 .. n
  OBVIOUS
<1> HIDE DEF n
<1>1. \A k \in i + 1 .. j + 1 : p[k] \in ByteValue
  <2> SUFFICES ASSUME NEW k \in i + 1 .. j + 1 PROVE p[k] \in ByteValue
    OBVIOUS
  <2>1. k \in 1 .. n + 1
    BY <1>0
  <2>2. Len(p) = n + 1
    BY DEF n
  <2> QED BY <2>1, <2>2, ElementOfSeq
<1>2. \A k \in i .. j : r[k] \in ByteValue
  <2>1. \A k \in i .. j : k \in 1 .. n
    BY <1>0
  <2> QED BY <2>1, ElementOfSeq DEF n
<1>3. /\ x \in Seq(ByteValue) /\ Len(x) = IF i + 1 <= j + 1 THEN (j + 1) - (i + 1) + 1 ELSE 0
      /\ \A k \in 1 .. (j + 1) - (i + 1) + 1 : x[k] = p[(i + 1) + k - 1]
  <2> DEFINE a == i + 1
             b == j + 1
  <2>1. a \in Int /\ b \in Int /\ \A k \in a .. b : p[k] \in ByteValue
    BY <1>0, <1>1
  <2> HIDE DEF a, b
  <2>2. /\ SubSeq(p, a, b) \in Seq(ByteValue) /\ Len(SubSeq(p, a, b)) = IF a <= b THEN b - a + 1 ELSE 0
        /\ \A k \in 1 .. b - a + 1 : SubSeq(p, a, b)[k] = p[a + k - 1]
    BY <2>1, SubSeqProperties
  <2> QED BY <2>2 DEF a, b
<1>4. /\ y \in Seq(ByteValue) /\ Len(y) = IF i <= j THEN j - i + 1 ELSE 0
      /\ \A k \in 1 .. j - i + 1 : y[k] = r[i + k - 1]
  BY <1>0, <1>2, SubSeqProperties
<1> HIDE DEF x, y
<1>5. Len(x) = Len(y) /\ Len(y) = j - i + 1
  BY <1>0, <1>3, <1>4
<1>6. ASSUME NEW k \in 1 .. Len(x) PROVE x[k] = y[k]
  <2>1. k \in 1 .. j - i + 1 /\ k \in 1 .. (j + 1) - (i + 1) + 1
    BY <1>0, <1>5
  <2>2. i + k - 1 \in 1 .. n /\ (i + 1) + k - 1 = (i + k - 1) + 1
    BY <1>0, <2>1
  <2>3. p[(i + k - 1) + 1] = r[i + k - 1]
    BY <2>2 DEF n
  <2> QED BY <1>3, <1>4, <2>1, <2>2, <2>3
<1>7. x = y
  BY <1>3, <1>4, <1>5, <1>6, SeqEqual
<1> QED BY <1>7 DEF x, y

(* The pending bytes behind the start byte. *)
LEMMA Framed ==
  ASSUME NEW r \in Seq(ByteValue), NEW p, p = <<StartByte>> \o r
  PROVE  /\ p \in Seq(ByteValue) /\ Len(p) = Len(r) + 1 /\ p # <<>> /\ p[1] = StartByte
         /\ \A k \in 1 .. Len(r) : p[k + 1] = r[k]
         /\ Tail(p) = r
         /\ \A i \in 1 .. Len(r) + 1, j \in 0 .. Len(r) :
              i <= j + 1 => SubSeq(p, i + 1, j + 1) = SubSeq(r, i, j)
<1>0. Len(r) \in Nat /\ \A k \in 1 .. Len(r) : r[k] \in ByteValue
  BY LenProperties, ElementOfSeq
<1>1. <<StartByte>> \in Seq(ByteValue) /\ Len(<<StartByte>>) = 1 /\ <<StartByte>>[1] = StartByte
  BY StartAssumption
<1>2. /\ p \in Seq(ByteValue) /\ Len(p) = 1 + Len(r)
      /\ \A k \in 1 .. 1 + Len(r) : p[k] = IF k <= 1 THEN <<StartByte>>[k] ELSE r[k - 1]
  BY <1>1, ConcatProperties
<1>3. Len(p) = Len(r) + 1 /\ p # <<>> /\ p[1] = StartByte
  BY <1>0, <1>1, <1>2
<1>4. ASSUME NEW k \in 1 .. Len(r) PROVE p[k + 1] = r[k]
  <2>1. k + 1 \in 1 .. 1 + Len(r) /\ ~(k + 1 <= 1) /\ (k + 1) - 1 = k
    BY <1>0
  <2> QED BY <1>2, <2>1
<1>5. Tail(p) = r
  <2>1. /\ Tail(p) \in Seq(ByteValue) /\ Len(Tail(p)) = Len(p) - 1
        /\ \A k \in 1 .. Len(Tail(p)) : Tail(p)[k] = p[k + 1]
    BY <1>2, <1>3, HeadTailProperties
  <2>2. Len(Tail(p)) = Len(r)
    BY <1>0, <1>3, <2>1
  <2> QED BY <1>4, <2>1, <2>2, SeqEqual
<1>6. \A i \in 1 .. Len(r) + 1, j \in 0 .. Len(r) :
        i <= j + 1 => SubSeq(p, i + 1, j + 1) = SubSeq(r, i, j)
  BY <1>2, <1>3, <1>4, ShiftedSubSeq
<1> QED BY <1>2, <1>3, <1>4, <1>5, <1>6
-----------------------------------------------------------------------------
(* The CRC fields of the parser belong to the bytes it has passed.         *)
CrcSoFar ==
  /\ pf.state \in {"kType", "kData", "kCRCL"} =>
       pf.expected_crc = Stream!CrcOf(Ring(buffer, pf.packet_start_index, Parsed))
  /\ pf.state = "kCRCH" =>
       /\ pf.expected_crc = Stream!CrcOf(Ring(buffer, pf.packet_start_index, Parsed - 1))
       /\ pf.received_crc = buffer[Ahead(pf.packet_start_index, Parsed - 1)]

FullInv == IInv /\ CrcSoFar

LEMMA RingTail ==
  ASSUME NEW mem \in [Cell -> ByteValue], NEW a \in Cell, NEW n \in 1 .. PacketBufferSize
  PROVE  /\ Ring(mem, a, n) # <<>> /\ Ring(mem, a, n)[1] = mem[a]
         /\ Tail(Ring(mem, a, n)) = Ring(mem, Ahead(a, 1), n - 1)
         /\ mem[a] = StartByte => Ring(mem, a, n) = <<StartByte>> \o Ring(mem, Ahead(a, 1), n - 1)
<1> DEFINE r == Ring(mem, a, n)
           t == Ring(mem, Ahead(a, 1), n - 1)
<1>0. n \in 0 .. PacketBufferSize /\ n \in Nat /\ n >= 1 /\ n - 1 \in 0 .. PacketBufferSize
      /\ 1 \in 0 .. PacketBufferSize
  BY SizeAssumption
<1>1. r \in Seq(ByteValue) /\ Len(r) = n /\ \A k \in 1 .. n : r[k] = mem[Ahead(a, k - 1)]
  BY <1>0, RingFacts
<1>2. Ahead(a, 1) \in Cell /\ Ahead(a, 1 - 1) = a
  BY <1>0, AheadFacts
<1>3. t \in Seq(ByteValue) /\ Len(t) = n - 1 /\ \A k \in 1 .. n - 1 : t[k] = mem[Ahead(Ahead(a, 1), k - 1)]
  BY <1>0, <1>2, RingFacts
<1>4. \A k \in 1 .. n - 1 : Ahead(Ahead(a, 1), k - 1) = Ahead(a, (k + 1) - 1)
  <2> SUFFICES ASSUME NEW k \in 1 .. n - 1 PROVE Ahead(Ahead(a, 1), k - 1) = Ahead(a, (k + 1) - 1)
    OBVIOUS
  <2>1. k - 1 \in 0 .. PacketBufferSize /\ 1 + (k - 1) <= PacketBufferSize /\ 1 + (k - 1) = (k + 1) - 1
    BY <1>0, SizeAssumption
  <2> QED BY <1>0, <2>1, AheadFacts
<1> HIDE DEF r, t
<1>5. ASSUME NEW k \in 1 .. n - 1 PROVE k + 1 \in 1 .. n /\ r[k + 1] = t[k]
  <2>1. k + 1 \in 1 .. n
    BY <1>0
  <2>2. r[k + 1] = mem[Ahead(a, (k + 1) - 1)]
    BY <1>1, <2>1
  <2> QED BY <1>3, <1>4, <2>1, <2>2
<1>6. r # <<>> /\ r[1] = mem[a]
  <2>1. 1 \in 1 .. n
    BY <1>0
  <2> QED BY <1>0, <1>1, <1>2, <2>1
<1>7. Tail(r) = t
  <2>1. /\ Tail(r) \in Seq(ByteValue) /\ Len(Tail(r)) = n - 1
        /\ \A k \in 1 .. n - 1 : Tail(r)[k] = r[k + 1]
    BY <1>1, <1>6, HeadTailProperties
  <2> QED BY <1>3, <1>5, <2>1, SeqEqual
<1>8. ASSUME mem[a] = StartByte PROVE r = <<StartByte>> \o t
  <2> DEFINE q == <<StartByte>> \o t
  <2>1. /\ q \in Seq(ByteValue) /\ Len(q) = Len(t) + 1 /\ q[1] = StartByte
        /\ \A k \in 1 .. Len(t) : q[k + 1] = t[k]
    BY <1>3, Framed
  <2> HIDE DEF q
  <2>2. Len(q) = n
    BY <1>0, <1>3, <2>1
  <2>3. ASSUME NEW k \in 1 .. n PROVE r[k] = q[k]
    <3>1. CASE k = 1
      BY <1>6, <1>8, <2>1, <3>1
    <3>2. CASE k # 1
      <4>1. k - 1 \in 1 .. n - 1 /\ (k - 1) + 1 = k
        BY <1>0, <3>2
      <4> QED BY <1>3, <1>5, <2>1, <4>1
    <3> QED BY <3>1, <3>2
  <2>4. r = q
    BY <1>1, <2>1, <2>2, <2>3, SeqEqual
  <2> QED BY <2>4 DEF q
<1> QED BY <1>6, <1>7, <1>8 DEF r, t

(* The bytes from the assumed length byte on.                              *)
Rest == Distance(pf.packet_start_index, end_data)

LEMMA WindowFacts ==
  ASSUME IInv
  PROVE  /\ pf.packet_start_index \in Cell /\ pf.parse_index \in Cell /\ end_data \in Cell
         /\ buffer \in [Cell -> ByteValue] /\ Base \in Cell
         /\ Rest \in 0 .. PacketBufferSize - 1 /\ Parsed \in 0 .. PacketBufferSize - 1 /\ Parsed <= Rest
         /\ pf.parse_index = Ahead(pf.packet_start_index, Parsed)
         /\ Distance(pf.parse_index, end_data) = Rest - Parsed
         /\ From(pf.packet_start_index) + Rest = From(end_data)
         /\ From(pf.packet_start_index) \in Nat /\ From(end_data) \in 0 .. PacketBufferSize - 1
         /\ Pending = IF pf.state = "kStart"
                      THEN Ring(buffer, pf.parse_index, Rest - Parsed)
                      ELSE <<StartByte>> \o Ring(buffer, pf.packet_start_index, Rest)
<1> DEFINE psi == pf.packet_start_index
           at == pf.parse_index
<1>1. /\ psi \in Cell /\ at \in Cell /\ end_data \in Cell /\ Base \in Cell
      /\ buffer \in [Cell -> ByteValue]
  BY Fields, WaitingFacts DEF IInv
<1>2. Distance(Base, psi) + Distance(psi, at) = Distance(Base, at)
      /\ Distance(Base, at) <= Distance(Base, end_data)
  BY DEF IInv, InOrder, From, Parsed
<1>3. Pending = IF pf.state = "kStart" THEN Ring(buffer, at, Distance(at, end_data))
                ELSE <<StartByte>> \o Ring(buffer, psi, Distance(psi, end_data))
  BY SpanIsRing DEF Pending
<1> HIDE DEF psi, at
<1>4. \A a, b \in Cell : Distance(a, b) \in 0 .. PacketBufferSize - 1 /\ Distance(a, b) \in Nat
  BY DistanceFacts
<1>5. /\ Distance(Base, psi) \in Nat /\ Distance(psi, at) \in Nat /\ Distance(Base, at) \in Nat
      /\ Distance(Base, end_data) \in Nat
  BY <1>1, <1>4
<1>6. Distance(Base, psi) <= Distance(Base, end_data)
  BY <1>2, <1>5
<1>7. /\ Distance(psi, end_data) = Distance(Base, end_data) - Distance(Base, psi)
      /\ Distance(at, end_data) = Distance(Base, end_data) - Distance(Base, at)
  BY <1>1, <1>2, <1>6, Rebase
<1>8. /\ Distance(at, end_data) = Distance(psi, end_data) - Distance(psi, at)
      /\ Distance(psi, at) <= Distance(psi, end_data)
      /\ Distance(Base, psi) + Distance(psi, end_data) = Distance(Base, end_data)
  BY <1>2, <1>5, <1>7
<1>9. at = Ahead(psi, Distance(psi, at))
  BY <1>1, AheadFacts
<1>10. /\ Distance(psi, end_data) \in 0 .. PacketBufferSize - 1 /\ Distance(psi, at) \in 0 .. PacketBufferSize - 1
       /\ Distance(Base, end_data) \in 0 .. PacketBufferSize - 1
  BY <1>1, <1>4
<1> QED BY <1>1, <1>3, <1>5, <1>8, <1>9, <1>10 DEF Rest, Parsed, From, psi, at

LEMMA PendingAfter ==
  ASSUME UNCHANGED <<buffer, end_data>>
  PROVE  Pending' = IF pf'.state = "kStart"
                    THEN Ring(buffer, pf'.parse_index, Distance(pf'.parse_index, end_data))
                    ELSE <<StartByte>> \o Ring(buffer, pf'.packet_start_index,
                                               Distance(pf'.packet_start_index, end_data))
<1>1. Pending' = IF pf'.state = "kStart" THEN Span(pf'.parse_index, end_data)
                 ELSE <<StartByte>> \o Span(pf'.packet_start_index, end_data)
  BY DEF Pending, Span
<1> QED BY <1>1, SpanIsRing

LEMMA ReadyStays ==
  ASSUME UNCHANGED <<buffer, packet_indices>>
  PROVE  Ready' = Ready
BY DEF Ready, Waiting, Items, PacketAt, CellsOf, ReturnIndex, PacketLength
-----------------------------------------------------------------------------
(* What each step of the finder is to the packet stream.                   *)
StreamStep == Stream!Next \/ UNCHANGED <<Pending, Ready>>

LEMMA SkipStep ==
  ASSUME Pending # <<>>, Stream!NoPacketHere, Pending' = Tail(Pending), Ready' = Ready
  PROVE  StreamStep
BY DEF StreamStep, Stream!Next, Stream!Skip

(* A byte that is no start byte is given up; a start byte goes on pending. *)
LEMMA StartStep == FullInv /\ ParseStart => CrcSoFar' /\ StreamStep
<1> SUFFICES ASSUME FullInv, ParseStart PROVE CrcSoFar' /\ StreamStep
  OBVIOUS
<1> DEFINE at == pf.parse_index
           M == Rest - Parsed
           after == Ring(buffer, Ahead(at, 1), M - 1)
<1>1. /\ parsing /\ at # end_data /\ pf.state = "kStart"
      /\ pf' = [pf EXCEPT !.state = IF ThisByte = StartByte THEN "kLen" ELSE "kStart",
                          !.parse_index = NextIndex, !.packet_start_index = NextIndex]
      /\ UNCHANGED <<start_data, end_data, buffer, parsing, buffer_status, packet_indices>>
  BY DEF ParseStart, Parse
<1>2. /\ pf'.state = IF ThisByte = StartByte THEN "kLen" ELSE "kStart"
      /\ pf'.parse_index = NextIndex /\ pf'.packet_start_index = NextIndex
  BY <1>1 DEF FullInv, IInv, TypeOK
<1>3. CrcSoFar'
  BY <1>2 DEF CrcSoFar
<1>4. /\ at \in Cell /\ end_data \in Cell /\ buffer \in [Cell -> ByteValue] /\ M \in 0 .. PacketBufferSize - 1
      /\ Distance(at, end_data) = M /\ Pending = Ring(buffer, at, M)
  <2>1. Rest \in 0 .. PacketBufferSize - 1 /\ Parsed \in 0 .. PacketBufferSize - 1 /\ Parsed <= Rest
    BY WindowFacts DEF FullInv
  <2>2. M \in 0 .. PacketBufferSize - 1
    BY <2>1, SizeAssumption
  <2> QED BY <1>1, <2>2, WindowFacts DEF FullInv
<1> HIDE DEF at, M
<1>5. M \in 1 .. PacketBufferSize /\ M \in 1 .. PacketBufferSize - 1
  <2>1. M # 0
    BY <1>1, <1>4, DistanceFacts
  <2> QED BY <1>4, <2>1, SizeAssumption
<1>6. /\ NextIndex = Ahead(at, 1) /\ Ahead(at, 1) \in Cell
      /\ Distance(Ahead(at, 1), end_data) = M - 1
  <2>1. 1 \in 0 .. PacketBufferSize - 1 /\ 1 \in 0 .. PacketBufferSize
    BY <1>5, SizeAssumption
  <2>2. Distance(at, Ahead(at, 1)) = 1 /\ Ahead(at, 1) \in Cell
    BY <1>4, <2>1, AheadFacts
  <2>3. Distance(at, Ahead(at, 1)) <= Distance(at, end_data)
    BY <1>4, <1>5, <2>2
  <2>4. Distance(Ahead(at, 1), end_data) = M - 1
    BY <1>4, <2>2, <2>3, Rebase
  <2> QED BY <1>4, <2>2, <2>4, NextIsAhead DEF NextIndex, at
<1>7. Ready' = Ready
  BY <1>1, ReadyStays
<1>8. /\ Pending # <<>> /\ Pending[1] = ThisByte /\ Tail(Pending) = after
      /\ ThisByte = StartByte => Pending = <<StartByte>> \o after
  BY <1>4, <1>5, RingTail DEF ThisByte, at
<1>9. Pending' = IF pf'.state = "kStart" THEN after ELSE <<StartByte>> \o after
  BY <1>1, <1>2, <1>6, PendingAfter
<1> HIDE DEF after
<1>10. CASE ThisByte = StartByte
  <2>1. Pending' = Pending
    BY <1>2, <1>8, <1>9, <1>10
  <2> QED BY <1>3, <1>7, <2>1 DEF StreamStep
<1>11. CASE ThisByte # StartByte
  <2>1. Pending' = Tail(Pending) /\ Stream!NoPacketHere
    BY <1>2, <1>8, <1>9, <1>11 DEF Stream!NoPacketHere
  <2> QED BY <1>3, <1>7, <1>8, <2>1, SkipStep
<1> QED BY <1>10, <1>11

(* The pending bytes once the start byte has been seen.                    *)
LEMMA PendingFacts ==
  ASSUME IInv, pf.state # "kStart"
  PROVE  LET r == Ring(buffer, pf.packet_start_index, Rest)
         IN  /\ Pending # <<>> /\ Pending[1] = StartByte /\ Len(Pending) = Rest + 1
             /\ Tail(Pending) = r
             /\ \A k \in 1 .. Rest : Pending[k + 1] = buffer[Ahead(pf.packet_start_index, k - 1)]
             /\ Rest >= 1 => Pending[2] = buffer[pf.packet_start_index]
             /\ \A i \in 1 .. Rest + 1, j \in 0 .. Rest :
                  i <= j + 1 => SubSeq(Pending, i + 1, j + 1)
                                  = Ring(buffer, Ahead(pf.packet_start_index, i - 1), j - i + 1)
<1> DEFINE psi == pf.packet_start_index
           n == Rest
           r == Ring(buffer, psi, n)
<1>1. /\ psi \in Cell /\ buffer \in [Cell -> ByteValue] /\ n \in 0 .. PacketBufferSize - 1
      /\ Pending = <<StartByte>> \o r
  BY WindowFacts
<1>2. n \in 0 .. PacketBufferSize /\ n \in Nat
  BY <1>1, SizeAssumption
<1> HIDE DEF psi, n
<1>3. r \in Seq(ByteValue) /\ Len(r) = n /\ \A k \in 1 .. n : r[k] = buffer[Ahead(psi, k - 1)]
  BY <1>1, <1>2, RingFacts
<1>4. \A i \in 1 .. n + 1, j \in 0 .. n :
        i <= j + 1 => SubSeq(r, i, j) = Ring(buffer, Ahead(psi, i - 1), j - i + 1)
  BY <1>1, <1>2, SubRing
<1> HIDE DEF r
<1>5. /\ Pending # <<>> /\ Pending[1] = StartByte /\ Len(Pending) = n + 1 /\ Tail(Pending) = r
      /\ \A k \in 1 .. n : Pending[k + 1] = r[k]
      /\ \A i \in 1 .. n + 1, j \in 0 .. n :
           i <= j + 1 => SubSeq(Pending, i + 1, j + 1) = SubSeq(r, i, j)
  BY <1>1, <1>3, Framed
<1>6. n >= 1 => Pending[2] = buffer[psi]
  <2> SUFFICES ASSUME n >= 1 PROVE Pending[2] = buffer[psi]
    OBVIOUS
  <2>1. 1 \in 1 .. n /\ 1 + 1 = 2 /\ 1 - 1 = 0
    BY <1>2
  <2>2. Ahead(psi, 0) = psi
    BY <1>1, AheadFacts
  <2>3. Pending[1 + 1] = buffer[Ahead(psi, 1 - 1)]
    BY <1>3, <1>5, <2>1
  <2> QED BY <2>1, <2>2, <2>3
<1> QED BY <1>3, <1>4, <1>5, <1>6 DEF psi, n, r

(* A length that cannot be gives up the start byte before it.              *)
LEMMA LenStep == FullInv /\ ParseLen => CrcSoFar' /\ StreamStep
<1> SUFFICES ASSUME FullInv, ParseLen PROVE CrcSoFar' /\ StreamStep
  OBVIOUS
<1> DEFINE psi == pf.packet_start_index
<1>1. /\ parsing /\ pf.parse_index # end_data /\ pf.state = "kLen"
      /\ pf' = IF ThisByte <= MaxData
               THEN [pf EXCEPT !.state = "kType", !.packet_start_index = pf.parse_index,
                               !.received_length = ThisByte, !.expected_crc = MakeCrc(ThisByte),
                               !.parse_index = NextIndex]
               ELSE [pf EXCEPT !.state = "kStart", !.packet_start_index = pf.parse_index]
      /\ UNCHANGED <<start_data, end_data, buffer, parsing, buffer_status, packet_indices>>
  BY DEF ParseLen, Parse
<1>2. /\ psi \in Cell /\ end_data \in Cell /\ buffer \in [Cell -> ByteValue]
      /\ Rest \in 0 .. PacketBufferSize - 1 /\ Distance(psi, end_data) = Rest
      /\ Pending = <<StartByte>> \o Ring(buffer, psi, Rest)
      /\ pf.parse_index = Ahead(psi, Parsed) /\ Parsed = 0
  <2>1. Parsed = 0
    BY <1>1 DEF FullInv, IInv, Place
  <2> QED BY <1>1, <2>1, WindowFacts DEF FullInv, Rest
<1>3. pf.parse_index = psi
  BY <1>2, AheadFacts
<1>4. Rest >= 1
  <2>1. Rest # 0
    <3>1. psi # end_data
      BY <1>1, <1>3
    <3> QED BY <1>2, <3>1, DistanceFacts
  <2> QED BY <1>2, <2>1, SizeAssumption
<1>5. /\ Pending # <<>> /\ Pending[1] = StartByte /\ Len(Pending) = Rest + 1
      /\ Tail(Pending) = Ring(buffer, psi, Rest) /\ Pending[2] = ThisByte
  <2>1. IInv /\ pf.state # "kStart"
    BY <1>1 DEF FullInv
  <2> QED BY <1>3, <1>4, <2>1, PendingFacts DEF ThisByte
<1>6. Ready' = Ready
  BY <1>1, ReadyStays
<1>7. CASE ThisByte <= MaxData
  <2>1. /\ pf'.packet_start_index = psi /\ pf'.parse_index = NextIndex /\ pf'.state = "kType"
        /\ pf'.expected_crc = MakeCrc(ThisByte)
    BY <1>1, <1>3, <1>7 DEF FullInv, IInv, TypeOK
  <2>2. Pending' = Pending
    BY <1>1, <1>2, <2>1, PendingAfter
  <2>3. CrcSoFar'
    <3> DEFINE r == Ring(buffer, psi, 1)
    <3>1. Distance(psi, NextIndex) = 1
      BY <1>1, <1>2, NextPlace DEF FullInv
    <3>2. Parsed' = 1
      BY <2>1, <3>1 DEF Parsed
    <3>3. r \in Seq(ByteValue) /\ Len(r) = 1 /\ r[1] = ThisByte
      <4>1. 1 \in 0 .. PacketBufferSize /\ 1 \in 1 .. PacketBufferSize
        BY SizeAssumption
      <4>2. r[1] = buffer[psi]
        BY <1>2, <4>1, RingTail
      <4> QED BY <1>2, <1>3, <4>1, <4>2, RingFacts DEF ThisByte
    <3> HIDE DEF r
    <3>4. Stream!CrcOf(r) = MakeCrc(ThisByte)
      BY <3>3, CrcOfOne
    <3>5. pf'.expected_crc = Stream!CrcOf(Ring(buffer, psi, Parsed'))
      BY <2>1, <3>2, <3>4 DEF r
    <3>6. Stream!CrcOf(Ring(buffer, psi, Parsed'))
            = (Stream!CrcOf(Ring(buffer, pf.packet_start_index, Parsed)))'
      BY <1>1, <2>1
    <3> QED BY <2>1, <3>5, <3>6 DEF CrcSoFar
  <2> QED BY <1>6, <2>2, <2>3 DEF StreamStep
<1>8. CASE ~(ThisByte <= MaxData)
  <2>1. /\ pf'.packet_start_index = psi /\ pf'.parse_index = psi /\ pf'.state = "kStart"
    BY <1>1, <1>3, <1>8 DEF FullInv, IInv, TypeOK
  <2>2. Pending' = Tail(Pending)
    BY <1>1, <1>2, <1>5, <2>1, PendingAfter
  <2>3. ThisByte \in Nat /\ MaxData \in Nat
    BY <1>1, NextPlace, StartAssumption, SizeAssumption DEF FullInv, ByteValue
  <2>4. Stream!NoPacketHere
    <3>1. ThisByte > MaxData
      BY <1>8, <2>3
    <3>2. Len(Pending) >= 2
      BY <1>2, <1>4, <1>5, SizeAssumption
    <3> QED BY <1>5, <3>1, <3>2 DEF Stream!NoPacketHere, Stream!LengthSeen
  <2>5. CrcSoFar'
    BY <2>1 DEF CrcSoFar
  <2> QED BY <1>5, <1>6, <2>2, <2>4, <2>5, SkipStep
<1> QED BY <1>7, <1>8

(* The CRC over one byte more. *)
LEMMA NextCrc ==
  ASSUME FullInv, parsing, pf.parse_index # end_data, Parsed >= 1
  PROVE  /\ Stream!CrcOf(Ring(buffer, pf.packet_start_index, Parsed + 1))
              = ByteUpdateCrc(Stream!CrcOf(Ring(buffer, pf.packet_start_index, Parsed)), ThisByte)
         /\ ThisByte = buffer[Ahead(pf.packet_start_index, Parsed)]
<1> DEFINE psi == pf.packet_start_index
           n == Parsed
           s == Ring(buffer, psi, n)
           t == Ring(buffer, psi, n + 1)
<1>1. /\ psi \in Cell /\ buffer \in [Cell -> ByteValue] /\ n \in 0 .. PacketBufferSize - 1
      /\ pf.parse_index = Ahead(psi, n)
  BY WindowFacts DEF FullInv
<1>2. n \in 0 .. PacketBufferSize /\ n + 1 \in 0 .. PacketBufferSize /\ n \in Nat /\ n >= 1
  <2>0. n \in 0 .. PacketBufferSize - 1 /\ n >= 1
    BY <1>1
  <2> HIDE DEF n
  <2> QED BY <2>0, SizeAssumption
<1>3. ThisByte = buffer[Ahead(psi, n)]
  BY <1>1 DEF ThisByte
<1> HIDE DEF psi, n
<1>4. /\ s \in Seq(ByteValue) /\ Len(s) = n /\ \A k \in 1 .. n : s[k] = buffer[Ahead(psi, k - 1)]
      /\ t \in Seq(ByteValue) /\ Len(t) = n + 1 /\ \A k \in 1 .. n + 1 : t[k] = buffer[Ahead(psi, k - 1)]
  BY <1>1, <1>2, RingFacts
<1> HIDE DEF s, t
<1>5. \A k \in 1 .. n : t[k] = s[k]
  <2>1. \A k \in 1 .. n : k \in 1 .. n + 1
    BY <1>2
  <2> QED BY <1>4, <2>1
<1>6. t[n + 1] = ThisByte
  <2>1. n + 1 \in 1 .. n + 1 /\ (n + 1) - 1 = n
    BY <1>2
  <2> QED BY <1>3, <1>4, <2>1
<1>7. Stream!CrcOf(t) = ByteUpdateCrc(Stream!CrcOf(s), t[Len(t)])
  <2>1. Len(s) >= 1 /\ Len(t) = Len(s) + 1 /\ \A i \in 1 .. Len(s) : t[i] = s[i]
    BY <1>2, <1>4, <1>5
  <2> QED BY <1>4, <2>1, CrcExtends
<1> QED BY <1>3, <1>4, <1>6, <1>7 DEF psi, n, s, t

(* Taking a byte of a packet changes nothing that is pending.              *)
LEMMA InsideStep ==
  ASSUME FullInv, parsing, pf.parse_index # end_data, pf.state # "kStart",
         UNCHANGED <<start_data, end_data, buffer, parsing, buffer_status, packet_indices>>,
         pf'.packet_start_index = pf.packet_start_index, pf'.parse_index = NextIndex,
         pf'.state # "kStart"
  PROVE  StreamStep /\ Parsed' = Parsed + 1
<1>1. Pending = <<StartByte>> \o Ring(buffer, pf.packet_start_index, Rest)
  BY WindowFacts DEF FullInv
<1>2. Pending' = Pending
  BY <1>1, PendingAfter DEF Rest
<1>3. Ready' = Ready
  BY ReadyStays
<1>4. Parsed' = Parsed + 1
  BY NextPlace DEF FullInv, Parsed
<1> QED BY <1>2, <1>3, <1>4 DEF StreamStep

LEMMA TypeStep == FullInv /\ ParseType => CrcSoFar' /\ StreamStep
<1> SUFFICES ASSUME FullInv, ParseType PROVE CrcSoFar' /\ StreamStep
  OBVIOUS
<1>1. /\ parsing /\ pf.parse_index # end_data /\ pf.state = "kType"
      /\ pf' = [pf EXCEPT !.expected_crc = ByteUpdateCrc(@, ThisByte),
                          !.state = IF pf.received_length > 0 THEN "kData" ELSE "kCRCL",
                          !.data_bytes = 0, !.parse_index = NextIndex]
      /\ UNCHANGED <<start_data, end_data, buffer, parsing, buffer_status, packet_indices>>
  BY DEF ParseType, Parse
<1>2. /\ pf'.packet_start_index = pf.packet_start_index /\ pf'.parse_index = NextIndex
      /\ pf'.state \in {"kData", "kCRCL"}
      /\ pf'.expected_crc = ByteUpdateCrc(pf.expected_crc, ThisByte)
  BY <1>1 DEF FullInv, IInv, TypeOK
<1>3. StreamStep /\ Parsed' = Parsed + 1
  BY <1>1, <1>2, InsideStep
<1>4. Parsed = 1 /\ pf.expected_crc = Stream!CrcOf(Ring(buffer, pf.packet_start_index, Parsed))
  BY <1>1 DEF FullInv, IInv, Place, CrcSoFar
<1>5. pf'.expected_crc = Stream!CrcOf(Ring(buffer, pf.packet_start_index, Parsed + 1))
  BY <1>1, <1>2, <1>4, NextCrc
<1>6. pf'.expected_crc = (Stream!CrcOf(Ring(buffer, pf.packet_start_index, Parsed)))'
  BY <1>1, <1>2, <1>3, <1>5
<1>7. CrcSoFar'
  BY <1>2, <1>6 DEF CrcSoFar
<1> QED BY <1>3, <1>7

LEMMA DataStep == FullInv /\ ParseData => CrcSoFar' /\ StreamStep
<1> SUFFICES ASSUME FullInv, ParseData PROVE CrcSoFar' /\ StreamStep
  OBVIOUS
<1>1. /\ parsing /\ pf.parse_index # end_data /\ pf.state = "kData"
      /\ pf' = [pf EXCEPT !.expected_crc = ByteUpdateCrc(@, ThisByte), !.data_bytes = @ + 1,
                          !.state = IF pf.data_bytes + 1 >= pf.received_length
                                    THEN "kCRCL" ELSE "kData",
                          !.parse_index = NextIndex]
      /\ UNCHANGED <<start_data, end_data, buffer, parsing, buffer_status, packet_indices>>
  BY DEF ParseData, Parse
<1>2. /\ pf'.packet_start_index = pf.packet_start_index /\ pf'.parse_index = NextIndex
      /\ pf'.state \in {"kData", "kCRCL"}
      /\ pf'.expected_crc = ByteUpdateCrc(pf.expected_crc, ThisByte)
  BY <1>1 DEF FullInv, IInv, TypeOK
<1>3. StreamStep /\ Parsed' = Parsed + 1
  BY <1>1, <1>2, InsideStep
<1>4. Parsed >= 1 /\ pf.expected_crc = Stream!CrcOf(Ring(buffer, pf.packet_start_index, Parsed))
  <2>1. Parsed = pf.data_bytes + 2 /\ pf.data_bytes \in Nat
    BY <1>1, Fields, StartAssumption DEF FullInv, IInv, Place
  <2> QED BY <1>1, <2>1 DEF FullInv, CrcSoFar
<1>5. pf'.expected_crc = Stream!CrcOf(Ring(buffer, pf.packet_start_index, Parsed + 1))
  BY <1>1, <1>2, <1>4, NextCrc
<1>6. pf'.expected_crc = (Stream!CrcOf(Ring(buffer, pf.packet_start_index, Parsed)))'
  BY <1>1, <1>2, <1>3, <1>5
<1>7. CrcSoFar'
  BY <1>2, <1>6 DEF CrcSoFar
<1> QED BY <1>3, <1>7

LEMMA LowStep == FullInv /\ ParseCRCL => CrcSoFar' /\ StreamStep
<1> SUFFICES ASSUME FullInv, ParseCRCL PROVE CrcSoFar' /\ StreamStep
  OBVIOUS
<1>1. /\ parsing /\ pf.parse_index # end_data /\ pf.state = "kCRCL"
      /\ pf' = [pf EXCEPT !.received_crc = ThisByte, !.state = "kCRCH", !.parse_index = NextIndex]
      /\ UNCHANGED <<start_data, end_data, buffer, parsing, buffer_status, packet_indices>>
  BY DEF ParseCRCL, Parse
<1>2. /\ pf'.packet_start_index = pf.packet_start_index /\ pf'.parse_index = NextIndex
      /\ pf'.state = "kCRCH" /\ pf'.expected_crc = pf.expected_crc /\ pf'.received_crc = ThisByte
  BY <1>1 DEF FullInv, IInv, TypeOK
<1>3. StreamStep /\ Parsed' = Parsed + 1
  BY <1>1, <1>2, InsideStep
<1>4. Parsed \in Nat /\ Parsed >= 1
      /\ pf.expected_crc = Stream!CrcOf(Ring(buffer, pf.packet_start_index, Parsed))
  <2>1. Parsed = pf.received_length + 2 /\ pf.received_length \in Nat
    BY <1>1, Fields, StartAssumption DEF FullInv, IInv, Place
  <2> QED BY <1>1, <2>1 DEF FullInv, CrcSoFar
<1>5. (Parsed - 1)' = Parsed
  BY <1>3, <1>4
<1>6. ThisByte = buffer[Ahead(pf.packet_start_index, Parsed)]
  BY <1>1, <1>4, NextCrc
<1>7. /\ pf'.expected_crc = (Stream!CrcOf(Ring(buffer, pf.packet_start_index, Parsed - 1)))'
      /\ pf'.received_crc = (buffer[Ahead(pf.packet_start_index, Parsed - 1)])'
  BY <1>1, <1>2, <1>4, <1>5, <1>6
<1>8. CrcSoFar'
  BY <1>2, <1>7 DEF CrcSoFar
<1> QED BY <1>3, <1>8

(* At the last byte of a packet: the CRC the parser compares is the one of *)
(* the pending bytes.                                                      *)
LEMMA FrameFacts ==
  ASSUME FullInv, parsing, pf.parse_index # end_data, pf.state = "kCRCH"
  PROVE  /\ Stream!FrameComplete(Pending)
         /\ Stream!FrameLen(Pending) = pf.received_length + 5
         /\ pf.received_length \in Nat /\ pf.received_length <= MaxData
         /\ Rest >= pf.received_length + 4 /\ Parsed = pf.received_length + 3
         /\ Stream!CrcGood(Pending) <=> pf.expected_crc = ReceivedCrc
<1> DEFINE psi == pf.packet_start_index
           l == pf.received_length
<1>1. l \in Nat /\ l <= MaxData
  BY Fields, StartAssumption DEF FullInv, IInv
<1>2. Parsed = l + 3 /\ buffer[psi] = l
  BY DEF FullInv, IInv, Place
<1>3. /\ psi \in Cell /\ Rest \in 0 .. PacketBufferSize - 1 /\ Parsed <= Rest
      /\ Distance(pf.parse_index, end_data) = Rest - Parsed
      /\ pf.parse_index \in Cell /\ end_data \in Cell
  BY WindowFacts DEF FullInv
<1>4. Rest >= l + 4 /\ Rest \in Nat
  <2>1. Rest # Parsed
    BY <1>3, DistanceFacts
  <2> QED BY <1>1, <1>2, <1>3, <2>1, SizeAssumption
<1>5. /\ Len(Pending) = Rest + 1 /\ Pending[2] = buffer[psi]
      /\ \A k \in 1 .. Rest : Pending[k + 1] = buffer[Ahead(psi, k - 1)]
      /\ \A i \in 1 .. Rest + 1, j \in 0 .. Rest :
           i <= j + 1 => SubSeq(Pending, i + 1, j + 1) = Ring(buffer, Ahead(psi, i - 1), j - i + 1)
  <2>1. IInv /\ pf.state # "kStart"
    BY DEF FullInv
  <2>2. Rest >= 1
    BY <1>1, <1>4
  <2> QED BY <2>1, <2>2, PendingFacts
<1>6. /\ pf.expected_crc = Stream!CrcOf(Ring(buffer, psi, Parsed - 1))
      /\ pf.received_crc = buffer[Ahead(psi, Parsed - 1)]
  BY DEF FullInv, CrcSoFar
<1>7. ThisByte = buffer[Ahead(psi, Parsed)]
  <2>1. Parsed >= 1
    BY <1>1, <1>2
  <2> QED BY <2>1, NextCrc
<1>8. Ahead(psi, 0) = psi
  BY <1>3, AheadFacts
<1> HIDE DEF psi, l
<1>9. Stream!FrameLen(Pending) = l + 5
  BY <1>2, <1>5 DEF Stream!FrameLen
<1>10. Stream!FrameComplete(Pending)
  BY <1>1, <1>4, <1>5, <1>9 DEF Stream!FrameComplete, Stream!LengthSeen
<1>11. /\ Pending[(l + 5) - 1] = pf.received_crc /\ Pending[l + 5] = ThisByte
  <2>1. l + 3 \in 1 .. Rest /\ (l + 3) + 1 = (l + 5) - 1 /\ (l + 3) - 1 = Parsed - 1
    BY <1>1, <1>2, <1>4
  <2>2. l + 4 \in 1 .. Rest /\ (l + 4) + 1 = l + 5 /\ (l + 4) - 1 = Parsed
    BY <1>1, <1>2, <1>4
  <2>3. Pending[(l + 3) + 1] = buffer[Ahead(psi, (l + 3) - 1)]
    BY <1>5, <2>1
  <2>4. Pending[(l + 4) + 1] = buffer[Ahead(psi, (l + 4) - 1)]
    BY <1>5, <2>2
  <2>5. Pending[(l + 5) - 1] = buffer[Ahead(psi, Parsed - 1)]
    BY <2>1, <2>3
  <2>6. Pending[l + 5] = buffer[Ahead(psi, Parsed)]
    BY <2>2, <2>4
  <2> QED BY <1>6, <1>7, <2>5, <2>6
<1>12. SubSeq(Pending, 2, (l + 5) - 2) = Ring(buffer, psi, Parsed - 1)
  <2>1. 1 \in 1 .. Rest + 1 /\ l + 2 \in 0 .. Rest /\ 1 <= (l + 2) + 1
    BY <1>1, <1>4
  <2>2. SubSeq(Pending, 1 + 1, (l + 2) + 1) = Ring(buffer, Ahead(psi, 1 - 1), (l + 2) - 1 + 1)
    BY <1>5, <2>1
  <2>3. 1 + 1 = 2 /\ (l + 2) + 1 = (l + 5) - 2 /\ 1 - 1 = 0 /\ (l + 2) - 1 + 1 = Parsed - 1
    BY <1>1, <1>2
  <2> QED BY <1>8, <2>2, <2>3
<1>13. Stream!CrcGood(Pending) <=> pf.expected_crc = ReceivedCrc
  BY <1>6, <1>9, <1>11, <1>12 DEF Stream!CrcGood, ReceivedCrc
<1> QED BY <1>1, <1>2, <1>4, <1>9, <1>10, <1>13 DEF l

(* After a bad CRC the start byte is given up. *)
LEMMA RejectStep == FullInv /\ RejectPacket => CrcSoFar' /\ StreamStep
<1> SUFFICES ASSUME FullInv, RejectPacket PROVE CrcSoFar' /\ StreamStep
  OBVIOUS
<1>1. /\ parsing /\ pf.parse_index # end_data /\ pf.state = "kCRCH"
      /\ pf.expected_crc # ReceivedCrc
      /\ pf' = [pf EXCEPT !.received_crc = ReceivedCrc, !.state = "kStart",
                          !.parse_index = pf.packet_start_index]
      /\ UNCHANGED <<start_data, end_data, buffer, parsing, buffer_status, packet_indices>>
  BY DEF RejectPacket, Parse
<1>2. pf'.parse_index = pf.packet_start_index /\ pf'.state = "kStart"
  BY <1>1 DEF FullInv, IInv, TypeOK
<1>3. CrcSoFar'
  BY <1>2 DEF CrcSoFar
<1>4. Pending' = Ring(buffer, pf.packet_start_index, Rest)
  BY <1>1, <1>2, PendingAfter DEF Rest
<1>5. Pending # <<>> /\ Tail(Pending) = Ring(buffer, pf.packet_start_index, Rest)
  <2>1. IInv /\ pf.state # "kStart"
    BY <1>1 DEF FullInv
  <2> QED BY <2>1, PendingFacts
<1>6. Stream!NoPacketHere
  BY <1>1, FrameFacts DEF Stream!NoPacketHere
<1>7. Ready' = Ready
  BY <1>1, ReadyStays
<1> QED BY <1>3, <1>4, <1>5, <1>6, <1>7, SkipStep

(* The packets that wait, as their bytes.                                  *)
ReadyIs(ready) ==
  /\ ready \in Seq(Seq(ByteValue)) /\ Len(ready) = Len(Waiting)
  /\ \A k \in 1 .. Len(Waiting) :
       ready[k] = Ring(buffer, Ahead(Waiting[k], 1), buffer[Waiting[k]] + 1)

LEMMA ReadyFacts == IInv => ReadyIs(Ready)
<1> SUFFICES ASSUME IInv PROVE ReadyIs(Ready)
  OBVIOUS
<1> DEFINE n == Len(Waiting)
           ready == Ready
<1>1. n \in Nat /\ buffer \in [Cell -> ByteValue] /\ Base \in Cell /\ Decided \in Cell
  BY Fields, WaitingFacts DEF IInv
<1>2. ASSUME NEW k \in 1 .. n
      PROVE  /\ PacketAt(Waiting[k]) = Ring(buffer, Ahead(Waiting[k], 1), buffer[Waiting[k]] + 1)
             /\ PacketAt(Waiting[k]) \in Seq(ByteValue)
  <2> DEFINE w == Waiting[k]
  <2>1. w \in Cell /\ From(w) + buffer[w] + 4 <= From(Decided)
    BY DEF IInv, PacketsApart, After
  <2> HIDE DEF w
  <2>2. buffer[w] \in Nat
    BY <1>1, <2>1, SizeAssumption DEF ByteValue
  <2>3. From(w) \in Nat /\ From(Decided) \in 0 .. PacketBufferSize - 1
    BY <1>1, <2>1, DistanceFacts DEF From
  <2>4. buffer[w] + 2 <= PacketBufferSize /\ buffer[w] + 1 \in 0 .. PacketBufferSize
        /\ 1 \in 0 .. PacketBufferSize
    BY <2>1, <2>2, <2>3, SizeAssumption
  <2>5. PacketAt(w) = Ring(buffer, Ahead(w, 1), buffer[w] + 1)
    BY <1>1, <2>1, <2>2, <2>4, PacketCells
  <2>6. Ahead(w, 1) \in Cell
    BY <2>1, <2>4, AheadFacts
  <2>7. Ring(buffer, Ahead(w, 1), buffer[w] + 1) \in Seq(ByteValue)
    BY <1>1, <2>4, <2>6, RingFacts
  <2> QED BY <2>5, <2>7 DEF w
<1>3. ready = [k \in 1 .. n |-> PacketAt(Waiting[k])]
  BY DEF Ready
<1>4. ready \in [1 .. n -> Seq(ByteValue)]
  BY <1>2, <1>3
<1>5. \A k \in 1 .. n : ready[k] = PacketAt(Waiting[k])
  BY <1>3
<1>6. ready \in Seq(Seq(ByteValue)) /\ Len(ready) = n
  <2> DEFINE S == Seq(ByteValue)
  <2>1. ready \in [1 .. n -> S]
    BY <1>4
  <2> HIDE DEF ready, n, S
  <2>2. ready \in Seq(S) /\ Len(ready) = n
    BY <1>1, <2>1
  <2> QED BY <2>2 DEF S
<1> QED BY <1>2, <1>5, <1>6 DEF ReadyIs

LEMMA ReadyFactsNext == IInv' => ReadyIs(Ready)'
BY ReadyFacts, PTL

(* A packet with a good CRC becomes ready unless the index queue is full.  *)
LEMMA AcceptStep == OffsetsFit /\ FullInv /\ IInv' /\ AcceptPacket => CrcSoFar' /\ StreamStep
<1> SUFFICES ASSUME OffsetsFit, FullInv, IInv', AcceptPacket PROVE CrcSoFar' /\ StreamStep
  OBVIOUS
<1> DEFINE psi == pf.packet_start_index
           l == pf.received_length
           n == Len(Waiting)
           packet == SubSeq(Pending, 3, Stream!FrameLen(Pending) - 2)
<1>1. /\ parsing /\ pf.parse_index # end_data /\ pf.state = "kCRCH" /\ pf.expected_crc = ReceivedCrc
      /\ pf' = [pf EXCEPT !.received_crc = ReceivedCrc, !.state = "kStart", !.parse_index = NextIndex]
      /\ UNCHANGED <<start_data, end_data, buffer, parsing, buffer_status>>
      /\ packet_indices' = BQ!PutByteBQ(packet_indices, psi % IndexMod)
  BY DEF AcceptPacket, Parse
<1>2. pf'.parse_index = NextIndex /\ pf'.state = "kStart"
  BY <1>1 DEF FullInv, IInv, TypeOK
<1>3. CrcSoFar'
  BY <1>2 DEF CrcSoFar
<1>4. /\ Stream!FrameComplete(Pending) /\ Stream!FrameLen(Pending) = l + 5 /\ Stream!CrcGood(Pending)
      /\ l \in Nat /\ l <= MaxData /\ Rest >= l + 4 /\ Parsed = l + 3
  BY <1>1, FrameFacts
<1>5. /\ psi \in Cell /\ buffer \in [Cell -> ByteValue] /\ end_data \in Cell /\ Rest \in Nat
      /\ Rest <= PacketBufferSize - 1 /\ Distance(pf.parse_index, end_data) = Rest - Parsed
      /\ pf.parse_index \in Cell /\ Distance(psi, end_data) = Rest
  <2>1. PacketBufferSize - 1 \in Nat
    BY SizeAssumption
  <2> QED BY <2>1, WindowFacts DEF FullInv, Rest
<1>6. /\ Pending # <<>> /\ Pending[1] = StartByte /\ Len(Pending) = Rest + 1
      /\ Pending[2] = buffer[psi]
      /\ \A i \in 1 .. Rest + 1, j \in 0 .. Rest :
           i <= j + 1 => SubSeq(Pending, i + 1, j + 1) = Ring(buffer, Ahead(psi, i - 1), j - i + 1)
  <2>1. IInv /\ pf.state # "kStart"
    BY <1>1 DEF FullInv
  <2>2. Rest >= 1
    BY <1>4, <1>5
  <2> QED BY <2>1, <2>2, PendingFacts
<1>7. buffer[psi] = l
  BY <1>1 DEF FullInv, IInv, Place
<1>8. /\ NextIndex \in Cell /\ Distance(psi, NextIndex) = Parsed + 1
      /\ Distance(NextIndex, end_data) = Rest - (l + 4) /\ NextIndex = Ahead(psi, l + 4)
  <2>1. NextIndex \in Cell /\ Distance(psi, NextIndex) = Parsed + 1
    BY <1>1, NextPlace DEF FullInv
  <2>2. Distance(psi, NextIndex) = l + 4 /\ Distance(psi, NextIndex) <= Distance(psi, end_data)
    BY <1>4, <1>5, <2>1
  <2>3. Distance(NextIndex, end_data) = Distance(psi, end_data) - Distance(psi, NextIndex)
    <3> HIDE DEF psi
    <3> QED BY <1>5, <2>1, <2>2, Rebase
  <2>4. NextIndex = Ahead(psi, Distance(psi, NextIndex))
    <3> HIDE DEF psi
    <3> QED BY <1>5, <2>1, AheadFacts
  <2> QED BY <1>5, <2>1, <2>2, <2>3, <2>4
<1>9. Stream!PacketHere
  BY <1>4, <1>6, <1>7 DEF Stream!PacketHere
<1>10. Pending' = SubSeq(Pending, Stream!FrameLen(Pending) + 1, Len(Pending))
  <2>1. Pending' = Ring(buffer, NextIndex, Rest - (l + 4))
    BY <1>1, <1>2, <1>8, PendingAfter
  <2> HIDE DEF l, psi
  <2>2. l + 5 \in 1 .. Rest + 1 /\ Rest \in 0 .. Rest /\ l + 5 <= Rest + 1
    BY <1>4, <1>5
  <2>3. SubSeq(Pending, (l + 5) + 1, Rest + 1) = Ring(buffer, Ahead(psi, (l + 5) - 1), Rest - (l + 5) + 1)
    BY <1>6, <2>2
  <2>4. (l + 5) - 1 = l + 4 /\ Rest - (l + 5) + 1 = Rest - (l + 4)
    BY <1>4, <1>5
  <2> QED BY <1>4, <1>6, <1>8, <2>1, <2>3, <2>4
<1>11. packet = Ring(buffer, Ahead(psi, 1), l + 1)
  <2> HIDE DEF l, psi
  <2>1. 2 \in 1 .. Rest + 1 /\ l + 2 \in 0 .. Rest /\ 2 <= (l + 2) + 1
    BY <1>4, <1>5
  <2>2. SubSeq(Pending, 2 + 1, (l + 2) + 1) = Ring(buffer, Ahead(psi, 2 - 1), (l + 2) - 2 + 1)
    BY <1>6, <2>1
  <2>3. 2 + 1 = 3 /\ (l + 2) + 1 = (l + 5) - 2 /\ 2 - 1 = 1 /\ (l + 2) - 2 + 1 = l + 1
    BY <1>4
  <2> QED BY <1>4, <2>2, <2>3
<1>12. packet \in Seq(ByteValue)
  <2> HIDE DEF l, psi, packet
  <2>1. 1 \in 0 .. PacketBufferSize /\ l + 1 \in 0 .. PacketBufferSize
    BY <1>4, <1>5, SizeAssumption
  <2>2. Ahead(psi, 1) \in Cell
    BY <1>5, <2>1, AheadFacts
  <2> QED BY <1>5, <1>11, <2>1, <2>2, RingFacts
<1>13. psi % IndexMod = psi /\ psi \in 0 .. IndexMod - 1
  <2>1. psi \in Nat /\ psi < IndexMod /\ IndexMod \in Nat \ {0}
    BY <1>5, SizeAssumption DEF Cell, OffsetsFit
  <2> HIDE DEF psi
  <2> QED BY <2>1
<1>14. /\ n = packet_indices.count /\ n \in Nat /\ n <= IndexSize - 1
       /\ Waiting \in Seq(0 .. IndexMod - 1)
       /\ Waiting' = IF n = IndexSize - 1 THEN Waiting ELSE Append(Waiting, psi)
  <2>1. QueueOK(packet_indices)
    BY DEF FullInv, IInv
  <2>2. /\ packet_indices.count \in 0 .. IndexSize - 1
        /\ Waiting \in Seq(0 .. IndexMod - 1) /\ Len(Waiting) = packet_indices.count
    BY <2>1, ItemsFacts DEF Waiting
  <2>3. Waiting' = IF packet_indices.count = IndexSize - 1 THEN Waiting ELSE Append(Waiting, psi)
    BY <1>1, <1>13, <2>1, PutItem DEF Waiting
  <2> QED BY <2>2, <2>3, SizeAssumption
<1>15. ReadyIs(Ready) /\ ReadyIs(Ready)'
  BY ReadyFacts, ReadyFactsNext DEF FullInv
<1>16. /\ Ready \in Seq(Seq(ByteValue)) /\ Len(Ready) = n
       /\ \A k \in 1 .. n : Ready[k] = Ring(buffer, Ahead(Waiting[k], 1), buffer[Waiting[k]] + 1)
  BY <1>15 DEF ReadyIs
<1>17. /\ Ready' \in Seq(Seq(ByteValue)) /\ Len(Ready') = Len(Waiting')
       /\ \A k \in 1 .. Len(Waiting') :
            Ready'[k] = Ring(buffer, Ahead(Waiting'[k], 1), buffer[Waiting'[k]] + 1)
  BY <1>1, <1>15 DEF ReadyIs, Ring
<1> HIDE DEF n, packet, psi, l
<1>18. Ready' = IF Len(Ready) < IndexSize - 1 THEN Append(Ready, packet) ELSE Ready
  <2>1. CASE n = IndexSize - 1
    <3>1. Waiting' = Waiting
      BY <1>14, <2>1
    <3>2. Ready' = Ready
      BY <1>16, <1>17, <3>1, SeqEqual, SMTT(30) DEF n
    <3> QED BY <1>14, <1>16, <2>1, <3>2
  <2>2. CASE n # IndexSize - 1
    <3> DEFINE longer == Append(Ready, packet)
    <3>1. /\ Len(Waiting') = n + 1 /\ Waiting'[n + 1] = psi
          /\ \A k \in 1 .. n : Waiting'[k] = Waiting[k]
      <4>1. Len(Waiting) = n
        BY DEF n
      <4> QED BY <1>13, <1>14, <2>2, <4>1, AppendProperties
    <3>2. /\ longer \in Seq(Seq(ByteValue)) /\ Len(longer) = n + 1 /\ longer[n + 1] = packet
          /\ \A k \in 1 .. n : longer[k] = Ready[k]
      BY <1>12, <1>16, AppendProperties
    <3> HIDE DEF longer
    <3>3. ASSUME NEW k \in 1 .. n + 1 PROVE Ready'[k] = longer[k]
      <4>1. CASE k = n + 1
        <5>1. Ready'[k] = Ring(buffer, Ahead(psi, 1), l + 1)
          BY <1>7, <1>17, <3>1, <4>1 DEF psi, l
        <5> QED BY <1>11, <3>2, <4>1, <5>1
      <4>2. CASE k \in 1 .. n
        BY <1>16, <1>17, <3>1, <3>2, <4>2
      <4> QED BY <1>14, <4>1, <4>2
    <3>4. Ready' = longer
      BY <1>17, <3>1, <3>2, <3>3, SeqEqual
    <3>5. Len(Ready) < IndexSize - 1
      BY <1>14, <1>16, <2>2, SizeAssumption
    <3> QED BY <3>4, <3>5 DEF longer
  <2> QED BY <2>1, <2>2
<1>19. Stream!Emit
  BY <1>6, <1>9, <1>10, <1>18 DEF Stream!Emit, packet
<1> QED BY <1>3, <1>19 DEF StreamStep, Stream!Next

(* Cells before the end that stay as they are.                             *)
KeptCells(mem) == \A i \in Cell : From(i) < From(end_data) => mem[i] = buffer[i]

LEMMA KeptRing ==
  ASSUME Base \in Cell, end_data \in Cell, NEW mem, KeptCells(mem), NEW a \in Cell, NEW n \in Nat,
         From(a) + n <= From(end_data)
  PROVE  /\ \A k \in 1 .. n : mem[Ahead(a, k - 1)] = buffer[Ahead(a, k - 1)]
         /\ Ring(mem, a, n) = Ring(buffer, a, n)
<1>1. From(a) \in 0 .. PacketBufferSize - 1 /\ From(end_data) \in 0 .. PacketBufferSize - 1
  BY DistanceFacts DEF From
<1>2. a = Ahead(Base, From(a))
  BY AheadFacts DEF From
<1>3. ASSUME NEW k \in 1 .. n PROVE mem[Ahead(a, k - 1)] = buffer[Ahead(a, k - 1)]
  <2> DEFINE i == From(a)
             c == Ahead(Base, i + (k - 1))
  <2>1. /\ i \in 0 .. PacketBufferSize /\ k - 1 \in 0 .. PacketBufferSize
        /\ i + (k - 1) \in 0 .. PacketBufferSize - 1 /\ i + (k - 1) <= PacketBufferSize
        /\ i + (k - 1) \in 0 .. PacketBufferSize
        /\ i + (k - 1) < From(end_data)
    BY <1>1, SizeAssumption
  <2>2. Ahead(a, k - 1) = c
    <3> HIDE DEF i
    <3>1. Ahead(Ahead(Base, i), k - 1) = Ahead(Base, i + (k - 1))
      BY <2>1, AheadFacts
    <3> QED BY <1>2, <3>1 DEF i
  <2> HIDE DEF i
  <2>3. c \in Cell /\ From(c) = i + (k - 1)
    BY <2>1, AheadFacts DEF From
  <2> HIDE DEF c
  <2> QED BY <2>1, <2>2, <2>3 DEF KeptCells
<1>4. Ring(mem, a, n) = Ring(buffer, a, n)
  BY <1>3 DEF Ring, Ahead
<1> QED BY <1>3, <1>4

LEMMA RingGrows ==
  ASSUME NEW mem \in [Cell -> ByteValue], NEW a \in Cell,
         NEW n \in Nat, NEW bytes \in Seq(ByteValue), NEW m \in Nat, m <= Len(bytes),
         n + m <= PacketBufferSize,
         \A j \in 1 .. m : mem[Ahead(Ahead(a, n), j - 1)] = bytes[j]
  PROVE  Ring(mem, a, n + m) = Ring(mem, a, n) \o SubSeq(bytes, 1, m)
<1> DEFINE r == Ring(mem, a, n + m)
           s == Ring(mem, a, n)
           t == SubSeq(bytes, 1, m)
<1>1. n \in 0 .. PacketBufferSize /\ n + m \in 0 .. PacketBufferSize /\ m \in 0 .. PacketBufferSize
  BY SizeAssumption
<1>2. /\ r \in Seq(ByteValue) /\ Len(r) = n + m /\ \A k \in 1 .. n + m : r[k] = mem[Ahead(a, k - 1)]
      /\ s \in Seq(ByteValue) /\ Len(s) = n /\ \A k \in 1 .. n : s[k] = mem[Ahead(a, k - 1)]
  BY <1>1, RingFacts
<1>3. t \in Seq(ByteValue) /\ Len(t) = m /\ \A k \in 1 .. m : t[k] = bytes[k]
  <2>1. Len(bytes) \in Nat /\ \A k \in 1 .. Len(bytes) : bytes[k] \in ByteValue
    BY LenProperties, ElementOfSeq
  <2>2. m \in Int /\ 1 \in Int /\ \A k \in 1 .. m : bytes[k] \in ByteValue
    BY <2>1
  <2>3. /\ t \in Seq(ByteValue) /\ Len(t) = (IF 1 <= m THEN m - 1 + 1 ELSE 0)
        /\ \A k \in 1 .. m - 1 + 1 : t[k] = bytes[1 + k - 1]
    BY <2>2, SubSeqProperties
  <2>4. ASSUME NEW k \in 1 .. m PROVE k \in 1 .. m - 1 + 1 /\ 1 + k - 1 = k
    OBVIOUS
  <2>5. Len(t) = m
    BY <2>3
  <2> QED BY <2>3, <2>4, <2>5
<1> HIDE DEF r, s, t
<1>4. /\ s \o t \in Seq(ByteValue) /\ Len(s \o t) = n + m
      /\ \A k \in 1 .. n + m : (s \o t)[k] = IF k <= n THEN s[k] ELSE t[k - n]
  <2>1. s \in Seq(ByteValue) /\ t \in Seq(ByteValue) /\ Len(s) = n /\ Len(t) = m
    BY <1>2, <1>3
  <2>2. /\ s \o t \in Seq(ByteValue) /\ Len(s \o t) = Len(s) + Len(t)
        /\ \A k \in 1 .. Len(s) + Len(t) : (s \o t)[k] = IF k <= Len(s) THEN s[k] ELSE t[k - Len(s)]
    BY ONLY <2>1, ConcatProperties
  <2> QED BY <2>1, <2>2
<1>5. ASSUME NEW k \in 1 .. n + m PROVE r[k] = (s \o t)[k]
  <2>1. CASE k <= n
    <3>1. k \in 1 .. n
      BY <2>1
    <3> QED BY <1>2, <1>4, <2>1, <3>1
  <2>2. CASE ~(k <= n)
    <3>1. k - n \in 1 .. m /\ n + ((k - n) - 1) = k - 1 /\ (k - n) - 1 \in 0 .. PacketBufferSize
          /\ n + ((k - n) - 1) <= PacketBufferSize
      BY <1>1, <2>2, SizeAssumption
    <3>2. Ahead(Ahead(a, n), (k - n) - 1) = Ahead(a, k - 1)
      BY <1>1, <3>1, AheadFacts
    <3>3. mem[Ahead(a, k - 1)] = bytes[k - n]
      BY <3>1, <3>2
    <3> QED BY <1>2, <1>3, <1>4, <2>2, <3>1, <3>3
  <2> QED BY <2>1, <2>2
<1>6. r = s \o t
  BY <1>2, <1>4, <1>5, SeqEqual
<1> QED BY <1>6 DEF r, s, t

(* The pending bytes by their numbers.                                     *)
WindowIs ==
  /\ Rest = From(end_data) - From(pf.packet_start_index)
  /\ From(end_data) \in 0 .. PacketBufferSize - 1
  /\ Pending = IF pf.state = "kStart" THEN Ring(buffer, pf.parse_index, Rest - Parsed)
               ELSE <<StartByte>> \o Ring(buffer, pf.packet_start_index, Rest)

LEMMA WindowNow == IInv => WindowIs
<1> SUFFICES ASSUME IInv PROVE Rest = From(end_data) - From(pf.packet_start_index)
  BY WindowFacts DEF WindowIs
<1>1. /\ From(pf.packet_start_index) + Rest = From(end_data) /\ From(pf.packet_start_index) \in Nat
      /\ Rest \in 0 .. PacketBufferSize - 1
  BY WindowFacts
<1> QED BY <1>1

LEMMA WindowNext == IInv' => WindowIs'
BY WindowNow, PTL

(* PutBytes appends what fits of the bytes to the pending ones and leaves  *)
(* the waiting packets as they are.                                        *)
LEMMA PutStep ==
  ASSUME FullInv, IInv', NEW bytes \in Chunks, PutBytes(bytes)
  PROVE  CrcSoFar' /\ StreamStep
<1> DEFINE psi == pf.packet_start_index
           at == pf.parse_index
           m == Copied(Base, bytes)
           new == SubSeq(bytes, 1, m)
<1>1. /\ ~parsing /\ parsing' = TRUE /\ start_data' = Base
      /\ buffer' = CopiedBuffer(Base, bytes) /\ end_data' = CopiedEnd(Base, bytes)
      /\ UNCHANGED <<pf, packet_indices>>
  BY DEF PutBytes, Base
<1>2. /\ psi \in Cell /\ at \in Cell /\ end_data \in Cell /\ Decided \in Cell
      /\ buffer \in [Cell -> ByteValue] /\ Base \in Cell
      /\ Rest \in 0 .. PacketBufferSize - 1 /\ From(psi) + Rest = From(end_data) /\ From(psi) \in Nat
      /\ at = Ahead(psi, Parsed) /\ Parsed \in Nat
      /\ Pending = IF pf.state = "kStart" THEN Ring(buffer, at, Rest - Parsed)
                   ELSE <<StartByte>> \o Ring(buffer, psi, Rest)
  BY WindowFacts, Fields, SizeAssumption DEF FullInv, IInv
<1>3. at = end_data /\ Rest = Parsed
  <2>1. at = end_data
    BY <1>1 DEF FullInv, IInv, InOrder
  <2> QED BY <2>1 DEF Rest, Parsed
<1>4. bytes \in Seq(ByteValue)
  BY ChunksAssumption
<1>5. /\ m \in 0 .. Len(bytes) /\ m \in Nat /\ m <= Len(bytes) /\ end_data' \in Cell /\ buffer' \in [Cell -> ByteValue]
      /\ Distance(Base, end_data') = From(end_data) + m
      /\ KeptCells(buffer')
      /\ \A j \in 1 .. m : buffer'[Ahead(end_data, j - 1)] = bytes[j]
  <2> DEFINE start == Base
  <2>1. start \in Cell
    BY <1>2
  <2> HIDE DEF start
  <2>2. /\ Copied(start, bytes) \in 0 .. Len(bytes) /\ CopiedEnd(start, bytes) \in Cell
        /\ CopiedBuffer(start, bytes) \in [Cell -> ByteValue]
        /\ Distance(start, CopiedEnd(start, bytes)) = Distance(start, end_data) + Copied(start, bytes)
        /\ \A i \in Cell : Distance(start, i) < Distance(start, end_data)
             => CopiedBuffer(start, bytes)[i] = buffer[i]
        /\ \A j \in 1 .. Copied(start, bytes) :
             CopiedBuffer(start, bytes)[Round(end_data, j - 1, PacketBufferSize)] = bytes[j]
    BY <1>2, <1>4, <2>1, CopyFacts
  <2>3. Copied(start, bytes) \in Nat /\ Copied(start, bytes) <= Len(bytes)
    BY <2>2, <1>4, LenProperties
  <2> QED BY <1>1, <2>2, <2>3 DEF start, From, KeptCells, Ahead
<1>6. Base' = Base /\ \A i : From(i)' = From(i)
  <2>1. Base' = Base
    BY <1>1 DEF Base
  <2>2. ASSUME NEW i PROVE From(i)' = From(i)
    BY <2>1 DEF From
  <2> QED BY <2>1, <2>2
<1>7. Parsed' = Parsed /\ Waiting' = Waiting /\ Decided' = Decided
  BY <1>1 DEF Parsed, Waiting, Items, Decided
<1>8. /\ (From(end_data))' = From(end_data) + m /\ (From(pf.packet_start_index))' = From(psi)
  <2>1. (From(end_data))' = Distance(Base, end_data')
    BY <1>6 DEF From
  <2> QED BY <1>1, <1>5, <1>6, <2>1 DEF From
<1>9. /\ Rest' = Rest + m /\ From(psi) + Rest + m <= PacketBufferSize - 1
      /\ Pending' = IF pf.state = "kStart" THEN Ring(buffer', at, Rest' - Parsed')
                    ELSE <<StartByte>> \o Ring(buffer', psi, Rest')
  <2>1. /\ Rest' = (From(end_data))' - (From(pf.packet_start_index))'
        /\ (From(end_data))' \in 0 .. PacketBufferSize - 1
        /\ Pending' = IF pf.state = "kStart" THEN Ring(buffer', at, Rest' - Parsed')
                      ELSE <<StartByte>> \o Ring(buffer', psi, Rest')
    BY <1>1, WindowNext DEF WindowIs, Ring
  <2>2. Rest \in Nat /\ From(end_data) = From(psi) + Rest
    BY <1>2, SizeAssumption
  <2>3. Rest' = Rest + m /\ From(psi) + Rest + m <= PacketBufferSize - 1
    <3> HIDE DEF m, psi
    <3> QED BY <1>2, <1>5, <1>8, <2>1, <2>2, SizeAssumption
  <2> QED BY <2>1, <2>3
<1>10. Rest \in Nat /\ From(end_data) \in Nat /\ new \in Seq(ByteValue)
  <2>1. Rest \in Nat /\ From(end_data) \in Nat
    BY <1>2, DistanceFacts, SizeAssumption DEF From
  <2>2. \A k \in 1 .. m : bytes[k] \in ByteValue
    <3>1. Len(bytes) \in Nat /\ \A k \in 1 .. Len(bytes) : bytes[k] \in ByteValue
      BY <1>4, LenProperties, ElementOfSeq
    <3> HIDE DEF m
    <3> QED BY <1>5, <3>1
  <2>3. new \in Seq(ByteValue)
    <3> HIDE DEF m
    <3>1. m \in Int /\ 1 \in Int
      BY <1>5
    <3> QED BY <2>2, <3>1, SubSeqProperties
  <2> QED BY <2>1, <2>3
<1> HIDE DEF m, psi, at, new
<1>11. Ring(buffer', psi, Rest) = Ring(buffer, psi, Rest)
  <2>1. From(psi) + Rest <= From(end_data)
    BY <1>2, <1>10
  <2> QED BY <1>2, <1>5, <1>10, <2>1, KeptRing
<1>12. Pending' = Pending \o new
  <2>1. CASE pf.state = "kStart"
    <3>1. Rest - Parsed = 0 /\ Rest' - Parsed' = m /\ 0 + m = m /\ 0 \in Nat /\ 0 + m <= PacketBufferSize
      BY <1>2, <1>3, <1>5, <1>7, <1>9, <1>10, SizeAssumption
    <3>2. Ring(buffer', at, 0) = Ring(buffer, at, 0)
      BY DEF Ring
    <3>3. Ahead(at, 0) = end_data
      BY <1>2, <1>3, AheadFacts
    <3>4. Ring(buffer', at, 0 + m) = Ring(buffer, at, 0) \o SubSeq(bytes, 1, m)
      <4>1. \A j \in 1 .. m : buffer'[Ahead(Ahead(at, 0), j - 1)] = bytes[j]
        BY <1>5, <3>3
      <4> DEFINE mem == buffer'
      <4>2. /\ mem \in [Cell -> ByteValue] /\ Ring(mem, at, 0) = Ring(buffer, at, 0)
            /\ \A j \in 1 .. m : mem[Ahead(Ahead(at, 0), j - 1)] = bytes[j]
        BY <1>5, <3>2, <4>1
      <4> HIDE DEF mem
      <4>3. m \in Nat /\ m <= Len(bytes) /\ bytes \in Seq(ByteValue) /\ at \in Cell
            /\ 0 \in Nat /\ 0 + m <= PacketBufferSize
        BY <1>2, <1>4, <1>5, <3>1
      <4>4. Ring(mem, at, 0 + m) = Ring(mem, at, 0) \o SubSeq(bytes, 1, m)
        BY ONLY <4>2, <4>3, RingGrows
      <4> QED BY <4>2, <4>4 DEF mem
    <3> QED BY <1>2, <1>9, <2>1, <3>1, <3>4 DEF new
  <2>2. CASE pf.state # "kStart"
    <3> DEFINE r == Ring(buffer, psi, Rest)
    <3>1. Ring(buffer', psi, Rest + m) = r \o new
      <4>1. \A j \in 1 .. m : buffer'[Ahead(Ahead(psi, Rest), j - 1)] = bytes[j]
        BY <1>2, <1>3, <1>5
      <4>2. Rest + m <= PacketBufferSize
        BY <1>2, <1>5, <1>9, <1>10, SizeAssumption
      <4> DEFINE mem == buffer'
      <4>3. /\ mem \in [Cell -> ByteValue] /\ Ring(mem, psi, Rest) = Ring(buffer, psi, Rest)
            /\ \A j \in 1 .. m : mem[Ahead(Ahead(psi, Rest), j - 1)] = bytes[j]
            /\ Rest \in Nat /\ Rest + m <= PacketBufferSize
            /\ m \in Nat /\ m <= Len(bytes) /\ bytes \in Seq(ByteValue) /\ psi \in Cell
        BY <1>2, <1>4, <1>5, <1>10, <1>11, <4>1, <4>2
      <4> DEFINE n == Rest
      <4> HIDE DEF mem
      <4>4. Ring(mem, psi, n + m) = Ring(mem, psi, n) \o SubSeq(bytes, 1, m)
        <5> HIDE DEF n
        <5>1. /\ mem \in [Cell -> ByteValue] /\ psi \in Cell /\ n \in Nat
              /\ m \in Nat /\ m <= Len(bytes) /\ bytes \in Seq(ByteValue)
              /\ n + m <= PacketBufferSize
              /\ \A j \in 1 .. m : mem[Ahead(Ahead(psi, n), j - 1)] = bytes[j]
          BY <4>3 DEF n
        <5> QED BY ONLY <5>1, RingGrows
      <4> QED BY <4>3, <4>4 DEF mem, new
    <3>2. r \in Seq(ByteValue) /\ <<StartByte>> \in Seq(ByteValue)
      <4>1. Rest \in 0 .. PacketBufferSize
        BY <1>2, SizeAssumption
      <4> QED BY <1>2, <4>1, RingFacts, StartAssumption
    <3> HIDE DEF r
    <3>3. Pending = <<StartByte>> \o r /\ Pending' = <<StartByte>> \o (r \o new)
      BY <1>2, <1>9, <2>2, <3>1 DEF r
    <3>4. (<<StartByte>> \o r) \o new = <<StartByte>> \o (r \o new)
      BY <1>10, <3>2, ConcatAssociative
    <3> QED BY <3>3, <3>4
  <2> QED BY <2>1, <2>2
<1>13. Ready' = Ready
  <2>1. /\ Ready \in Seq(Seq(ByteValue)) /\ Len(Ready) = Len(Waiting)
        /\ \A k \in 1 .. Len(Waiting) :
             Ready[k] = Ring(buffer, Ahead(Waiting[k], 1), buffer[Waiting[k]] + 1)
    BY ReadyFacts DEF FullInv, ReadyIs
  <2>2. /\ Ready' \in Seq(Seq(ByteValue)) /\ Len(Ready') = Len(Waiting)
        /\ \A k \in 1 .. Len(Waiting) :
             Ready'[k] = Ring(buffer', Ahead(Waiting[k], 1), buffer'[Waiting[k]] + 1)
    BY <1>7, ReadyFactsNext DEF ReadyIs, Ring
  <2>3. ASSUME NEW k \in 1 .. Len(Waiting) PROVE Ready'[k] = Ready[k]
    <3> DEFINE w == Waiting[k]
    <3>1. w \in Cell /\ From(w) + buffer[w] + 4 <= From(Decided)
      BY DEF FullInv, IInv, PacketsApart, After
    <3>2. From(Decided) <= From(end_data)
      <4>1. From(psi) <= From(end_data) /\ From(at) <= From(end_data)
        BY <1>2, <1>3, <1>10
      <4> QED BY <4>1 DEF Decided, psi, at
    <3> HIDE DEF w
    <3>3. From(w) \in Nat /\ From(Decided) \in Nat /\ buffer[w] \in Nat
      BY <1>2, <3>1, DistanceFacts, SizeAssumption DEF From, ByteValue
    <3>4. From(w) < From(end_data) /\ (From(w) + 1) + (buffer[w] + 1) <= From(end_data)
      BY <1>10, <3>1, <3>2, <3>3
    <3>5. buffer'[w] = buffer[w]
      BY <1>5, <3>1, <3>4 DEF KeptCells
    <3>6. Ahead(w, 1) \in Cell /\ From(Ahead(w, 1)) = From(w) + 1
      <4> DEFINE i == From(w)
      <4>1. /\ i \in 0 .. PacketBufferSize /\ 1 \in 0 .. PacketBufferSize
            /\ i + 1 \in 0 .. PacketBufferSize - 1 /\ i + 1 <= PacketBufferSize
            /\ i + 1 \in 0 .. PacketBufferSize
        <5>1. From(end_data) \in 0 .. PacketBufferSize - 1
          BY <1>2, DistanceFacts DEF From
        <5> QED BY <3>3, <3>4, <5>1, SizeAssumption
      <4>2. w = Ahead(Base, i)
        BY <1>2, <3>1, AheadFacts DEF From
      <4> HIDE DEF i
      <4>3. Ahead(Ahead(Base, i), 1) = Ahead(Base, i + 1)
        BY <1>2, <4>1, AheadFacts
      <4>4. Distance(Base, Ahead(Base, i + 1)) = i + 1 /\ Ahead(Base, i + 1) \in Cell
        BY <1>2, <4>1, AheadFacts
      <4>5. Distance(Base, Ahead(w, 1)) = i + 1 /\ Ahead(w, 1) \in Cell
        BY <4>2, <4>3, <4>4
      <4> QED BY <4>5 DEF From, i
    <3>7. Ring(buffer', Ahead(w, 1), buffer[w] + 1) = Ring(buffer, Ahead(w, 1), buffer[w] + 1)
      <4>1. buffer[w] + 1 \in Nat /\ From(Ahead(w, 1)) + (buffer[w] + 1) <= From(end_data)
        BY <3>3, <3>4, <3>6
      <4> QED BY <1>2, <1>5, <3>6, <4>1, KeptRing
    <3> QED BY <2>1, <2>2, <3>5, <3>7 DEF w
  <2> QED BY <2>1, <2>2, <2>3, SeqEqual
<1>14. CrcSoFar'
  <2>1. Ring(buffer', psi, Parsed) = Ring(buffer, psi, Parsed)
    BY <1>3, <1>11
  <2>2. ASSUME pf.state = "kCRCH"
        PROVE  /\ Ring(buffer', psi, Parsed - 1) = Ring(buffer, psi, Parsed - 1)
               /\ buffer'[Ahead(psi, Parsed - 1)] = buffer[Ahead(psi, Parsed - 1)]
    <3>1. Parsed >= 1
      <4>1. Parsed = pf.received_length + 3 /\ pf.received_length \in Nat
        BY <2>2, Fields, StartAssumption DEF FullInv, IInv, Place
      <4> QED BY <4>1
    <3>2. Parsed - 1 \in Nat /\ Parsed \in 1 .. Parsed
          /\ From(psi) + (Parsed - 1) <= From(end_data) /\ From(psi) + Parsed <= From(end_data)
      BY <1>2, <1>3, <1>10, <3>1
    <3>3. Ring(buffer', psi, Parsed - 1) = Ring(buffer, psi, Parsed - 1)
      BY <1>2, <1>5, <3>2, KeptRing
    <3>4. \A k \in 1 .. Parsed : buffer'[Ahead(psi, k - 1)] = buffer[Ahead(psi, k - 1)]
      BY <1>2, <1>5, <3>2, KeptRing
    <3> QED BY <3>2, <3>3, <3>4
  <2>3. /\ pf'.state = pf.state /\ pf'.packet_start_index = psi
        /\ pf'.expected_crc = pf.expected_crc /\ pf'.received_crc = pf.received_crc
    BY <1>1 DEF psi
  <2>4. CrcSoFar
    BY DEF FullInv
  <2>5. ASSUME pf.state \in {"kType", "kData", "kCRCL"}
        PROVE  pf'.expected_crc = (Stream!CrcOf(Ring(buffer, pf.packet_start_index, Parsed)))'
    BY <1>7, <2>1, <2>3, <2>4, <2>5 DEF CrcSoFar, psi
  <2>6. ASSUME pf.state = "kCRCH"
        PROVE  /\ pf'.expected_crc = (Stream!CrcOf(Ring(buffer, pf.packet_start_index, Parsed - 1)))'
               /\ pf'.received_crc = (buffer[Ahead(pf.packet_start_index, Parsed - 1)])'
    BY <1>7, <2>2, <2>3, <2>4, <2>6 DEF CrcSoFar, psi
  <2> QED BY <2>3, <2>5, <2>6 DEF CrcSoFar
<1>15. Stream!Receive(bytes)
  BY <1>5, <1>12, <1>13 DEF Stream!Receive, new
<1> QED BY <1>14, <1>15 DEF StreamStep, Stream!Next

(* The end of a call changes nothing of the stream. *)
LEMMA SameStep ==
  ASSUME FullInv, UNCHANGED <<end_data, buffer, pf, packet_indices>>
  PROVE  CrcSoFar' /\ StreamStep
<1>1. end_data' = end_data /\ buffer' = buffer /\ pf' = pf /\ packet_indices' = packet_indices
  OBVIOUS
<1>2. Parsed' = Parsed /\ Waiting' = Waiting
  BY <1>1 DEF Parsed, Waiting, Items
<1>3. Pending' = Pending
  BY <1>1 DEF Pending, Span
<1>4. Ready' = Ready
  BY <1>1, <1>2, ReadyStays
<1>5. CrcSoFar'
  <2>1. CrcSoFar
    BY DEF FullInv
  <2>2. ASSUME NEW n PROVE Ring(buffer, pf.packet_start_index, n)' = Ring(buffer, pf.packet_start_index, n)
    BY <1>1 DEF Ring
  <2> QED BY <1>1, <1>2, <2>1, <2>2 DEF CrcSoFar, Ring
<1> QED BY <1>3, <1>4, <1>5 DEF StreamStep

(* DropPacket takes the oldest packet and leaves the pending bytes alone. *)
LEMMA DropStep == FullInv /\ IInv' /\ DropPacket => CrcSoFar' /\ StreamStep
<1> SUFFICES ASSUME FullInv, IInv', DropPacket PROVE CrcSoFar' /\ StreamStep
  OBVIOUS
<1>1. /\ ~BQ!IsEmptyBQ(packet_indices) /\ packet_indices' = BQ!GetByteBQ(packet_indices)
      /\ end_data' = end_data /\ buffer' = buffer /\ pf' = pf
  BY DEF DropPacket
<1>2. /\ QueueOK(packet_indices) /\ packet_indices.count > 0
      /\ Waiting \in Seq(0 .. IndexMod - 1) /\ Len(Waiting) \in Nat /\ Len(Waiting) >= 1
  <2>1. QueueOK(packet_indices)
    BY DEF FullInv, IInv
  <2>2. packet_indices.count \in 0 .. IndexSize - 1 /\ packet_indices.count # 0
    BY <1>1, <2>1, ItemsFacts
  <2>3. packet_indices.count > 0
    BY <2>2
  <2> QED BY <2>1, <2>2, <2>3, ItemsFacts DEF Waiting
<1>3. Waiting' = Tail(Waiting)
  BY <1>1, <1>2, GetItem DEF Waiting
<1>4. /\ Len(Waiting') \in Nat /\ Len(Waiting) = Len(Waiting') + 1
      /\ \A k \in 1 .. Len(Waiting') : Waiting'[k] = Waiting[k + 1]
  BY <1>2, <1>3, HeadTailProperties
<1>5. Pending' = Pending /\ Parsed' = Parsed
  BY <1>1 DEF Pending, Span, Parsed
<1>6. /\ Ready \in Seq(Seq(ByteValue)) /\ Len(Ready) = Len(Waiting)
      /\ \A k \in 1 .. Len(Waiting) :
           Ready[k] = Ring(buffer, Ahead(Waiting[k], 1), buffer[Waiting[k]] + 1)
  BY ReadyFacts DEF FullInv, ReadyIs
<1>7. /\ Ready' \in Seq(Seq(ByteValue)) /\ Len(Ready') = Len(Waiting')
      /\ \A k \in 1 .. Len(Waiting') :
           Ready'[k] = Ring(buffer, Ahead(Waiting'[k], 1), buffer[Waiting'[k]] + 1)
  BY <1>1, ReadyFactsNext DEF ReadyIs, Ring
<1>8. Ready # <<>>
  BY <1>2, <1>6
<1>9. /\ Tail(Ready) \in Seq(Seq(ByteValue)) /\ Len(Tail(Ready)) = Len(Ready) - 1
      /\ \A k \in 1 .. Len(Ready) - 1 : Tail(Ready)[k] = Ready[k + 1]
  <2> DEFINE S == Seq(ByteValue)
             s == Ready
  <2>1. s \in Seq(S) /\ s # <<>>
    BY <1>6, <1>8
  <2> HIDE DEF S, s
  <2>2. /\ Tail(s) \in Seq(S) /\ Len(Tail(s)) = Len(s) - 1
        /\ \A k \in 1 .. Len(Tail(s)) : Tail(s)[k] = s[k + 1]
    BY <2>1, HeadTailProperties
  <2> QED BY <2>2 DEF S, s
<1>10. ASSUME NEW k \in 1 .. Len(Waiting') PROVE Ready'[k] = Tail(Ready)[k]
  <2>1. k \in 1 .. Len(Ready) - 1 /\ k + 1 \in 1 .. Len(Waiting)
    BY <1>4, <1>6
  <2>2. Tail(Ready)[k] = Ring(buffer, Ahead(Waiting[k + 1], 1), buffer[Waiting[k + 1]] + 1)
    BY <1>6, <1>9, <2>1
  <2> QED BY <1>4, <1>7, <2>2
<1>11. Ready' = Tail(Ready)
  <2>1. Len(Tail(Ready)) = Len(Waiting')
    BY <1>4, <1>6, <1>9
  <2> QED BY <1>7, <1>9, <1>10, <2>1, SeqEqual
<1>12. CrcSoFar'
  <2>1. CrcSoFar
    BY DEF FullInv
  <2> QED BY <1>1, <1>5, <2>1 DEF CrcSoFar, Ring
<1>13. Stream!Drop
  BY <1>5, <1>8, <1>11 DEF Stream!Drop
<1> QED BY <1>12, <1>13 DEF StreamStep, Stream!Next

LEMMA StreamInit == Init => Stream!Init /\ CrcSoFar
<1> SUFFICES ASSUME Init PROVE Stream!Init /\ CrcSoFar
  OBVIOUS
<1>1. /\ pf.state = "kStart" /\ pf.parse_index = 0 /\ end_data = 0 /\ packet_indices.count = 0
  BY DEF Init, BQ!InitBQ
<1>2. Distance(0, 0) = 0
  BY DEF Distance
<1>3. Pending = [k \in 1 .. 0 |-> buffer[Round(0, k - 1, PacketBufferSize)]]
  BY <1>1, <1>2 DEF Pending, Span
<1>4. Len(Waiting) = 0
  <2>1. IInv
    BY InitKeeps
  <2>2. QueueOK(packet_indices)
    BY <2>1 DEF IInv
  <2> QED BY <1>1, <2>2, ItemsFacts DEF Waiting
<1>5. Ready = [k \in 1 .. 0 |-> PacketAt(Waiting[k])]
  BY <1>4 DEF Ready
<1>6. Pending = <<>> /\ Ready = <<>>
  BY <1>3, <1>5
<1>7. CrcSoFar
  BY <1>1 DEF CrcSoFar
<1> QED BY <1>6, <1>7 DEF Stream!Init

LEMMA StreamKept ==
  OffsetsFit /\ FullInv /\ [Next]_vars => FullInv' /\ StreamStep
<1> SUFFICES ASSUME OffsetsFit, FullInv, [Next]_vars PROVE FullInv' /\ StreamStep
  OBVIOUS
<1>1. IInv'
  BY InvKept DEF FullInv
<1>2. CrcSoFar' /\ StreamStep
  <2>1. ASSUME NEW bytes \in Chunks, PutBytes(bytes) PROVE CrcSoFar' /\ StreamStep
    BY <1>1, <2>1, PutStep
  <2>2. CASE ParseStart BY <2>2, StartStep
  <2>3. CASE ParseLen BY <2>3, LenStep
  <2>4. CASE ParseType BY <2>4, TypeStep
  <2>5. CASE ParseData BY <2>5, DataStep
  <2>6. CASE ParseCRCL BY <2>6, LowStep
  <2>7. CASE AcceptPacket BY <1>1, <2>7, AcceptStep
  <2>8. CASE RejectPacket BY <2>8, RejectStep
  <2>9. CASE Exhausted
    <3>1. UNCHANGED <<end_data, buffer, pf, packet_indices>>
      BY <2>9 DEF Exhausted
    <3> QED BY <3>1, SameStep
  <2>10. CASE DropPacket
    BY <1>1, <2>10, DropStep
  <2>11. CASE UNCHANGED vars
    <3>1. UNCHANGED <<end_data, buffer, pf, packet_indices>>
      BY <2>11 DEF vars
    <3> QED BY <3>1, SameStep
  <2> QED BY <2>1, <2>2, <2>3, <2>4, <2>5, <2>6, <2>7, <2>8, <2>9, <2>10, <2>11
          DEF Next, ParserStep
<1> QED BY <1>1, <1>2 DEF FullInv

(* Exactly the well formed packets among the bytes PutBytes has room for   *)
(* are handed out, in order and unchanged, whatever noise surrounds them:  *)
(* a start over after a bad length or CRC skips no byte a packet could     *)
(* begin at, no copy overwrites a byte still needed, and only a packet     *)
(* found while the index queue is full is lost.                            *)
THEOREM IsPacketStream == OffsetsFit => (Spec => ImplementsPacketStream)
<1> SUFFICES ASSUME OffsetsFit PROVE Spec => ImplementsPacketStream
  OBVIOUS
<1>1. Init => Stream!Init /\ FullInv
  BY StreamInit, InitKeeps DEF FullInv
<1>2. FullInv /\ [Next]_vars => FullInv' /\ [Stream!Next]_<<Pending, Ready>>
  BY StreamKept DEF StreamStep
<1>3. [Stream!Next]_<<Pending, Ready>> <=> [Stream!Next]_(Stream!vars)
  BY DEF Stream!vars
<1> QED BY <1>1, <1>2, <1>3, PTL DEF Spec, Stream!Spec, ImplementsPacketStream
=============================================================================
