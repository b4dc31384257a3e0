----------------------- MODULE GenericInterface_proofs ----------------------
(***************************************************************************)
(* Proofs about the sending half of GenericInterface, for any set of       *)
(* messages of any lengths and any size of the buffer.  GetTxBytes empties *)
(* both regions, so that the bytes always are one region from the          *)
(* beginning of the array on; region B is never used.                      *)
(***************************************************************************)
EXTENDS GenericInterface, SequenceTheorems, TLAPS

(* What a byte of the buffer can be. *)
Item == {Unwritten} \cup (Msg \X Nat)

(* One region at the beginning of the array, and nothing reserved.         *)
FilledTo(n) == [Cleared EXCEPT !.sza = n]

OneRegion(t) ==
  /\ t = [bip |-> t.bip, mem |-> t.mem]
  /\ t.bip = FilledTo(t.bip.sza)
  /\ t.bip.sza \in 0 .. BufLen
  /\ t.mem \in [Cell -> Item]

Region(t) == [k \in 1 .. t.bip.sza |-> t.mem[k - 1]]

(* n bytes of a message from a place on. *)
Run(msg, from, n) == [k \in 1 .. n |-> <<msg, from + k - 1>>]

LEMMA RegionFacts ==
  ASSUME NEW t, OneRegion(t)
  PROVE  /\ Region(t) \in Seq(Item) /\ Len(Region(t)) = t.bip.sza
         /\ \A k \in 1 .. t.bip.sza : Region(t)[k] = t.mem[k - 1]
<1> DEFINE n == t.bip.sza
           m == t.mem
           r == [k \in 1 .. n |-> m[k - 1]]
<1>1. n \in Nat /\ n <= BufLen /\ m \in [Cell -> Item] /\ BufLen \in Nat
  BY BufLenAssumption DEF OneRegion
<1> HIDE DEF n, m
<1>2. \A k \in 1 .. n : m[k - 1] \in Item
  BY <1>1 DEF Cell
<1>3. r \in [1 .. n -> Item]
  BY <1>2
<1>4. r \in Seq(Item) /\ Len(r) = n /\ \A k \in 1 .. n : r[k] = m[k - 1]
  <2>1. \A k \in 1 .. n : r[k] = m[k - 1]
    OBVIOUS
  <2> HIDE DEF r
  <2> QED BY <1>1, <1>3, <2>1
<1> QED BY <1>4 DEF Region, n, m

LEMMA RunFacts ==
  ASSUME NEW msg \in Msg, NEW from \in Nat \ {0}, NEW n \in Nat
  PROVE  /\ Run(msg, from, n) \in Seq(Item) /\ Len(Run(msg, from, n)) = n
         /\ \A k \in 1 .. n : Run(msg, from, n)[k] = <<msg, from + k - 1>>
<1> DEFINE r == Run(msg, from, n)
<1>1. \A k \in 1 .. n : <<msg, from + k - 1>> \in Item /\ r[k] = <<msg, from + k - 1>>
  BY DEF Item, Run
<1>2. r \in [1 .. n -> Item]
  BY <1>1 DEF Run
<1> HIDE DEF r
<1>3. r \in Seq(Item) /\ Len(r) = n
  BY <1>2
<1> QED BY <1>1, <1>3 DEF r

LEMMA Joined ==
  ASSUME NEW s \in Seq(Item), NEW t \in Seq(Item), NEW i, NEW j, Len(s) = i, Len(t) = j
  PROVE  /\ s \o t \in Seq(Item) /\ Len(s \o t) = i + j /\ i \in Nat /\ j \in Nat
         /\ \A k \in 1 .. i + j : (s \o t)[k] = IF k <= i THEN s[k] ELSE t[k - i]
BY ConcatProperties, LenProperties

(* The part of a run of the message. *)
LEMMA PartOfRun ==
  ASSUME NEW msg \in Msg, NEW len \in Nat, NEW from \in Nat \ {0}, NEW n \in Nat,
         from + n <= len + 1
  PROVE  SubSeq(Run(msg, 1, len), from, from + n - 1) = Run(msg, from, n)
<1> DEFINE p == Run(msg, 1, len)
           to == from + n - 1
           q == SubSeq(p, from, to)
           r == Run(msg, from, n)
<1>0. 1 \in Nat \ {0}
  OBVIOUS
<1>1. p \in Seq(Item) /\ Len(p) = len /\ \A k \in 1 .. len : p[k] = <<msg, 1 + k - 1>>
  BY <1>0, RunFacts
<1>2. r \in Seq(Item) /\ Len(r) = n /\ \A k \in 1 .. n : r[k] = <<msg, from + k - 1>>
  BY RunFacts
<1>3. from \in Int /\ to \in Int /\ to <= len /\ to - from + 1 = n /\ (from <= to <=> n > 0)
  OBVIOUS
<1> HIDE DEF p, r, to
<1>4. \A k \in from .. to : p[k] \in Item
  <2>1. \A k \in 1 .. len : p[k] \in Item
    BY <1>1, ElementOfSeq
  <2>2. \A k \in from .. to : k \in 1 .. len
    BY <1>3
  <2> QED BY <2>1, <2>2
<1>5. /\ q \in Seq(Item) /\ Len(q) = (IF from <= to THEN to - from + 1 ELSE 0)
      /\ \A k \in 1 .. to - from + 1 : q[k] = p[from + k - 1]
  BY <1>3, <1>4, SubSeqProperties
<1> HIDE DEF q
<1>6. Len(q) = n
  BY <1>3, <1>5
<1>7. ASSUME NEW k \in 1 .. n PROVE q[k] = r[k]
  <2>1. from + k - 1 \in 1 .. len /\ 1 + (from + k - 1) - 1 = from + k - 1 /\ k \in 1 .. to - from + 1
    BY <1>3
  <2>2. p[from + k - 1] = <<msg, from + k - 1>>
    BY <1>1, <2>1
  <2> QED BY <1>2, <1>5, <2>1, <2>2
<1>8. q = r
  BY <1>2, <1>5, <1>6, <1>7, SeqEqual
<1> QED BY <1>8 DEF p, q, r, to

(* One run after the other is a longer one. *)
LEMMA RunsJoin ==
  ASSUME NEW msg \in Msg, NEW i \in Nat, NEW j \in Nat
  PROVE  Run(msg, 1, i) \o Run(msg, i + 1, j) = Run(msg, 1, i + j)
<1> DEFINE a == Run(msg, 1, i)
           b == Run(msg, i + 1, j)
           c == Run(msg, 1, i + j)
           d == a \o b
<1>0. 1 \in Nat \ {0} /\ i + 1 \in Nat \ {0} /\ i + j \in Nat
  OBVIOUS
<1>1. a \in Seq(Item) /\ Len(a) = i /\ \A k \in 1 .. i : a[k] = <<msg, 1 + k - 1>>
  BY <1>0, RunFacts
<1>2. b \in Seq(Item) /\ Len(b) = j /\ \A k \in 1 .. j : b[k] = <<msg, i + 1 + k - 1>>
  BY <1>0, RunFacts
<1>3. c \in Seq(Item) /\ Len(c) = i + j /\ \A k \in 1 .. i + j : c[k] = <<msg, 1 + k - 1>>
  BY <1>0, RunFacts
<1> HIDE DEF a, b, c
<1>4. /\ d \in Seq(Item) /\ Len(d) = i + j
      /\ \A k \in 1 .. i + j : d[k] = IF k <= i THEN a[k] ELSE b[k - i]
  <2>1. a \in Seq(Item) /\ b \in Seq(Item) /\ Len(a) = i /\ Len(b) = j
    BY <1>1, <1>2
  <2> QED BY ONLY <2>1, Joined
<1> HIDE DEF d
<1>5. ASSUME NEW k \in 1 .. i + j PROVE d[k] = c[k]
  <2>1. CASE k <= i
    <3>1. k \in 1 .. i
      BY <2>1
    <3> QED BY <1>1, <1>3, <1>4, <2>1, <3>1
  <2>2. CASE ~(k <= i)
    <3>1. k - i \in 1 .. j /\ i + 1 + (k - i) - 1 = 1 + k - 1
      BY <2>2
    <3>2. b[k - i] = <<msg, 1 + k - 1>>
      BY <1>2, <3>1
    <3> QED BY <1>3, <1>4, <2>2, <3>2
  <2> QED BY <2>1, <2>2
<1>6. d = c
  BY <1>3, <1>4, <1>5, SeqEqual
<1> QED BY <1>6 DEF a, b, c, d

(* The three parts of a packet are runs, and together the packet.          *)
LEMMA PartsAreRuns ==
  ASSUME NEW msg \in Msg, NEW n, n = DataLen[msg]
  PROVE  /\ n \in Nat /\ PacketBytes(msg) = Run(msg, 1, n + 5)
         /\ Header(msg) = Run(msg, 1, 3) /\ Data(msg) = Run(msg, 4, n)
         /\ Footer(msg) = Run(msg, n + 4, 2)
         /\ PacketBytes(msg) = (Run(msg, 1, 3) \o Run(msg, 4, n)) \o Run(msg, n + 4, 2)
<1>1. n \in Nat
  BY MsgAssumption, LengthAssumption
<1>2. PacketBytes(msg) = Run(msg, 1, n + 5)
  <2>1. PacketBytes(msg) = [k \in 1 .. n + 5 |-> <<msg, k>>]
    BY DEF PacketBytes
  <2>2. \A k \in 1 .. n + 5 : 1 + k - 1 = k
    BY <1>1
  <2> QED BY <2>1, <2>2 DEF Run
<1> DEFINE len == n + 5
<1>3. SubSeq(Run(msg, 1, len), 1, 3) = Run(msg, 1, 3)
  <2>1. len \in Nat /\ 1 + 3 <= len + 1 /\ 1 + 3 - 1 = 3 /\ 1 \in Nat \ {0} /\ 3 \in Nat
    BY <1>1
  <2> HIDE DEF len
  <2>2. SubSeq(Run(msg, 1, len), 1, 1 + 3 - 1) = Run(msg, 1, 3)
    BY <2>1, PartOfRun
  <2> QED BY <2>1, <2>2
<1>4. SubSeq(Run(msg, 1, len), 4, n + 3) = Run(msg, 4, n)
  <2>1. len \in Nat /\ 4 + n <= len + 1 /\ 4 + n - 1 = n + 3 /\ 4 \in Nat \ {0}
    BY <1>1
  <2> HIDE DEF len
  <2>2. SubSeq(Run(msg, 1, len), 4, 4 + n - 1) = Run(msg, 4, n)
    BY <1>1, <2>1, PartOfRun
  <2> QED BY <2>1, <2>2
<1>5. SubSeq(Run(msg, 1, len), n + 4, n + 5) = Run(msg, n + 4, 2)
  <2> DEFINE from == n + 4
  <2>1. len \in Nat /\ from \in Nat \ {0} /\ from + 2 <= len + 1 /\ from + 2 - 1 = n + 5
    BY <1>1
  <2> HIDE DEF len, from
  <2>2. SubSeq(Run(msg, 1, len), from, from + 2 - 1) = Run(msg, from, 2)
    BY <2>1, PartOfRun
  <2>3. SubSeq(Run(msg, 1, len), from, n + 5) = Run(msg, from, 2)
    BY <2>1, <2>2
  <2> QED BY <2>3 DEF from
<1>6. Run(msg, 1, 3) \o Run(msg, 4, n) = Run(msg, 1, 3 + n)
  <2>1. Run(msg, 1, 3) \o Run(msg, 3 + 1, n) = Run(msg, 1, 3 + n)
    BY <1>1, RunsJoin
  <2>2. 3 + 1 = 4
    OBVIOUS
  <2> QED BY <2>1, <2>2
<1>7. Run(msg, 1, 3 + n) \o Run(msg, n + 4, 2) = Run(msg, 1, n + 5)
  <2> DEFINE i == 3 + n
  <2>1. i \in Nat /\ i + 1 = n + 4 /\ i + 2 = n + 5
    BY <1>1
  <2> HIDE DEF i
  <2>2. Run(msg, 1, i) \o Run(msg, i + 1, 2) = Run(msg, 1, i + 2)
    BY <2>1, RunsJoin
  <2>3. Run(msg, 1, i) \o Run(msg, n + 4, 2) = Run(msg, 1, n + 5)
    BY <2>1, <2>2
  <2> QED BY <2>3 DEF i
<1> QED BY <1>1, <1>2, <1>3, <1>4, <1>5, <1>6, <1>7 DEF Header, Data, Footer
-----------------------------------------------------------------------------
(* A reserve and a commit of all that was asked for lengthen the region,   *)
(* and one of nothing leaves it.                                           *)
LEMMA RegionGrows ==
  ASSUME NEW n \in 0 .. BufLen, NEW len \in Nat
  PROVE  LET b == FilledTo(n)
             block == ReserveBlock(b, len)
         IN  /\ block.ix \in Nat
             /\ n + len <= BufLen => /\ block.sz = len /\ (len > 0 => block.ix = n)
                                     /\ Commit(Reserve(b, len), len) = FilledTo(n + len)
             /\ n + len > BufLen => /\ block.sz # len
                                    /\ Commit(Reserve(b, len), 0) = b
<1> DEFINE b == FilledTo(n)
           space == BufLen - n
           least == Lesser(len, space)
           block == ReserveBlock(b, len)
           grown == [ixa |-> 0, sza |-> n, ixb |-> 0, szb |-> 0, ixResrv |-> n, szResrv |-> least]
<1>1. b = [ixa |-> 0, sza |-> n, ixb |-> 0, szb |-> 0, ixResrv |-> 0, szResrv |-> 0]
  BY DEF FilledTo, Cleared
<1>2. n \in Nat /\ BufLen \in Nat /\ space \in Nat /\ n + space = BufLen /\ BufLen - 0 - n = space
  BY BufLenAssumption
<1> HIDE DEF b, space
<1>3. GetSpaceAfterA(b) = space
  BY <1>1, <1>2 DEF GetSpaceAfterA
<1>4. space = 0 => block = NoBlock
  BY <1>1, <1>2, <1>3 DEF ReserveBlock
<1>5. space # 0 => block = Block(n, least)
  <2>1. 0 + n = n /\ space >= 0
    BY <1>2
  <2> QED BY <1>1, <1>3, <2>1 DEF ReserveBlock
<1>6. least \in Nat /\ (n + len <= BufLen => least = len) /\ (n + len > BufLen => least # len)
  BY <1>2 DEF Lesser
<1> HIDE DEF block, least
<1>7. Reserve(b, len) = IF space = 0 THEN b ELSE grown
  <2>1. CASE space = 0
    BY <1>4, <2>1 DEF Reserve, NoBlock, block
  <2>2. CASE space # 0
    <3>1. block.granted /\ block.ix = n /\ block.sz = least
      BY <1>5, <2>2 DEF Block
    <3>2. Reserve(b, len) = [b EXCEPT !.ixResrv = n, !.szResrv = least]
      BY <3>1 DEF Reserve, block
    <3> QED BY <1>1, <2>2, <3>2
  <2> QED BY <2>1, <2>2
<1>8. ASSUME NEW c \in {b, grown} PROVE Commit(c, 0) = b
  <2>1. Commit(c, 0) = [c EXCEPT !.ixResrv = 0, !.szResrv = 0]
    BY DEF Commit
  <2>2. CASE c = b
    BY <1>1, <2>1, <2>2
  <2>3. CASE c = grown
    BY <1>1, <2>1, <2>3
  <2> QED BY <1>8, <2>2, <2>3
<1>9. ASSUME n + len <= BufLen
      PROVE  /\ block.sz = len /\ (len > 0 => block.ix = n)
             /\ Commit(Reserve(b, len), len) = FilledTo(n + len)
  <2>1. CASE space = 0
    <3>1. len = 0 /\ n + len = n
      BY <1>2, <1>9, <2>1
    <3> QED BY <1>4, <1>7, <1>8, <2>1, <3>1 DEF NoBlock, b
  <2>2. CASE space # 0
    <3>1. least = len /\ block.sz = len /\ block.ix = n
      BY <1>5, <1>6, <1>9, <2>2 DEF Block
    <3>2. CASE len = 0
      <4>1. n + len = n
        BY <1>2, <3>2
      <4> QED BY <1>7, <1>8, <2>2, <3>1, <3>2, <4>1 DEF b
    <3>3. CASE len # 0
      <4> DEFINE part == CommitPartial(grown, len)
      <4>1. Lesser(len, least) = len /\ (n = 0 => n = 0 + n) /\ n = 0 + n
        BY <1>2, <3>1 DEF Lesser
      <4>2. part = [ixa |-> 0, sza |-> n + len, ixb |-> 0, szb |-> 0,
                    ixResrv |-> n + len, szResrv |-> least - len]
        <5> DEFINE g == grown
        <5>1. /\ g.ixa = 0 /\ g.sza = n /\ g.szb = 0 /\ g.ixResrv = n /\ g.szResrv = least
              /\ (IF g.sza = 0 /\ g.szb = 0 THEN g.ixResrv ELSE g.ixa) = 0
          OBVIOUS
        <5>2. part = [g EXCEPT !.ixa = 0, !.sza = n + len, !.szb = 0,
                               !.ixResrv = n + len, !.szResrv = least - len]
          BY <4>1, <5>1 DEF CommitPartial
        <5> QED BY <5>2
      <4> HIDE DEF part
      <4>3. Commit(grown, len) = [part EXCEPT !.ixResrv = 0, !.szResrv = 0]
        BY <3>3 DEF Commit, part
      <4>4. Commit(grown, len) = FilledTo(n + len)
        <5>1. FilledTo(n + len) = [ixa |-> 0, sza |-> n + len, ixb |-> 0, szb |-> 0,
                                   ixResrv |-> 0, szResrv |-> 0]
          BY DEF FilledTo, Cleared
        <5>2. [part EXCEPT !.ixResrv = 0, !.szResrv = 0]
                = [ixa |-> 0, sza |-> n + len, ixb |-> 0, szb |-> 0, ixResrv |-> 0, szResrv |-> 0]
          <6> DEFINE a == n + len
                     x == least - len
          <6>1. part = [ixa |-> 0, sza |-> a, ixb |-> 0, szb |-> 0, ixResrv |-> a, szResrv |-> x]
            BY <4>2
          <6> HIDE DEF a, x
          <6> DEFINE first == [part EXCEPT !.ixResrv = 0]
          <6>2. first = [ixa |-> 0, sza |-> a, ixb |-> 0, szb |-> 0, ixResrv |-> 0, szResrv |-> x]
            BY <6>1
          <6> HIDE DEF first
          <6>3. [first EXCEPT !.szResrv = 0]
                  = [ixa |-> 0, sza |-> a, ixb |-> 0, szb |-> 0, ixResrv |-> 0, szResrv |-> 0]
            BY <6>2
          <6> QED BY <6>3 DEF a, first
        <5> HIDE DEF grown
        <5> QED BY <4>3, <5>1, <5>2
      <4> QED BY <1>7, <2>2, <3>1, <4>4
    <3> QED BY <3>2, <3>3
  <2> QED BY <2>1, <2>2
<1>10. ASSUME n + len > BufLen PROVE block.sz # len /\ Commit(Reserve(b, len), 0) = b
  <2>1. block.sz # len
    <3>1. CASE space = 0
      <4>1. len # 0
        BY <1>2, <1>10, <3>1
      <4> QED BY <1>4, <3>1, <4>1 DEF NoBlock
    <3>2. CASE space # 0
      BY <1>5, <1>6, <1>10, <3>2 DEF Block
    <3> QED BY <3>1, <3>2
  <2> QED BY <1>7, <1>8, <2>1
<1>11. block.ix \in Nat
  <2>1. space = 0 => block.ix = 0
    BY <1>4 DEF NoBlock
  <2>2. space # 0 => block.ix = n
    BY <1>5 DEF Block
  <2> QED BY <1>2, <2>1, <2>2
<1> QED BY <1>9, <1>10, <1>11 DEF b, block

(* SendBytes queues all of the bytes behind the others, or none of them    *)
(* when they do not fit.                                                   *)
LEMMA SendBytesFacts ==
  ASSUME NEW t, OneRegion(t), NEW bytes \in Seq(Item)
  PROVE  LET u == SendBytes(t, bytes)
             fits == t.bip.sza + Len(bytes) <= BufLen
         IN  /\ OneRegion(u)
             /\ u.bip.sza = IF fits THEN t.bip.sza + Len(bytes) ELSE t.bip.sza
             /\ Region(u) = IF fits THEN Region(t) \o bytes ELSE Region(t)
<1> DEFINE n == t.bip.sza
           len == Len(bytes)
           m == t.mem
           block == ReserveBlock(t.bip, len)
           u == SendBytes(t, bytes)
<1>1. /\ n \in 0 .. BufLen /\ t.bip = FilledTo(n) /\ t = [bip |-> t.bip, mem |-> m]
      /\ m \in [Cell -> Item] /\ len \in Nat /\ BufLen \in Nat /\ n \in Nat
  BY LenProperties, BufLenAssumption DEF OneRegion
<1>2. \A k : FilledTo(k).sza = k
  BY DEF FilledTo, Cleared
<1>3. Region(t) \in Seq(Item) /\ Len(Region(t)) = n /\ \A k \in 1 .. n : Region(t)[k] = m[k - 1]
  BY RegionFacts
<1>4. CASE n + len <= BufLen
  <2> DEFINE w == [i \in Cell |-> IF i >= block.ix /\ i < block.ix + block.sz
                                  THEN bytes[i - block.ix + 1] ELSE m[i]]
             all == Region(t) \o bytes
  <2>1. /\ block.sz = len /\ (len > 0 => block.ix = n)
        /\ Commit(Reserve(t.bip, len), len) = FilledTo(n + len)
    BY <1>1, <1>4, RegionGrows
  <2>0. block.ix \in Nat
    BY <1>1, RegionGrows
  <2>2. u = [bip |-> FilledTo(n + len), mem |-> w]
    BY <2>1 DEF SendBytes
  <2> HIDE DEF block, u
  <2>3. /\ \A i \in Cell : ~(i >= n /\ i < n + len) => w[i] = m[i]
        /\ \A i \in 1 .. len : n + i - 1 \in Cell /\ w[n + i - 1] = bytes[i]
    <3>1. CASE len = 0
      <4>1. \A i \in Cell : ~(i >= block.ix /\ i < block.ix + block.sz)
        BY <1>1, <2>0, <2>1, <3>1 DEF Cell
      <4> QED BY <3>1, <4>1
    <3>2. CASE len > 0
      <4>1. block.ix = n
        BY <2>1, <3>2
      <4>2. w = [i \in Cell |-> IF i >= n /\ i < n + len THEN bytes[i - n + 1] ELSE m[i]]
        BY <2>1, <4>1
      <4>3. ASSUME NEW i \in Cell, ~(i >= n /\ i < n + len) PROVE w[i] = m[i]
        BY <4>2, <4>3
      <4>4. ASSUME NEW i \in 1 .. len PROVE n + i - 1 \in Cell /\ w[n + i - 1] = bytes[i]
        <5>1. n + i - 1 \in Cell /\ n + i - 1 >= n /\ n + i - 1 < n + len /\ (n + i - 1) - n + 1 = i
          BY <1>1, <1>4 DEF Cell
        <5> QED BY <4>2, <5>1
      <4> HIDE DEF w
      <4> QED BY <4>3, <4>4
    <3> HIDE DEF w
    <3> QED BY <1>1, <3>1, <3>2
  <2>4. w \in [Cell -> Item]
    <3>1. ASSUME NEW i \in Cell PROVE w[i] \in Item
      <4>1. CASE ~(i >= n /\ i < n + len)
        BY <1>1, <2>3, <4>1
      <4>2. CASE i >= n /\ i < n + len
        <5>1. i - n + 1 \in 1 .. len /\ n + (i - n + 1) - 1 = i
          BY <1>1, <4>2 DEF Cell
        <5>2. w[i] = bytes[i - n + 1]
          BY <2>3, <5>1
        <5> QED BY <5>1, <5>2, ElementOfSeq
      <4> QED BY <4>1, <4>2
    <3> DEFINE f == w
    <3>2. f = [i \in Cell |-> f[i]]
      OBVIOUS
    <3> HIDE DEF w
    <3> QED BY <3>1, <3>2 DEF f
  <2> HIDE DEF w
  <2>5. u.mem = w /\ u.bip = FilledTo(n + len) /\ u.bip.sza = n + len /\ n + len \in 0 .. BufLen
    BY <1>1, <1>2, <1>4, <2>2
  <2>6. OneRegion(u)
    BY <2>2, <2>4, <2>5 DEF OneRegion
  <2>7. Region(u) \in Seq(Item) /\ Len(Region(u)) = n + len
        /\ \A k \in 1 .. n + len : Region(u)[k] = w[k - 1]
    BY <2>5, <2>6, RegionFacts
  <2>8. /\ all \in Seq(Item) /\ Len(all) = n + len
        /\ \A k \in 1 .. n + len : all[k] = IF k <= n THEN Region(t)[k] ELSE bytes[k - n]
    BY <1>3, Joined, SMTT(30)
  <2> HIDE DEF all, n, len, m
  <2>9. ASSUME NEW k \in 1 .. n + len PROVE Region(u)[k] = all[k]
    <3>1. CASE k <= n
      <4>1. k \in 1 .. n /\ k - 1 \in Cell /\ ~(k - 1 >= n /\ k - 1 < n + len)
        BY <1>1, <3>1 DEF Cell
      <4> QED BY <1>3, <2>3, <2>7, <2>8, <3>1, <4>1
    <3>2. CASE ~(k <= n)
      <4>1. k - n \in 1 .. len /\ n + (k - n) - 1 = k - 1
        BY <1>1, <3>2
      <4>2. w[k - 1] = bytes[k - n]
        BY <2>3, <4>1
      <4> QED BY <2>7, <2>8, <3>2, <4>2
    <3> QED BY <3>1, <3>2
  <2>10. Region(u) = all
    BY <2>7, <2>8, <2>9, SeqEqual
  <2> QED BY <1>4, <2>5, <2>6, <2>10 DEF all, u, n, len
<1>5. CASE ~(n + len <= BufLen)
  <2>1. block.sz # len /\ Commit(Reserve(t.bip, len), 0) = t.bip
    <3>1. n + len > BufLen
      BY <1>1, <1>5
    <3> QED BY <1>1, <3>1, RegionGrows
  <2>2. u = t
    BY <1>1, <2>1 DEF SendBytes
  <2> QED BY <1>5, <2>2
<1> QED BY <1>4, <1>5
-----------------------------------------------------------------------------
(* What RunsWhole says of a string of bytes. *)
Whole(q) ==
  \A k \in DOMAIN q :
    LET msg    == q[k][1]
        place  == q[k][2]
        starts == {1, 4, DataLen[msg] + 4}
        ends   == {3, DataLen[msg] + 3, DataLen[msg] + 5}
    IN  /\ place \notin starts => k > 1 /\ q[k - 1] = <<msg, place - 1>>
        /\ place \notin ends => k < Len(q) /\ q[k + 1] = <<msg, place + 1>>

(* The state of the interface: one region, of whole runs only, and as long *)
(* as all that was sent had room these are exactly the packets sent.       *)
IInv ==
  /\ OneRegion(tx) /\ Whole(Region(tx))
  /\ due \in Seq(Item)
  /\ Len(due) <= BufLen => Region(tx) = due

LEMMA RunAppended ==
  ASSUME NEW q \in Seq(Item), Whole(q), NEW msg \in Msg, NEW from \in Nat \ {0}, NEW n \in Nat,
         from \in {1, 4, DataLen[msg] + 4},
         from + n - 1 \in {3, DataLen[msg] + 3, DataLen[msg] + 5}
  PROVE  Whole(q \o Run(msg, from, n))
<1> DEFINE r == Run(msg, from, n)
           l == Len(q)
           all == q \o r
           starts(b) == {1, 4, DataLen[b[1]] + 4}
           ends(b) == {3, DataLen[b[1]] + 3, DataLen[b[1]] + 5}
<1>1. r \in Seq(Item) /\ Len(r) = n /\ \A k \in 1 .. n : r[k] = <<msg, from + k - 1>>
  BY RunFacts
<1>2. l \in Nat /\ DOMAIN q = 1 .. l
  BY LenProperties
<1> HIDE DEF r
<1>3. /\ all \in Seq(Item) /\ Len(all) = l + n
      /\ \A k \in 1 .. l + n : all[k] = IF k <= l THEN q[k] ELSE r[k - l]
  BY <1>1, Joined
<1>4. DOMAIN all = 1 .. l + n
  BY <1>3, LenProperties
<1>5. \A k \in 1 .. l : /\ q[k][2] \notin starts(q[k]) => k > 1 /\ q[k - 1] = <<q[k][1], q[k][2] - 1>>
                        /\ q[k][2] \notin ends(q[k]) => k < l /\ q[k + 1] = <<q[k][1], q[k][2] + 1>>
  BY <1>2 DEF Whole
<1> HIDE DEF all, l
<1>6. ASSUME NEW k \in 1 .. l + n
      PROVE  /\ all[k][2] \notin starts(all[k]) => k > 1 /\ all[k - 1] = <<all[k][1], all[k][2] - 1>>
             /\ all[k][2] \notin ends(all[k]) => k < l + n /\ all[k + 1] = <<all[k][1], all[k][2] + 1>>
  <2>1. CASE k <= l
    <3>1. k \in 1 .. l /\ all[k] = q[k]
      BY <1>2, <1>3, <2>1
    <3>2. k > 1 => k - 1 \in 1 .. l + n /\ k - 1 <= l /\ all[k - 1] = q[k - 1]
      BY <1>2, <1>3, <2>1
    <3>3. k < l => k < l + n /\ k + 1 \in 1 .. l + n /\ k + 1 <= l /\ all[k + 1] = q[k + 1]
      BY <1>2, <1>3, <2>1
    <3> HIDE DEF starts, ends
    <3> QED BY <1>5, <3>1, <3>2, <3>3
  <2>2. CASE ~(k <= l)
    <3> DEFINE i == k - l
               place == from + i - 1
    <3>1. i \in 1 .. n /\ place \in Nat
      BY <1>2, <2>2
    <3>2. all[k] = <<msg, place>>
      BY <1>1, <1>3, <2>2, <3>1
    <3>3. place \notin {1, 4, DataLen[msg] + 4} => i > 1
      BY <3>1
    <3>4. place \notin {3, DataLen[msg] + 3, DataLen[msg] + 5} => i < n
      BY <3>1
    <3>5. i > 1 => k > 1 /\ all[k - 1] = <<msg, place - 1>>
      <4> SUFFICES ASSUME i > 1 PROVE k > 1 /\ all[k - 1] = <<msg, place - 1>>
        OBVIOUS
      <4>1. /\ k - 1 \in 1 .. l + n /\ ~(k - 1 <= l) /\ (k - 1) - l \in 1 .. n /\ k > 1
            /\ from + ((k - 1) - l) - 1 = place - 1
        BY <1>2, <3>1
      <4> QED BY <1>1, <1>3, <4>1
    <3>6. i < n => k < l + n /\ all[k + 1] = <<msg, place + 1>>
      <4> SUFFICES ASSUME i < n PROVE k < l + n /\ all[k + 1] = <<msg, place + 1>>
        OBVIOUS
      <4>1. /\ k + 1 \in 1 .. l + n /\ ~(k + 1 <= l) /\ (k + 1) - l \in 1 .. n /\ k < l + n
            /\ from + ((k + 1) - l) - 1 = place + 1
        BY <1>2, <2>2, <3>1
      <4> QED BY <1>1, <1>3, <4>1
    <3> HIDE DEF i, place
    <3> QED BY <3>2, <3>3, <3>4, <3>5, <3>6
  <2> QED BY <2>1, <2>2
<1>7. Whole(all)
  BY <1>3, <1>4, <1>6 DEF Whole
<1> QED BY <1>7 DEF all, r

(* What both ways of looking at the buffer see. *)
LEMMA QueuedIsRegion ==
  ASSUME OneRegion(tx)
  PROVE  /\ Queued = Region(tx) /\ FirstBlock.sz = tx.bip.sza
         /\ Bytes(FirstBlock) = Region(tx)
         /\ AfterFirst = FilledTo(0) /\ SecondBlock = NoBlock /\ Bytes(SecondBlock) = <<>>
         /\ DecommitBlock(AfterFirst, SecondBlock.sz) = FilledTo(0)
<1> DEFINE n == tx.bip.sza
           b == tx.bip
           empty == [ixa |-> 0, sza |-> 0, ixb |-> 0, szb |-> 0, ixResrv |-> 0, szResrv |-> 0]
<1>1. n \in 0 .. BufLen /\ n \in Nat
  BY BufLenAssumption DEF OneRegion
<1>2. b = [ixa |-> 0, sza |-> n, ixb |-> 0, szb |-> 0, ixResrv |-> 0, szResrv |-> 0]
  BY DEF OneRegion, FilledTo, Cleared
<1>3. FilledTo(0) = empty
  BY DEF FilledTo, Cleared
<1>4. Bytes(NoBlock) = <<>> /\ Bytes(Block(b.ixb, b.szb)) = <<>>
  BY <1>2 DEF Bytes, NoBlock, Block
<1>5. FirstBlock = IF n = 0 THEN NoBlock ELSE Block(0, n)
  BY <1>2 DEF FirstBlock, GetContiguousBlock
<1>6. FirstBlock.sz = n /\ Bytes(FirstBlock) = Region(tx)
  <2>1. FirstBlock.sz = n /\ FirstBlock.ix = 0
    BY <1>5 DEF NoBlock, Block
  <2>2. Bytes(FirstBlock) = [k \in 1 .. n |-> tx.mem[0 + k - 1]]
    BY <2>1 DEF Bytes
  <2>3. \A k \in 1 .. n : 0 + k - 1 = k - 1
    BY <1>1
  <2> QED BY <2>1, <2>2, <2>3 DEF Region
<1>7. Queued = Region(tx)
  <2>1. Queued = Region(tx) \o <<>>
    BY <1>4, <1>6 DEF Queued, FirstBlock
  <2> QED BY <2>1, RegionFacts, ConcatEmptySeq
<1>8. ASSUME NEW c, c \in {b, empty} PROVE DecommitBlock(c, c.sza) = empty
  <2>1. c.sza \in Nat /\ c.sza >= c.sza /\ c.ixb = 0 /\ c.szb = 0
    BY <1>1, <1>2, <1>8
  <2>2. DecommitBlock(c, c.sza) = [c EXCEPT !.ixa = 0, !.sza = 0, !.ixb = 0, !.szb = 0]
    BY <2>1 DEF DecommitBlock
  <2>3. CASE c = b
    <3> HIDE DEF b
    <3> QED BY <1>2, <2>2, <2>3
  <2>4. CASE c = empty
    BY <2>2, <2>4
  <2> QED BY <1>8, <2>3, <2>4
<1>9. AfterFirst = empty
  BY <1>2, <1>6, <1>8 DEF AfterFirst
<1>10. SecondBlock = NoBlock /\ SecondBlock.sz = 0
  BY <1>9 DEF SecondBlock, GetContiguousBlock, NoBlock
<1>11. DecommitBlock(AfterFirst, SecondBlock.sz) = empty
  <2>1. DecommitBlock(empty, empty.sza) = empty
    BY <1>8
  <2> QED BY <1>9, <1>10, <2>1
<1> QED BY <1>3, <1>4, <1>6, <1>7, <1>9, <1>10, <1>11
-----------------------------------------------------------------------------
LEMMA InitKeeps ==
  ASSUME InterfaceInit PROVE IInv
<1>1. Cleared = FilledTo(0)
  BY DEF Cleared, FilledTo
<1>2. tx.bip = FilledTo(0) /\ tx.bip.sza = 0 /\ tx.mem \in [Cell -> Item]
      /\ tx = [bip |-> tx.bip, mem |-> tx.mem]
  BY <1>1 DEF InterfaceInit, FilledTo, Cleared, Item
<1>3. OneRegion(tx) /\ Len(Region(tx)) = 0
  BY <1>2, BufLenAssumption, RegionFacts DEF OneRegion
<1>4. Region(tx) = <<>>
  BY <1>3, RegionFacts, EmptySeq
<1> QED BY <1>3, <1>4 DEF IInv, Whole, InterfaceInit

LEMMA JoinedLength ==
  ASSUME NEW s \in Seq(Item), NEW t \in Seq(Item)
  PROVE  s \o t \in Seq(Item) /\ Len(s \o t) = Len(s) + Len(t) /\ Len(s) \in Nat
BY ConcatProperties, LenProperties

(* A run sent leaves whole runs, and is behind the others if it fits.      *)
LEMMA RunSent ==
  ASSUME NEW t, OneRegion(t), Whole(Region(t)),
         NEW msg \in Msg, NEW from \in Nat \ {0}, NEW n \in Nat,
         from \in {1, 4, DataLen[msg] + 4},
         from + n - 1 \in {3, DataLen[msg] + 3, DataLen[msg] + 5}
  PROVE  LET u == SendBytes(t, Run(msg, from, n))
         IN  /\ OneRegion(u) /\ Whole(Region(u))
             /\ Len(Region(t)) + n <= BufLen => Region(u) = Region(t) \o Run(msg, from, n)
<1> DEFINE r == Run(msg, from, n)
           u == SendBytes(t, r)
<1>1. r \in Seq(Item) /\ Len(r) = n
  BY RunFacts
<1>2. Region(t) \in Seq(Item) /\ Len(Region(t)) = t.bip.sza
  BY RegionFacts
<1>3. Whole(Region(t) \o r)
  BY <1>2, RunAppended
<1> HIDE DEF r
<1>4. /\ OneRegion(u)
      /\ Region(u) = IF t.bip.sza + n <= BufLen THEN Region(t) \o r ELSE Region(t)
  BY <1>1, SendBytesFacts
<1> QED BY <1>2, <1>3, <1>4 DEF r

LEMMA SendKeeps ==
  ASSUME IInv, NEW msg \in Msg, SendPacket(msg)
  PROVE  IInv'
<1> DEFINE n == DataLen[msg]
           h == Run(msg, 1, 3)
           d == Run(msg, 4, n)
           f == Run(msg, n + 4, 2)
           t1 == SendBytes(tx, h)
           t2 == SendBytes(t1, d)
           t3 == SendBytes(t2, f)
           p == PacketBytes(msg)
<1>1. n \in Nat /\ Header(msg) = h /\ Data(msg) = d /\ Footer(msg) = f /\ p = (h \o d) \o f
  BY PartsAreRuns
<1>2. tx' = t3 /\ due' = due \o p
  BY <1>1 DEF SendPacket
<1>3. 1 \in Nat \ {0} /\ 3 \in Nat /\ 4 \in Nat \ {0} /\ n + 4 \in Nat \ {0} /\ 2 \in Nat
      /\ 1 + 3 - 1 = 3 /\ 4 + n - 1 = n + 3 /\ (n + 4) + 2 - 1 = n + 5
  BY <1>1
<1>4. /\ h \in Seq(Item) /\ d \in Seq(Item) /\ f \in Seq(Item)
      /\ Len(h) = 3 /\ Len(d) = n /\ Len(f) = 2
  <2>1. h \in Seq(Item) /\ Len(h) = 3
    BY <1>3, RunFacts
  <2>2. d \in Seq(Item) /\ Len(d) = n
    BY <1>1, <1>3, RunFacts
  <2>3. f \in Seq(Item) /\ Len(f) = 2
    BY <1>3, RunFacts
  <2> QED BY <2>1, <2>2, <2>3
<1>5. /\ OneRegion(t1) /\ Whole(Region(t1))
      /\ Len(Region(tx)) + 3 <= BufLen => Region(t1) = Region(tx) \o h
  BY <1>3, RunSent DEF IInv
<1> HIDE DEF t1
<1>6. /\ OneRegion(t2) /\ Whole(Region(t2))
      /\ Len(Region(t1)) + n <= BufLen => Region(t2) = Region(t1) \o d
  <2>1. /\ OneRegion(t1) /\ Whole(Region(t1)) /\ 4 \in Nat \ {0} /\ n \in Nat
        /\ 4 \in {1, 4, DataLen[msg] + 4}
        /\ 4 + n - 1 \in {3, DataLen[msg] + 3, DataLen[msg] + 5}
    BY <1>1, <1>3, <1>5
  <2> QED BY ONLY msg \in Msg, <2>1, RunSent DEF n
<1> HIDE DEF t2
<1>7. /\ OneRegion(t3) /\ Whole(Region(t3))
      /\ Len(Region(t2)) + 2 <= BufLen => Region(t3) = Region(t2) \o f
  <2>1. /\ OneRegion(t2) /\ Whole(Region(t2)) /\ n + 4 \in Nat \ {0} /\ 2 \in Nat
        /\ n + 4 \in {1, 4, DataLen[msg] + 4}
        /\ (n + 4) + 2 - 1 \in {3, DataLen[msg] + 3, DataLen[msg] + 5}
    BY <1>1, <1>3, <1>6
  <2> QED BY ONLY msg \in Msg, <2>1, RunSent DEF n
<1> HIDE DEF t3, h, d, f, n, p
<1>8. p \in Seq(Item) /\ Len(p) = n + 5 /\ h \o d \in Seq(Item)
  <2>1. h \o d \in Seq(Item) /\ Len(h \o d) = 3 + n
    BY ONLY <1>4, JoinedLength
  <2>2. (h \o d) \o f \in Seq(Item) /\ Len((h \o d) \o f) = (3 + n) + 2
    BY ONLY <1>4, <2>1, JoinedLength
  <2>3. (3 + n) + 2 = n + 5
    BY <1>1
  <2> QED BY <1>1, <2>1, <2>2, <2>3
<1>9. due' \in Seq(Item) /\ Len(due') = Len(due) + (n + 5) /\ Len(due) \in Nat
  <2>1. due \in Seq(Item)
    BY DEF IInv
  <2>2. due \o p \in Seq(Item) /\ Len(due \o p) = Len(due) + (n + 5) /\ Len(due) \in Nat
    BY ONLY <1>8, <2>1, JoinedLength
  <2> QED BY <1>2, <2>2
<1>10. ASSUME Len(due') <= BufLen PROVE Region(t3) = due'
  <2>1. Region(tx) = due /\ due \in Seq(Item)
    BY <1>1, <1>9, <1>10, BufLenAssumption DEF IInv
  <2>2. Region(t1) = due \o h /\ Len(due \o h) = Len(due) + 3 /\ due \o h \in Seq(Item)
    <3>1. Len(due) + 3 <= BufLen
      BY <1>1, <1>9, <1>10, BufLenAssumption
    <3>2. due \o h \in Seq(Item) /\ Len(due \o h) = Len(due) + 3
      BY ONLY <1>4, <2>1, JoinedLength
    <3> QED BY <1>5, <2>1, <3>1, <3>2
  <2>3. /\ Region(t2) = (due \o h) \o d /\ Len((due \o h) \o d) = Len(due) + 3 + n
        /\ (due \o h) \o d \in Seq(Item)
    <3>1. Len(due) + 3 + n <= BufLen
      BY <1>1, <1>9, <1>10, BufLenAssumption
    <3>2. (due \o h) \o d \in Seq(Item) /\ Len((due \o h) \o d) = Len(due \o h) + n
      BY ONLY <1>4, <2>2, JoinedLength
    <3> QED BY <1>6, <2>2, <3>1, <3>2
  <2>4. Region(t3) = ((due \o h) \o d) \o f
    <3>1. Len(due) + 3 + n + 2 <= BufLen
      BY <1>1, <1>9, <1>10, BufLenAssumption
    <3> QED BY <1>7, <2>3, <3>1
  <2>5. (due \o h) \o d = due \o (h \o d)
    BY ONLY <1>4, <2>1, ConcatAssociative
  <2>6. (due \o (h \o d)) \o f = due \o ((h \o d) \o f)
    <3> DEFINE hd == h \o d
    <3>1. hd \in Seq(Item) /\ due \in Seq(Item) /\ f \in Seq(Item)
      BY <1>4, <1>8, <2>1
    <3> HIDE DEF hd
    <3>2. (due \o hd) \o f = due \o (hd \o f)
      BY ONLY <3>1, ConcatAssociative
    <3> QED BY <3>2 DEF hd
  <2> QED BY <1>1, <1>2, <2>4, <2>5, <2>6
<1> QED BY <1>2, <1>7, <1>9, <1>10 DEF IInv

LEMMA GetKeeps ==
  ASSUME IInv, GetTxBytes
  PROVE  IInv'
<1>1. OneRegion(tx)
  BY DEF IInv
<1>2. DecommitBlock(AfterFirst, SecondBlock.sz) = FilledTo(0)
  BY <1>1, QueuedIsRegion
<1>3. tx' = [bip |-> FilledTo(0), mem |-> tx.mem] /\ due' = <<>>
  BY <1>1, <1>2 DEF GetTxBytes, OneRegion
<1>4. FilledTo(0).sza = 0
  BY DEF FilledTo, Cleared
<1>5. OneRegion(tx')
  BY <1>1, <1>3, <1>4, BufLenAssumption DEF OneRegion
<1>6. Len(Region(tx')) = 0 /\ Region(tx') \in Seq(Item)
  BY <1>3, <1>4, <1>5, RegionFacts
<1>7. Region(tx') = <<>>
  BY <1>6, EmptySeq
<1>8. Whole(<<>>)
  BY DEF Whole
<1> QED BY <1>3, <1>5, <1>7, <1>8 DEF IInv

LEMMA Inductive == InterfaceSpec => []IInv
<1>1. InterfaceInit => IInv
  BY InitKeeps
<1>2. IInv /\ [InterfaceNext]_interfaceVars => IInv'
  <2> SUFFICES ASSUME IInv, [InterfaceNext]_interfaceVars PROVE IInv'
    OBVIOUS
  <2>1. CASE GetTxBytes
    BY <2>1, GetKeeps
  <2>2. CASE \E msg \in Msg : SendPacket(msg)
    BY <2>2, SendKeeps
  <2>3. CASE UNCHANGED interfaceVars
    BY <2>3 DEF IInv, interfaceVars
  <2> QED BY <2>1, <2>2, <2>3 DEF InterfaceNext
<1> QED BY <1>1, <1>2, PTL DEF InterfaceSpec

(* However SendPacket and GetTxBytes are called, the header, the data and  *)
(* the CRC of a packet are each in the buffer completely or not at all.    *)
THEOREM RunsStayWhole == InterfaceSpec => []RunsWhole
<1>1. IInv => RunsWhole
  <2> SUFFICES ASSUME IInv PROVE RunsWhole
    OBVIOUS
  <2>1. Queued = Region(tx) /\ Whole(Region(tx))
    BY QueuedIsRegion DEF IInv
  <2> HIDE DEF IInv
  <2> QED BY <2>1 DEF RunsWhole, Whole
<1> QED BY <1>1, Inductive, PTL

(* The buffer is not longer than what GetTxBytes's length can say          *)
(* (GENERIC_TX_BUFFER_SIZE 256 and a uint8_t).                             *)
LengthFits == BufLen <= LengthMod

LEMMA AllHandedOut ==
  ASSUME LengthFits, IInv, Len(due) < BufLen
  PROVE  DataOut = due
<1> DEFINE n == FirstBlock.sz
<1>1. OneRegion(tx) /\ due \in Seq(Item) /\ Len(due) \in Nat /\ BufLen \in Nat
  BY BufLenAssumption, LenProperties DEF IInv
<1>2. Region(tx) = due
  BY <1>1 DEF IInv
<1>3. n = Len(due) /\ Bytes(FirstBlock) = due /\ SecondBlock.sz = 0 /\ Bytes(SecondBlock) = <<>>
  BY <1>1, <1>2, QueuedIsRegion, RegionFacts DEF NoBlock
<1>4. n \in Nat /\ n < LengthMod /\ LengthMod \in Nat
  BY <1>1, <1>3, LengthAssumption DEF LengthFits
<1> HIDE DEF n
<1>5. n % LengthMod = n /\ (n + 0) % LengthMod = n
  BY <1>4
<1>6. SubSeq(due, 1, n) = due
  BY <1>1, <1>3, SubSeqFull
<1>7. SubSeq(due, n + 1, n) = <<>>
  BY <1>1, <1>4, SubSeqEmpty
<1>8. (due \o <<>>) \o <<>> = due
  BY <1>1, ConcatEmptySeq
<1>9. n + 0 + 1 = n + 1
  BY <1>4
<1>10. DataOut = SubSeq((SubSeq(due, 1, n % LengthMod) \o <<>>)
                          \o SubSeq(due, (n % LengthMod) + 0 + 1, n),
                        1, ((n % LengthMod) + 0) % LengthMod)
  BY <1>3 DEF DataOut, n
<1> QED BY <1>5, <1>6, <1>7, <1>8, <1>9, <1>10

(* As long as the packets sent since the last GetTxBytes are shorter than  *)
(* the buffer, GetTxBytes hands out exactly these packets, in order, and   *)
(* says how many bytes they are.                                           *)
THEOREM SentIsHandedOut == LengthFits => (InterfaceSpec => WholePacketsWhenRoom)
<1> SUFFICES ASSUME LengthFits PROVE InterfaceSpec => WholePacketsWhenRoom
  OBVIOUS
<1>1. IInv => [GetTxBytes /\ Len(due) < BufLen => DataOut = due]_interfaceVars
  BY AllHandedOut
<1> QED BY <1>1, Inductive, PTL DEF WholePacketsWhenRoom
=============================================================================
