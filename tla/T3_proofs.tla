---------------------------- MODULE T3_proofs ------------------------------
(***************************************************************************)
(* Proofs about the second SD library: its cache and the files read        *)
(* through it, for any number of nested interrupts, any size of the cache, *)
(* any volumes and any sizes, and its directories, for any trees.          *)
(*                                                                         *)
(* The list of the cache is only looked at by the numbers of its entries:  *)
(* the lemmas of the first part say what the operations of T3Cache do to   *)
(* the entry of a number, and the steps of T3File need no more.            *)
(*                                                                         *)
(* The second part follows a file: where each step of a read, a peek or a  *)
(* seek has brought the offset, the current cluster and the sector to      *)
(* read, and so which bytes of the card the caller has been given.         *)
(*                                                                         *)
(* The third part numbers the entries of a directory through its sectors   *)
(* and clusters, and follows a search and a listing by these numbers.      *)
(***************************************************************************)
EXTENDS T3File, T3Dir, FiniteSetTheorems, SequenceTheorems, WellFoundedInduction, TLAPS

RowFields == {"entry", "lba", "users", "data"}

(* The list has each number once. *)
WellFormed(c) ==
  /\ \E R : c \in Seq(R)
  /\ \A k \in DOMAIN c : DOMAIN c[k] = RowFields /\ c[k].entry # None /\ c[k].users \in Int
  /\ \A j, k \in DOMAIN c : c[j].entry = c[k].entry => j = k

Entries(c) == {c[k].entry : k \in DOMAIN c}
-----------------------------------------------------------------------------
(* Sets of numbers have a least element, and bounded ones a greatest.      *)
LEMMA NatMin ==
  ASSUME NEW T, T \subseteq Nat, T # {}
  PROVE  \E x \in T : \A y \in T : x <= y
<1>1. IsWellFoundedOn(OpToRel(<, Nat), Nat)
  BY NatLessThanWellFounded
<1>2. PICK x \in T : \A y \in T : ~(<<y, x>> \in OpToRel(<, Nat))
  BY <1>1, WFMin
<1>3. OpToRel(<, Nat) = {ss \in Nat \X Nat : ss[1] < ss[2]}
  BY DEF OpToRel
<1>4. ASSUME NEW y \in T PROVE x <= y
  <2>1. ~(<<y, x>> \in {ss \in Nat \X Nat : ss[1] < ss[2]})
    BY <1>2, <1>3
  <2>2. y \in Nat /\ x \in Nat
    OBVIOUS
  <2> QED BY <2>1, <2>2
<1> QED BY <1>4

LEMMA MinMaxIn ==
  ASSUME NEW n \in Nat, NEW S, S \subseteq 1 .. n, S # {}
  PROVE  Min(S) \in S /\ Max(S) \in S
<1>1. Min(S) \in S
  <2>1. S \subseteq Nat
    OBVIOUS
  <2>2. \E x \in S : \A y \in S : x <= y
    BY <2>1, NatMin
  <2> QED BY <2>2 DEF Min
<1>2. Max(S) \in S
  <2> DEFINE T == {t \in Nat : n - t \in S}
  <2>1. T \subseteq Nat /\ T # {}
    <3>1. PICK x \in S : TRUE
      OBVIOUS
    <3>2. n - x \in Nat /\ n - (n - x) = x
      OBVIOUS
    <3>3. n - x \in T
      BY <3>2
    <3> QED BY <3>3
  <2> HIDE DEF T
  <2>2. PICK t \in T : \A u \in T : t <= u
    BY <2>1, NatMin
  <2>3. t \in Nat /\ n - t \in S
    BY DEF T
  <2>4. \A y \in S : n - y \in T
    <3> SUFFICES ASSUME NEW y \in S PROVE n - y \in T
      OBVIOUS
    <3>1. n - y \in Nat /\ n - (n - y) = y
      OBVIOUS
    <3> QED BY <3>1 DEF T
  <2>5. \A y \in S : n - t >= y
    BY <2>2, <2>3, <2>4
  <2> QED BY <2>3, <2>5 DEF Max
<1> QED BY <1>1, <1>2
-----------------------------------------------------------------------------
LEMMA ListFacts ==
  ASSUME NEW c, WellFormed(c)
  PROVE  Len(c) \in Nat /\ DOMAIN c = 1 .. Len(c)
BY LenProperties DEF WellFormed

(* The entry of a number is where the number is. *)
LEMMA EntryAt ==
  ASSUME NEW c, WellFormed(c), NEW k \in DOMAIN c
  PROVE  c[k].entry \in Entries(c) /\ Entry(c, c[k].entry) = c[k]
<1>1. \A j \in DOMAIN c : c[j].entry = c[k].entry <=> j = k
  BY DEF WellFormed
<1>2. (CHOOSE j \in DOMAIN c : c[j].entry = c[k].entry) = k
  BY <1>1
<1> QED BY <1>2 DEF Entry, Entries

LEMMA EntryIs ==
  ASSUME NEW c, WellFormed(c), NEW e \in Entries(c)
  PROVE  /\ \E k \in DOMAIN c : c[k].entry = e /\ Entry(c, e) = c[k]
         /\ Entry(c, e).entry = e /\ e # None
         /\ DOMAIN Entry(c, e) = RowFields /\ Entry(c, e).users \in Int
<1>1. PICK k \in DOMAIN c : c[k].entry = e
  BY DEF Entries
<1>2. Entry(c, e) = c[k]
  BY <1>1, EntryAt
<1> QED BY <1>1, <1>2 DEF WellFormed

(* A list whose places each hold what one place of another list holds, but *)
(* for the row x, which has taken the place of the row of its number.      *)
LEMMA RowReplaced ==
  ASSUME NEW c, WellFormed(c), NEW d, \E R : d \in Seq(R), NEW f, NEW k \in DOMAIN c, NEW x,
         DOMAIN x = RowFields, x.entry = c[k].entry, x.users \in Int,
         f \in [DOMAIN d -> DOMAIN c],
         \A i, j \in DOMAIN d : f[i] = f[j] => i = j,
         \A j \in DOMAIN c : \E i \in DOMAIN d : f[i] = j,
         \A i \in DOMAIN d : d[i] = IF f[i] = k THEN x ELSE c[f[i]]
  PROVE  /\ WellFormed(d) /\ Entries(d) = Entries(c)
         /\ x.entry \in Entries(c) /\ Entry(d, x.entry) = x
         /\ \A e \in Entries(c) : e # x.entry => Entry(d, e) = Entry(c, e)
<1>1. \A i \in DOMAIN d : f[i] \in DOMAIN c /\ d[i].entry = c[f[i]].entry
  OBVIOUS
<1>2. WellFormed(d)
  <2>1. ASSUME NEW i \in DOMAIN d
        PROVE  DOMAIN d[i] = RowFields /\ d[i].entry # None /\ d[i].users \in Int
    BY <1>1 DEF WellFormed
  <2>2. ASSUME NEW i \in DOMAIN d, NEW j \in DOMAIN d, d[i].entry = d[j].entry PROVE i = j
    BY <1>1, <2>2 DEF WellFormed
  <2> QED BY <2>1, <2>2 DEF WellFormed
<1>3. Entries(d) = Entries(c)
  BY <1>1 DEF Entries
<1>4. PICK i \in DOMAIN d : f[i] = k
  OBVIOUS
<1>5. d[i] = x
  BY <1>4
<1>6. x.entry \in Entries(c) /\ Entry(d, x.entry) = x
  BY <1>2, <1>3, <1>5, EntryAt
<1>7. ASSUME NEW e \in Entries(c), e # x.entry PROVE Entry(d, e) = Entry(c, e)
  <2>1. PICK j \in DOMAIN c : c[j].entry = e /\ Entry(c, e) = c[j]
    BY EntryIs
  <2>2. j # k
    BY <1>7, <2>1
  <2>3. PICK h \in DOMAIN d : f[h] = j
    OBVIOUS
  <2>4. d[h] = c[j]
    BY <2>2, <2>3
  <2> QED BY <1>2, <2>1, <2>4, EntryAt
<1> QED BY <1>2, <1>3, <1>6, <1>7

LEMMA AsList ==
  ASSUME NEW n \in Nat, NEW d, d = [k \in 1 .. n |-> d[k]]
  PROVE  \E R : d \in Seq(R)
<1> DEFINE R == {d[k] : k \in 1 .. n}
<1>1. d \in [1 .. n -> R]
  OBVIOUS
<1>2. d \in Seq(R)
  BY <1>1, SeqDef
<1> QED BY <1>2

(* An entry that is let go loses one of its users and nothing else, and    *)
(* stays where it is; an object that holds none lets none go.              *)
LEMMA ReleaseFacts ==
  ASSUME NEW c, WellFormed(c), NEW e
  PROVE  LET d == Release(c, e)
         IN  /\ WellFormed(d) /\ Entries(d) = Entries(c)
             /\ \A i \in Entries(c) :
                  /\ Entry(d, i).users = Entry(c, i).users - (IF i = e THEN 1 ELSE 0)
                  /\ Entry(d, i).lba = Entry(c, i).lba /\ Entry(d, i).data = Entry(c, i).data
<1> DEFINE d == Release(c, e)
           n == Len(c)
<1>1. n \in Nat /\ DOMAIN c = 1 .. n
  BY ListFacts
<1>2. DOMAIN d = 1 .. n /\ d = [k \in 1 .. n |-> d[k]]
  BY <1>1 DEF Release
<1>3. \E R : d \in Seq(R)
  <2> HIDE DEF d, n
  <2> QED BY <1>1, <1>2, AsList
<1>4. CASE e \in Entries(c)
  <2>1. PICK k \in DOMAIN c : c[k].entry = e
    BY <1>4 DEF Entries
  <2> DEFINE x == [c[k] EXCEPT !.users = @ - 1]
             f == [i \in 1 .. n |-> i]
  <2>2. DOMAIN c[k] = RowFields /\ c[k].users \in Int
    BY <2>1 DEF WellFormed
  <2>3. DOMAIN x = RowFields /\ x.entry = c[k].entry /\ x.users = c[k].users - 1
        /\ x.lba = c[k].lba /\ x.data = c[k].data
    BY <2>2 DEF RowFields
  <2>4. \A i \in DOMAIN d : d[i] = IF i = k THEN x ELSE c[i]
    BY <1>1, <1>2, <2>1 DEF Release, WellFormed
  <2>5. f \in [DOMAIN d -> DOMAIN c] /\ \A i \in DOMAIN d : f[i] = i
    BY <1>1, <1>2
  <2>6. x.users \in Int
    BY <2>2, <2>3
  <2> HIDE DEF x, f, d, n
  <2>7. \A i, j \in DOMAIN d : f[i] = f[j] => i = j
    BY <2>5
  <2>8. \A j \in DOMAIN c : \E i \in DOMAIN d : f[i] = j
    BY <1>1, <1>2, <2>5
  <2>9. \A i \in DOMAIN d : d[i] = IF f[i] = k THEN x ELSE c[f[i]]
    BY <2>4, <2>5
  <2>10. /\ WellFormed(d) /\ Entries(d) = Entries(c) /\ Entry(d, x.entry) = x
         /\ \A i \in Entries(c) : i # x.entry => Entry(d, i) = Entry(c, i)
    BY <1>3, <2>3, <2>5, <2>6, <2>7, <2>8, <2>9, RowReplaced
  <2>11. Entry(c, e) = c[k]
    BY <2>1, EntryAt
  <2>12. \A i \in Entries(c) : Entry(c, i).users \in Int
    BY EntryIs
  <2>13. x.entry = e
    BY <2>1, <2>3
  <2>14. ASSUME NEW i \in Entries(c)
         PROVE  /\ Entry(d, i).users = Entry(c, i).users - (IF i = e THEN 1 ELSE 0)
                /\ Entry(d, i).lba = Entry(c, i).lba /\ Entry(d, i).data = Entry(c, i).data
    BY <2>3, <2>10, <2>11, <2>12, <2>13
  <2> QED BY <2>10, <2>14 DEF d
<1>5. CASE e \notin Entries(c)
  <2>1. \A k \in DOMAIN c : c[k].entry # e
    BY <1>5 DEF Entries
  <2>2. d = c
    <3>1. DOMAIN c = DOMAIN d /\ \A k \in DOMAIN c : d[k] = c[k]
      BY <1>1, <1>2, <2>1 DEF Release
    <3>2. c = [k \in 1 .. n |-> c[k]]
      BY <1>1, LenProperties DEF WellFormed
    <3> QED BY <1>1, <1>2, <3>1, <3>2
  <2>3. \A i \in Entries(c) : Entry(c, i).users \in Int
    BY EntryIs
  <2>4. \A i \in Entries(c) : i # e
    BY <1>5
  <2> QED BY <2>2, <2>3, <2>4
<1> QED BY <1>4, <1>5

(* What is read into the front entry is its data from then on.             *)
LEMMA FilledFacts ==
  ASSUME NEW c, WellFormed(c), NEW e \in Entries(c), c[1].entry = e
  PROVE  LET d == Filled(c)
         IN  /\ WellFormed(d) /\ Entries(d) = Entries(c) /\ Entry(d, e).data
             /\ \A i \in Entries(c) :
                  /\ Entry(d, i).users = Entry(c, i).users /\ Entry(d, i).lba = Entry(c, i).lba
                  /\ i # e => Entry(d, i) = Entry(c, i)
<1> DEFINE d == Filled(c)
           n == Len(c)
           x == [c[1] EXCEPT !.data = TRUE]
           f == [i \in 1 .. n |-> i]
<1>1. n \in Nat /\ DOMAIN c = 1 .. n
  BY ListFacts
<1>2. 1 \in DOMAIN c
  <2>1. PICK k \in DOMAIN c : c[k].entry = e
    BY DEF Entries
  <2> QED BY <1>1, <2>1
<1>3. DOMAIN d = 1 .. n /\ d = [k \in 1 .. n |-> d[k]]
  BY <1>1 DEF Filled
<1>4. DOMAIN c[1] = RowFields /\ c[1].users \in Int
  BY <1>2 DEF WellFormed
<1>5. /\ DOMAIN x = RowFields /\ x.entry = c[1].entry /\ x.users = c[1].users
      /\ x.lba = c[1].lba /\ x.data = TRUE
  BY <1>4 DEF RowFields
<1>6. \A i \in DOMAIN d : d[i] = IF i = 1 THEN x ELSE c[i]
  BY <1>1, <1>3 DEF Filled
<1>7. f \in [DOMAIN d -> DOMAIN c] /\ \A i \in DOMAIN d : f[i] = i
  BY <1>1, <1>3
<1>8. x.users \in Int
  BY <1>4, <1>5
<1>9. Entry(c, e) = c[1]
  BY <1>2, EntryAt
<1> HIDE DEF d, n, x, f
<1>10. \E R : d \in Seq(R)
  BY <1>1, <1>3, AsList
<1>11. \A i, j \in DOMAIN d : f[i] = f[j] => i = j
  BY <1>7
<1>12. \A j \in DOMAIN c : \E i \in DOMAIN d : f[i] = j
  BY <1>1, <1>3, <1>7
<1>13. \A i \in DOMAIN d : d[i] = IF f[i] = 1 THEN x ELSE c[f[i]]
  BY <1>6, <1>7
<1>14. /\ WellFormed(d) /\ Entries(d) = Entries(c) /\ Entry(d, x.entry) = x
       /\ \A i \in Entries(c) : i # x.entry => Entry(d, i) = Entry(c, i)
  BY <1>2, <1>5, <1>7, <1>8, <1>10, <1>11, <1>12, <1>13, RowReplaced
<1>15. x.entry = e
  BY <1>5
<1>16. Entry(d, e).data
  BY <1>5, <1>14, <1>15
<1>17. ASSUME NEW i \in Entries(c)
       PROVE  /\ Entry(d, i).users = Entry(c, i).users /\ Entry(d, i).lba = Entry(c, i).lba
              /\ i # e => Entry(d, i) = Entry(c, i)
  BY <1>5, <1>9, <1>14, <1>15
<1> QED BY <1>14, <1>16, <1>17 DEF d

(* Moving the row of an entry to the front changes no other.               *)
LEMMA FrontFacts ==
  ASSUME NEW c, WellFormed(c), NEW k \in DOMAIN c, NEW x,
         DOMAIN x = RowFields, x.entry = c[k].entry, x.users \in Int
  PROVE  LET d == ToFront(c, k, x)
         IN  /\ WellFormed(d) /\ Entries(d) = Entries(c) /\ d[1] = x
             /\ x.entry \in Entries(c) /\ Entry(d, x.entry) = x
             /\ \A i \in Entries(c) : i # x.entry => Entry(d, i) = Entry(c, i)
<1> DEFINE n == Len(c)
           front == SubSeq(c, 1, k - 1)
           back == SubSeq(c, k + 1, n)
           rest == front \o back
           d == <<x>> \o rest
           f == [i \in 1 .. n |-> IF i = 1 THEN k ELSE IF i <= k THEN i - 1 ELSE i]
<1>1. n \in Nat /\ DOMAIN c = 1 .. n
  BY ListFacts
<1>2. PICK R : c \in Seq(R)
  BY DEF WellFormed
<1>3. /\ front \in Seq(R) /\ Len(front) = k - 1 /\ \A i \in 1 .. k - 1 : front[i] = c[i]
      /\ back \in Seq(R) /\ Len(back) = n - k /\ \A i \in 1 .. n - k : back[i] = c[k + i]
  BY <1>1, <1>2, SMTT(30)
<1> HIDE DEF front, back
<1>4. /\ rest \in Seq(R) /\ Len(rest) = n - 1
      /\ \A i \in 1 .. n - 1 : rest[i] = IF i < k THEN c[i] ELSE c[i + 1]
  <2>1. /\ rest \in Seq(R) /\ Len(rest) = Len(front) + Len(back)
        /\ \A i \in 1 .. Len(front) + Len(back) :
             rest[i] = IF i <= Len(front) THEN front[i] ELSE back[i - Len(front)]
    BY <1>3, ConcatProperties
  <2> HIDE DEF rest
  <2>2. k \in 1 .. n
    BY <1>1
  <2>3. Len(rest) = n - 1 /\ Len(front) + Len(back) = n - 1
    BY <1>1, <1>3, <2>1, <2>2
  <2>4. ASSUME NEW i \in 1 .. n - 1 PROVE rest[i] = IF i < k THEN c[i] ELSE c[i + 1]
    <3>1. rest[i] = IF i <= Len(front) THEN front[i] ELSE back[i - Len(front)]
      BY <2>1, <2>3
    <3>2. CASE i < k
      <4>1. i \in 1 .. k - 1 /\ i <= Len(front)
        BY <1>1, <1>3, <2>2, <3>2
      <4> QED BY <1>3, <3>1, <3>2, <4>1
    <3>3. CASE i >= k
      <4>1. i - Len(front) \in 1 .. n - k /\ ~(i <= Len(front)) /\ k + (i - Len(front)) = i + 1
            /\ ~(i < k)
        BY <1>1, <1>3, <2>2, <3>3
      <4> QED BY <1>3, <3>1, <4>1
    <3> QED BY <1>1, <2>2, <3>2, <3>3
  <2> QED BY <2>1, <2>3, <2>4
<1>5. ToFront(c, k, x) = d
  BY DEF ToFront, RemoveAt, d, rest, front, back
<1> HIDE DEF rest
<1> DEFINE Q == R \union {x}
<1>6. rest \in Seq(Q) /\ <<x>> \in Seq(Q)
  <2>1. R \subseteq Q
    OBVIOUS
  <2>2. rest \in Seq(Q)
    <3> HIDE DEF Q
    <3> QED BY <1>4, <2>1, SeqDef
  <2>3. x \in Q
    OBVIOUS
  <2> QED BY <2>2, <2>3
<1>7. d \in Seq(Q) /\ Len(d) = n /\ d[1] = x /\ \A i \in 2 .. n : d[i] = rest[i - 1]
  <2> DEFINE one == <<x>>
  <2>1. one \in Seq(Q) /\ Len(one) = 1 /\ one[1] = x
    BY <1>6
  <2> HIDE DEF Q, one
  <2>2. /\ one \o rest \in Seq(Q) /\ Len(one \o rest) = Len(one) + Len(rest)
        /\ \A i \in 1 .. Len(one) + Len(rest) :
             (one \o rest)[i] = IF i <= Len(one) THEN one[i] ELSE rest[i - Len(one)]
    BY <1>6, <2>1, ConcatProperties
  <2>3. d = one \o rest
    BY DEF one
  <2>4. k \in 1 .. n
    BY <1>1
  <2> HIDE DEF d
  <2>5. Len(one) + Len(rest) = n /\ n >= 1
    BY <1>1, <1>4, <2>1, <2>4
  <2>6. d \in Seq(Q) /\ Len(d) = n
    BY <2>2, <2>3, <2>5
  <2>7. \A i \in 1 .. n : d[i] = IF i <= 1 THEN one[i] ELSE rest[i - 1]
    <3> SUFFICES ASSUME NEW i \in 1 .. n PROVE d[i] = IF i <= 1 THEN one[i] ELSE rest[i - 1]
      OBVIOUS
    <3>1. d[i] = IF i <= Len(one) THEN one[i] ELSE rest[i - Len(one)]
      BY <2>2, <2>3, <2>5
    <3> QED BY <2>1, <3>1
  <2>8. d[1] = x
    BY <1>1, <2>1, <2>5, <2>7
  <2>9. ASSUME NEW i \in 2 .. n PROVE d[i] = rest[i - 1]
    <3>1. i \in 1 .. n /\ ~(i <= 1)
      BY <1>1
    <3> QED BY <2>7, <3>1
  <2> QED BY <2>6, <2>8, <2>9
<1> HIDE DEF d, Q
<1>8. DOMAIN d = 1 .. n
  BY <1>7
<1>9. \A i \in 2 .. n : d[i] = IF i <= k THEN c[i - 1] ELSE c[i]
  <2> SUFFICES ASSUME NEW i \in 2 .. n PROVE d[i] = IF i <= k THEN c[i - 1] ELSE c[i]
    OBVIOUS
  <2>1. i - 1 \in 1 .. n - 1 /\ d[i] = rest[i - 1] /\ (i - 1) + 1 = i
    BY <1>1, <1>7
  <2>2. rest[i - 1] = IF i - 1 < k THEN c[i - 1] ELSE c[(i - 1) + 1]
    BY <1>4, <2>1
  <2> QED BY <1>1, <2>1, <2>2
<1>10. /\ f \in [DOMAIN d -> DOMAIN c]
       /\ \A i \in DOMAIN d : f[i] = IF i = 1 THEN k ELSE IF i <= k THEN i - 1 ELSE i
  BY <1>1, <1>8
<1> HIDE DEF f
<1>11. \A i, j \in DOMAIN d : f[i] = f[j] => i = j
  BY <1>1, <1>8, <1>10
<1>12. \A j \in DOMAIN c : \E i \in DOMAIN d : f[i] = j
  <2> SUFFICES ASSUME NEW j \in DOMAIN c PROVE \E i \in DOMAIN d : f[i] = j
    OBVIOUS
  <2> DEFINE i == IF j = k THEN 1 ELSE IF j < k THEN j + 1 ELSE j
  <2>1. i \in DOMAIN d /\ f[i] = j
    BY <1>1, <1>8, <1>10
  <2> QED BY <2>1
<1>13. \A i \in DOMAIN d : d[i] = IF f[i] = k THEN x ELSE c[f[i]]
  BY <1>1, <1>7, <1>8, <1>9, <1>10
<1>14. \E S : d \in Seq(S)
  BY <1>7
<1>15. /\ WellFormed(d) /\ Entries(d) = Entries(c)
       /\ x.entry \in Entries(c) /\ Entry(d, x.entry) = x
       /\ \A e \in Entries(c) : e # x.entry => Entry(d, e) = Entry(c, e)
  BY <1>10, <1>11, <1>12, <1>13, <1>14, RowReplaced
<1> QED BY <1>5, <1>7, <1>15

(* What get does: the entry it gives is at the front and of the sector. It *)
(* was of that sector before, or nobody used it and no entry was.          *)
Gotten(c, d, e, lba) ==
  /\ WellFormed(d) /\ Entries(d) = Entries(c)
  /\ \A i \in Entries(c) : i # e => Entry(d, i) = Entry(c, i)
  /\ \/ e = None /\ d = c
     \/ /\ e \in Entries(c) /\ d[1].entry = e /\ Entry(d, e).lba = lba
        /\ \/ /\ Entry(c, e).lba = lba
              /\ Entry(d, e).users = Entry(c, e).users + 1
              /\ Entry(d, e).data = Entry(c, e).data
           \/ /\ Entry(c, e).users = 0 /\ Entry(d, e).users = 1
              /\ Entry(d, e).data = FALSE
              /\ \A i \in Entries(c) : Entry(c, i).lba # lba

LEMMA GetFacts ==
  ASSUME NEW c, WellFormed(c), NEW lba, NEW allocate \in BOOLEAN
  PROVE  Gotten(c, Get(c, lba, allocate).cache, Get(c, lba, allocate).item, lba)
<1> DEFINE got == Get(c, lba, allocate)
<1>1. Len(c) \in Nat /\ DOMAIN c = 1 .. Len(c)
  BY ListFacts
<1>2. \A k \in DOMAIN c : DOMAIN c[k] = RowFields /\ c[k].users \in Int
  BY DEF WellFormed
<1>3. CASE Placed(c, lba) # {}
  <2> DEFINE k == Min(Placed(c, lba))
             x == [c[k] EXCEPT !.users = @ + 1]
  <2>1. k \in DOMAIN c /\ c[k].lba = lba
    <3>1. Placed(c, lba) \subseteq 1 .. Len(c)
      BY <1>1 DEF Placed
    <3>2. k \in Placed(c, lba)
      BY <1>1, <1>3, <3>1, MinMaxIn
    <3> QED BY <3>2 DEF Placed
  <2>2. got.cache = ToFront(c, k, x) /\ got.item = c[k].entry
    BY <1>3 DEF Get
  <2> HIDE DEF k, got
  <2>3. /\ DOMAIN x = RowFields /\ x.entry = c[k].entry /\ x.users = c[k].users + 1
        /\ x.lba = lba /\ x.data = c[k].data /\ x.users \in Int
    BY <1>2, <2>1 DEF RowFields
  <2> HIDE DEF x
  <2>4. /\ WellFormed(got.cache) /\ Entries(got.cache) = Entries(c) /\ got.cache[1] = x
        /\ x.entry \in Entries(c) /\ Entry(got.cache, x.entry) = x
        /\ \A i \in Entries(c) : i # x.entry => Entry(got.cache, i) = Entry(c, i)
    BY <2>1, <2>2, <2>3, FrontFacts
  <2>5. Entry(c, x.entry) = c[k]
    BY <2>1, <2>3, EntryAt
  <2> QED BY <2>1, <2>2, <2>3, <2>4, <2>5 DEF Gotten, got
<1>4. CASE Placed(c, lba) = {} /\ allocate /\ Unused(c) # {}
  <2> DEFINE k == Max(Unused(c))
             x == [c[k] EXCEPT !.users = 1, !.lba = lba, !.data = FALSE]
  <2>1. k \in DOMAIN c /\ c[k].users = 0
    <3>1. Unused(c) \subseteq 1 .. Len(c)
      BY <1>1 DEF Unused
    <3>2. k \in Unused(c)
      BY <1>1, <1>4, <3>1, MinMaxIn
    <3> QED BY <3>2 DEF Unused
  <2>2. got.cache = ToFront(c, k, x) /\ got.item = c[k].entry
    BY <1>4 DEF Get
  <2> HIDE DEF k, got
  <2>3. /\ DOMAIN x = RowFields /\ x.entry = c[k].entry /\ x.users = 1
        /\ x.lba = lba /\ x.data = FALSE /\ x.users \in Int
    BY <1>2, <2>1 DEF RowFields
  <2> HIDE DEF x
  <2>4. /\ WellFormed(got.cache) /\ Entries(got.cache) = Entries(c) /\ got.cache[1] = x
        /\ x.entry \in Entries(c) /\ Entry(got.cache, x.entry) = x
        /\ \A i \in Entries(c) : i # x.entry => Entry(got.cache, i) = Entry(c, i)
    BY <2>1, <2>2, <2>3, FrontFacts
  <2>5. Entry(c, x.entry) = c[k]
    BY <2>1, <2>3, EntryAt
  <2>6. ASSUME NEW i \in Entries(c) PROVE Entry(c, i).lba # lba
    <3>1. PICK j \in DOMAIN c : c[j].entry = i /\ Entry(c, i) = c[j]
      BY EntryIs
    <3> QED BY <1>4, <3>1 DEF Placed
  <2> QED BY <2>1, <2>2, <2>3, <2>4, <2>5, <2>6 DEF Gotten, got
<1>5. CASE Placed(c, lba) = {} /\ ~(allocate /\ Unused(c) # {})
  <2>1. got = [cache |-> c, item |-> None]
    BY <1>5 DEF Get
  <2> QED BY <2>1 DEF Gotten
<1> QED BY <1>3, <1>4, <1>5

(* No two entries have one sector. *)
Alone(c) ==
  \A i, j \in Entries(c) :
    Entry(c, i).lba = Entry(c, j).lba /\ Entry(c, i).lba # NoSector => i = j

(* The list d is the list c with one more user of entry e, or of none; the *)
(* entries somebody uses are of the same sectors.                          *)
Kept(c, d, e, lba) ==
  /\ WellFormed(d) /\ Entries(d) = Entries(c) /\ Alone(d)
  /\ \A i \in Entries(c) :
       /\ Entry(d, i).users = Entry(c, i).users + (IF i = e THEN 1 ELSE 0)
       /\ Entry(c, i).users # 0 /\ Entry(c, i).data
          => Entry(d, i).lba = Entry(c, i).lba /\ Entry(d, i).data
  /\ e # None => e \in Entries(c) /\ Entry(d, e).lba = lba /\ Entry(d, e).data

(* SDCache::read, whether it finds the sector, reads it or fails.          *)
LEMMA ReadKeeps ==
  ASSUME NEW c, WellFormed(c), Alone(c), NEW lba, NEW allocate \in BOOLEAN
  PROVE  LET d == Get(c, lba, allocate).cache
             e == Get(c, lba, allocate).item
             hit == e # None /\ Entry(d, e).data
         IN  /\ hit => Kept(c, d, e, lba)
             /\ ~hit /\ e # None => Kept(c, Filled(d), e, lba)
             /\ ~hit => Kept(c, Release(d, e), None, lba)
<1> DEFINE d == Get(c, lba, allocate).cache
           e == Get(c, lba, allocate).item
           hit == e # None /\ Entry(d, e).data
<1>1. Gotten(c, d, e, lba)
  BY GetFacts
<1>2. \A i \in Entries(c) : Entry(c, i).users \in Int /\ i # None
  BY EntryIs
<1> HIDE DEF d, e
<1>3. Alone(d)
  <2> SUFFICES ASSUME NEW i \in Entries(c), NEW j \in Entries(c),
                      Entry(d, i).lba = Entry(d, j).lba, Entry(d, i).lba # NoSector
               PROVE  i = j
    BY <1>1 DEF Alone, Gotten
  <2>1. \A k \in Entries(c) : k # e => Entry(d, k).lba = Entry(c, k).lba
    BY <1>1 DEF Gotten
  <2> QED BY <1>1, <2>1 DEF Alone, Gotten
<1>4. ASSUME hit PROVE Kept(c, d, e, lba)
  <2>1. e \in Entries(c) /\ Entry(d, e).lba = lba /\ Entry(d, e).users = Entry(c, e).users + 1
        /\ Entry(d, e).data /\ Entry(c, e).lba = lba
    BY <1>1, <1>4 DEF Gotten
  <2>2. ASSUME NEW i \in Entries(c)
        PROVE  /\ Entry(d, i).users = Entry(c, i).users + (IF i = e THEN 1 ELSE 0)
               /\ Entry(c, i).users # 0 /\ Entry(c, i).data
                  => Entry(d, i).lba = Entry(c, i).lba /\ Entry(d, i).data
    <3>1. CASE i = e
      BY <2>1, <3>1
    <3>2. CASE i # e
      BY <1>1, <1>2, <3>2 DEF Gotten
    <3> QED BY <3>1, <3>2
  <2> QED BY <1>1, <1>3, <2>1, <2>2 DEF Kept, Gotten
<1>5. ASSUME ~hit, e # None PROVE Kept(c, Filled(d), e, lba)
  <2> DEFINE g == Filled(d)
  <2>1. e \in Entries(d) /\ d[1].entry = e /\ Entry(d, e).lba = lba
    BY <1>1, <1>5 DEF Gotten
  <2>2. /\ WellFormed(g) /\ Entries(g) = Entries(d) /\ Entry(g, e).data
        /\ \A i \in Entries(d) :
             /\ Entry(g, i).users = Entry(d, i).users /\ Entry(g, i).lba = Entry(d, i).lba
             /\ i # e => Entry(g, i) = Entry(d, i)
    BY <1>1, <2>1, FilledFacts DEF Gotten
  <2> HIDE DEF g
  <2>3. Alone(g)
    BY <1>3, <2>2 DEF Alone
  <2>4. /\ Entry(d, e).users = Entry(c, e).users + 1
        /\ Entry(c, e).users = 0 \/ Entry(c, e).lba = lba
    BY <1>1, <1>5 DEF Gotten
  <2>5. ASSUME NEW i \in Entries(c)
        PROVE  /\ Entry(g, i).users = Entry(c, i).users + (IF i = e THEN 1 ELSE 0)
               /\ Entry(c, i).users # 0 /\ Entry(c, i).data
                  => Entry(g, i).lba = Entry(c, i).lba /\ Entry(g, i).data
    <3>1. CASE i = e
      BY <1>1, <2>1, <2>2, <2>4, <3>1 DEF Gotten
    <3>2. CASE i # e
      BY <1>1, <1>2, <2>2, <3>2 DEF Gotten
    <3> QED BY <3>1, <3>2
  <2> QED BY <1>1, <2>1, <2>2, <2>3, <2>5 DEF Kept, g, Gotten
<1>6. ASSUME ~hit PROVE Kept(c, Release(d, e), None, lba)
  <2> DEFINE g == Release(d, e)
  <2>1. /\ WellFormed(g) /\ Entries(g) = Entries(d)
        /\ \A i \in Entries(d) :
             /\ Entry(g, i).users = Entry(d, i).users - (IF i = e THEN 1 ELSE 0)
             /\ Entry(g, i).lba = Entry(d, i).lba /\ Entry(g, i).data = Entry(d, i).data
    BY <1>1, ReleaseFacts DEF Gotten
  <2> HIDE DEF g
  <2>2. Alone(g)
    BY <1>3, <2>1 DEF Alone
  <2>3. ASSUME NEW i \in Entries(c)
        PROVE  /\ Entry(g, i).users = Entry(c, i).users + (IF i = None THEN 1 ELSE 0)
               /\ Entry(c, i).users # 0 /\ Entry(c, i).data
                  => Entry(g, i).lba = Entry(c, i).lba /\ Entry(g, i).data
    <3>1. CASE i = e
      <4>1. e # None /\ ~Entry(d, e).data
        BY <1>2, <1>6, <3>1
      <4>2. Entry(d, e).users = Entry(c, e).users + 1 /\ (Entry(c, e).users = 0 \/ ~Entry(c, e).data)
        BY <1>1, <4>1 DEF Gotten
      <4> QED BY <1>1, <1>2, <2>1, <3>1, <4>2 DEF Gotten
    <3>2. CASE i # e
      BY <1>1, <1>2, <2>1, <3>2 DEF Gotten
    <3> QED BY <3>1, <3>2
  <2> QED BY <1>1, <2>1, <2>2, <2>3 DEF Kept, g, Gotten
<1> QED BY <1>4, <1>5, <1>6 DEF d, e
-----------------------------------------------------------------------------
TaskFields == DOMAIN Idle
FileFields == {"offset", "current", "spoiled"}

(* The steps at which a thread has no SDCache object. *)
Free == {"idle", "sector", "link", "return"}

Holders(e) == {t \in Thread : task[t].item = e}

Shapes ==
  /\ DOMAIN task = Thread /\ DOMAIN file = Thread
  /\ \A t \in Thread : DOMAIN task[t] = TaskFields /\ DOMAIN file[t] = FileFields

Counted == \A e \in Entries(cache) : Entry(cache, e).users = Cardinality(Holders(e))

(* What a thread knows of the entry it holds. *)
Knows(t) ==
  /\ task[t].item # None => task[t].item \in Entries(cache) /\ Entry(cache, task[t].item).data
  /\ task[t].at \in Free => task[t].item = None
  /\ task[t].at = "copy" => Sector(t) = task[t].lba
  /\ task[t].at = "linked" => task[t].item # None /\ Sector(t) = FatSector(file[t].current)

Held == Shapes /\ WellFormed(cache) /\ Alone(cache) /\ Counted /\ \A t \in Thread : Knows(t)

(* A step of one thread, if what it holds afterwards is counted and known, *)
(* takes nothing from the others.                                          *)
LEMMA StepHolds ==
  ASSUME Held, NEW t \in Thread, sd' = sd,
         DOMAIN task' = Thread, DOMAIN file' = Thread,
         DOMAIN task'[t] = TaskFields, DOMAIN file'[t] = FileFields,
         \A u \in Thread \ {t} : task'[u] = task[u] /\ file'[u] = file[u],
         WellFormed(cache'), Entries(cache') = Entries(cache), Alone(cache'),
         \A e \in Entries(cache) :
           /\ Entry(cache', e).users = Entry(cache, e).users
                + (IF e = task'[t].item /\ e # task[t].item THEN 1 ELSE 0)
                - (IF e # task'[t].item /\ e = task[t].item THEN 1 ELSE 0)
           /\ Entry(cache, e).users # 0 /\ Entry(cache, e).data
              => Entry(cache', e).lba = Entry(cache, e).lba /\ Entry(cache', e).data,
         Knows(t)'
  PROVE  Held'
<1>1. Shapes'
  BY DEF Held, Shapes
<1>2. IsFiniteSet(Thread)
  BY ThreadAssumption
<1>3. \A e : IsFiniteSet(Holders(e)) /\ Cardinality(Holders(e)) \in Nat
  BY <1>2, FS_Subset, FS_CardinalityType DEF Holders
<1>4. Counted'
  <2> SUFFICES ASSUME NEW e \in Entries(cache)
               PROVE  Entry(cache', e).users = Cardinality(Holders(e)')
    BY DEF Counted
  <2>1. Entry(cache, e).users = Cardinality(Holders(e)) /\ Cardinality(Holders(e)) \in Nat
    BY <1>3 DEF Held, Counted
  <2>2. \A u \in Thread \ {t} : u \in Holders(e)' <=> u \in Holders(e)
    BY DEF Holders
  <2>3. Holders(e) \subseteq Thread /\ Holders(e)' \subseteq Thread
    BY DEF Holders
  <2>4. (t \in Holders(e) <=> task[t].item = e) /\ (t \in Holders(e)' <=> task'[t].item = e)
    BY DEF Holders
  <2>5. CASE e = task'[t].item /\ e # task[t].item
    <3>1. Holders(e)' = Holders(e) \union {t}
      BY <2>2, <2>3, <2>4, <2>5
    <3>2. Cardinality(Holders(e) \union {t}) = Cardinality(Holders(e)) + 1
      BY <1>3, <2>4, <2>5, FS_AddElement
    <3> QED BY <2>1, <2>5, <3>1, <3>2
  <2>6. CASE e # task'[t].item /\ e = task[t].item
    <3>1. Holders(e)' = Holders(e) \ {t}
      BY <2>2, <2>3, <2>4, <2>6
    <3>2. Cardinality(Holders(e) \ {t}) = Cardinality(Holders(e)) - 1
      BY <1>3, <2>4, <2>6, FS_RemoveElement
    <3> QED BY <2>1, <2>6, <3>1, <3>2
  <2>7. CASE (e = task'[t].item) = (e = task[t].item)
    <3>1. Holders(e)' = Holders(e)
      BY <2>2, <2>3, <2>4, <2>7
    <3> QED BY <2>1, <2>7, <3>1
  <2> QED BY <2>5, <2>6, <2>7
<1>5. ASSUME NEW u \in Thread, u # t PROVE Knows(u)'
  <2>1. task'[u] = task[u] /\ file'[u] = file[u] /\ Knows(u)
    BY <1>5 DEF Held
  <2>2. task[u].item # None => Entry(cache', task[u].item).lba = Entry(cache, task[u].item).lba
                               /\ Entry(cache', task[u].item).data
    <3> SUFFICES ASSUME task[u].item # None
                 PROVE  Entry(cache', task[u].item).lba = Entry(cache, task[u].item).lba
                        /\ Entry(cache', task[u].item).data
      OBVIOUS
    <3> DEFINE e == task[u].item
    <3>1. e \in Entries(cache) /\ Entry(cache, e).data
      BY <2>1 DEF Knows
    <3>2. u \in Holders(e)
      BY DEF Holders
    <3>3. Cardinality(Holders(e)) # 0
      BY <1>3, <3>2, FS_EmptySet
    <3>4. Entry(cache, e).users # 0
      BY <3>1, <3>3 DEF Held, Counted
    <3> QED BY <3>1, <3>4
  <2>3. Sector(u)' = Sector(u) /\ FatSector(file[u].current)' = FatSector(file[u].current)
    BY <2>1, <2>2 DEF Sector, FatSector
  <2>4. task'[u].item # None => task'[u].item \in Entries(cache')
    BY <2>1 DEF Knows
  <2> QED BY <2>1, <2>2, <2>3, <2>4 DEF Knows
<1>6. \A u \in Thread : Knows(u)'
  BY <1>5
<1> QED BY <1>1, <1>4, <1>6 DEF Held

(* The steps that leave the cache alone. *)
LEMMA QuietHolds ==
  ASSUME Held, NEW t \in Thread, sd' = sd, cache' = cache,
         DOMAIN task' = Thread, DOMAIN file' = Thread,
         DOMAIN task'[t] = TaskFields, DOMAIN file'[t] = FileFields,
         \A u \in Thread \ {t} : task'[u] = task[u] /\ file'[u] = file[u],
         task'[t].item = task[t].item, Knows(t)'
  PROVE  Held'
<1>1. WellFormed(cache) /\ Alone(cache)
  BY DEF Held
<1>2. ASSUME NEW e \in Entries(cache)
      PROVE  Entry(cache', e).users = Entry(cache, e).users
                + (IF e = task'[t].item /\ e # task[t].item THEN 1 ELSE 0)
                - (IF e # task'[t].item /\ e = task[t].item THEN 1 ELSE 0)
  <2>1. Entry(cache, e).users \in Int
    BY <1>1, EntryIs
  <2> QED BY <2>1
<1> QED BY <1>1, <1>2, StepHolds

(* The steps at which the SDCache object goes out of scope. *)
LEMMA LetGoHolds ==
  ASSUME Held, NEW t \in Thread, sd' = sd, cache' = Release(cache, task[t].item),
         DOMAIN task' = Thread, DOMAIN file' = Thread,
         DOMAIN task'[t] = TaskFields, DOMAIN file'[t] = FileFields,
         \A u \in Thread \ {t} : task'[u] = task[u] /\ file'[u] = file[u],
         task'[t].item = None, task'[t].at \notin {"copy", "linked"}
  PROVE  Held'
<1>1. WellFormed(cache) /\ Alone(cache)
  BY DEF Held
<1>2. /\ WellFormed(cache') /\ Entries(cache') = Entries(cache)
      /\ \A i \in Entries(cache) :
           /\ Entry(cache', i).users
                = Entry(cache, i).users - (IF i = task[t].item THEN 1 ELSE 0)
           /\ Entry(cache', i).lba = Entry(cache, i).lba
           /\ Entry(cache', i).data = Entry(cache, i).data
  BY <1>1, ReleaseFacts
<1>3. Alone(cache')
  BY <1>1, <1>2 DEF Alone
<1>4. ASSUME NEW e \in Entries(cache)
      PROVE  Entry(cache', e).users = Entry(cache, e).users
                + (IF e = task'[t].item /\ e # task[t].item THEN 1 ELSE 0)
                - (IF e # task'[t].item /\ e = task[t].item THEN 1 ELSE 0)
  <2>1. Entry(cache, e).users \in Int /\ e # None
    BY <1>1, EntryIs
  <2> QED BY <1>2, <2>1
<1>5. Knows(t)'
  BY DEF Knows
<1> QED BY <1>2, <1>3, <1>4, <1>5, StepHolds

(* SDCache::read by a thread that has no object yet. *)
LEMMA FetchHolds ==
  ASSUME Held, NEW t \in Thread, task[t].item = None, NEW lba, NEW allocate \in BOOLEAN, NEW at,
         Fetch(t, lba, allocate, at),
         \/ at = "copy" /\ lba = task[t].lba
         \/ at = "linked" /\ allocate /\ lba = FatSector(file[t].current)
  PROVE  Held'
<1> DEFINE d == Get(cache, lba, allocate).cache
           e == Get(cache, lba, allocate).item
           hit == e # None /\ Entry(d, e).data
<1>1. WellFormed(cache) /\ Alone(cache)
  BY DEF Held
<1>2. /\ hit => Kept(cache, d, e, lba)
      /\ ~hit /\ e # None => Kept(cache, Filled(d), e, lba)
      /\ ~hit => Kept(cache, Release(d, e), None, lba)
  BY <1>1, ReadKeeps
<1>3. /\ DOMAIN task = Thread /\ DOMAIN file = Thread
      /\ DOMAIN task[t] = TaskFields /\ DOMAIN file[t] = FileFields
  BY DEF Held, Shapes
<1>4. TaskFields = {"at", "for", "from", "want", "got", "lba", "item", "count", "save", "ended"}
  BY DEF TaskFields, Idle
<1>5. /\ sd' = sd
      /\ \/ /\ e # None \/ ~allocate
            /\ cache' = IF hit THEN d ELSE IF allocate THEN Filled(d) ELSE Release(d, e)
            /\ Set(t, [task[t] EXCEPT !.at = at, !.item = IF hit \/ allocate THEN e ELSE None])
            /\ file' = file
         \/ /\ ~hit
            /\ cache' = Release(d, e)
            /\ Set(t, [task[t] EXCEPT !.at = "return", !.ended = "no sector"])
            /\ file' = [file EXCEPT ![t].spoiled = @ \/ (at = "linked" /\ task[t].for = "read"),
                                    ![t].current = IF task[t].for = "seek" THEN task[t].save ELSE @]
  BY Zenon DEF Fetch
<1> HIDE DEF d, e
<1>6. ASSUME Kept(cache, cache', task'[t].item, lba), sd' = sd,
             DOMAIN task' = Thread, DOMAIN file' = Thread,
             DOMAIN task'[t] = TaskFields, DOMAIN file'[t] = FileFields,
             \A u \in Thread \ {t} : task'[u] = task[u] /\ file'[u] = file[u],
             Knows(t)'
      PROVE  Held'
  <2>1. /\ WellFormed(cache') /\ Entries(cache') = Entries(cache) /\ Alone(cache')
        /\ \A i \in Entries(cache) :
             /\ Entry(cache', i).users
                  = Entry(cache, i).users + (IF i = task'[t].item THEN 1 ELSE 0)
             /\ Entry(cache, i).users # 0 /\ Entry(cache, i).data
                => Entry(cache', i).lba = Entry(cache, i).lba /\ Entry(cache', i).data
    BY <1>6 DEF Kept
  <2>2. ASSUME NEW i \in Entries(cache)
        PROVE  Entry(cache', i).users = Entry(cache, i).users
                  + (IF i = task'[t].item /\ i # task[t].item THEN 1 ELSE 0)
                  - (IF i # task'[t].item /\ i = task[t].item THEN 1 ELSE 0)
    <3>1. Entry(cache, i).users \in Int /\ i # None
      BY <1>1, EntryIs
    <3> QED BY <2>1, <3>1
  <2> QED BY <1>6, <2>1, <2>2, StepHolds
<1>7. ASSUME NEW x, NEW c, cache' = c, Kept(cache, c, x, lba), x # None \/ at = "copy",
             Set(t, [task[t] EXCEPT !.at = at, !.item = x]), sd' = sd, file' = file
      PROVE  Held'
  <2>1. /\ DOMAIN task' = Thread /\ \A u \in Thread \ {t} : task'[u] = task[u]
        /\ DOMAIN task'[t] = TaskFields /\ task'[t].at = at /\ task'[t].item = x
        /\ task'[t].lba = task[t].lba
    BY <1>3, <1>4, <1>7 DEF Set
  <2>2. x # None => x \in Entries(cache') /\ Entry(cache', x).lba = lba /\ Entry(cache', x).data
    BY <1>7 DEF Kept
  <2>3. FatSector(file[t].current)' = FatSector(file[t].current)
    BY <1>7 DEF FatSector
  <2>4. Knows(t)'
    BY <1>7, <2>1, <2>2, <2>3 DEF Knows, Sector, Free
  <2> QED BY <1>3, <1>6, <1>7, <2>1, <2>4
<1>8. CASE hit /\ cache' = d /\ file' = file
           /\ Set(t, [task[t] EXCEPT !.at = at, !.item = IF hit \/ allocate THEN e ELSE None])
  <2>1. e # None /\ (IF hit \/ allocate THEN e ELSE None) = e
    BY <1>8
  <2> QED BY <1>2, <1>5, <1>7, <1>8, <2>1
<1>9. CASE ~hit /\ allocate /\ e # None /\ cache' = Filled(d) /\ file' = file
           /\ Set(t, [task[t] EXCEPT !.at = at, !.item = IF hit \/ allocate THEN e ELSE None])
  <2>1. (IF hit \/ allocate THEN e ELSE None) = e
    BY <1>9
  <2> QED BY <1>2, <1>5, <1>7, <1>9, <2>1
<1>10. CASE ~hit /\ ~allocate /\ cache' = Release(d, e) /\ file' = file
            /\ Set(t, [task[t] EXCEPT !.at = at, !.item = IF hit \/ allocate THEN e ELSE None])
  <2>1. (IF hit \/ allocate THEN e ELSE None) = None /\ at = "copy"
    BY <1>10
  <2> QED BY <1>2, <1>5, <1>7, <1>10, <2>1
<1>11. CASE /\ ~hit
            /\ cache' = Release(d, e)
            /\ Set(t, [task[t] EXCEPT !.at = "return", !.ended = "no sector"])
            /\ file' = [file EXCEPT ![t].spoiled = @ \/ (at = "linked" /\ task[t].for = "read"),
                                    ![t].current = IF task[t].for = "seek" THEN task[t].save ELSE @]
  <2>1. /\ DOMAIN task' = Thread /\ \A u \in Thread \ {t} : task'[u] = task[u]
        /\ DOMAIN task'[t] = TaskFields /\ task'[t].at = "return" /\ task'[t].item = None
    BY <1>3, <1>4, <1>11 DEF Set
  <2>2. /\ DOMAIN file' = Thread /\ \A u \in Thread \ {t} : file'[u] = file[u]
        /\ DOMAIN file'[t] = FileFields
    BY <1>3, <1>11
  <2>3. Knows(t)'
    BY <2>1 DEF Knows
  <2>4. Kept(cache, cache', task'[t].item, lba)
    BY <1>2, <1>11, <2>1
  <2> QED BY <1>5, <1>6, <2>1, <2>2, <2>3, <2>4
<1> QED BY <1>5, <1>8, <1>9, <1>10, <1>11

LEMMA InitHolds == Init => Held
<1> SUFFICES ASSUME Init PROVE Held
  OBVIOUS
<1>1. PICK n \in CacheSizes : cache = EmptyCache(n)
  BY DEF Init
<1>2. n \in Nat
  BY ThreadAssumption
<1>3. /\ DOMAIN cache = 1 .. n
      /\ \A k \in 1 .. n : cache[k] = [entry |-> k, lba |-> NoSector, users |-> 0, data |-> FALSE]
      /\ cache = [k \in 1 .. n |-> cache[k]]
  BY <1>1 DEF EmptyCache
<1>4. WellFormed(cache)
  <2>1. \E R : cache \in Seq(R)
    BY <1>2, <1>3, AsList
  <2>2. \A k \in DOMAIN cache : /\ DOMAIN cache[k] = RowFields /\ cache[k].entry = k
                                /\ cache[k].users = 0 /\ cache[k].lba = NoSector
    BY <1>3 DEF RowFields
  <2> QED BY <1>2, <1>3, <2>1, <2>2 DEF WellFormed, None
<1>5. \A e \in Entries(cache) : Entry(cache, e).users = 0 /\ Entry(cache, e).lba = NoSector /\ e # None
  <2> SUFFICES ASSUME NEW e \in Entries(cache)
               PROVE  Entry(cache, e).users = 0 /\ Entry(cache, e).lba = NoSector /\ e # None
    OBVIOUS
  <2>1. PICK k \in DOMAIN cache : cache[k].entry = e /\ Entry(cache, e) = cache[k]
    BY <1>4, EntryIs
  <2> QED BY <1>3, <1>4, <2>1, EntryIs
<1>6. Alone(cache)
  BY <1>5 DEF Alone
<1>7. task = [t \in Thread |-> Idle]
      /\ file = [t \in Thread |-> [offset |-> 0, current |-> Start(t), spoiled |-> FALSE]]
  BY DEF Init
<1>8. Shapes
  BY <1>7 DEF Shapes, TaskFields, FileFields
<1>9. \A t \in Thread : task[t].at = "idle" /\ task[t].item = None
  BY <1>7 DEF Idle
<1>10. Counted
  <2> SUFFICES ASSUME NEW e \in Entries(cache)
               PROVE  Entry(cache, e).users = Cardinality(Holders(e))
    BY DEF Counted
  <2>1. Holders(e) = {}
    BY <1>5, <1>9 DEF Holders
  <2> QED BY <1>5, <2>1, FS_EmptySet
<1>11. \A t \in Thread : Knows(t)
  BY <1>9 DEF Knows
<1> QED BY <1>4, <1>6, <1>8, <1>10, <1>11 DEF Held

LEMMA NextHolds == Held /\ [Next]_vars => Held'
<1> SUFFICES ASSUME Held, [Next]_vars PROVE Held'
  OBVIOUS
<1>1. CASE UNCHANGED vars
  <2>1. task' = task /\ file' = file /\ cache' = cache /\ sd' = sd
    BY <1>1 DEF vars
  <2>2. Shapes' /\ Counted' /\ WellFormed(cache') /\ Alone(cache')
    BY <2>1 DEF Held, Shapes, Counted, Holders
  <2>3. \A t \in Thread : Knows(t)'
    BY <2>1 DEF Held, Knows, Sector, FatSector
  <2> QED BY <2>2, <2>3 DEF Held
<1>2. ASSUME NEW t \in Thread,
             \/ \E size \in Sizes[t] : Read(t, size)
             \/ t = 1 /\ (Peek(t) \/ rewind(t) \/ \E pos \in 0 .. vol.length[t] : Seek(t, pos))
             \/ FetchSector(t) \/ Copy(t) \/ Drops(t) \/ FetchFat(t) \/ Linked(t) \/ Return(t)
      PROVE  Held'
  <2>1. /\ DOMAIN task = Thread /\ DOMAIN file = Thread
        /\ DOMAIN task[t] = TaskFields /\ DOMAIN file[t] = FileFields
    BY DEF Held, Shapes
  <2>2. TaskFields = {"at", "for", "from", "want", "got", "lba", "item", "count", "save", "ended"}
    BY DEF TaskFields, Idle
  <2>3. Knows(t)
    BY DEF Held
  <2>4. ASSUME NEW size, NEW for, Reads(t, size, for) PROVE Held'
    <3>1. task[t].at = "idle" /\ sd' = sd /\ cache' = cache /\ file' = file
      BY <2>4 DEF Reads, Runs
    <3>2. /\ DOMAIN task' = Thread /\ \A u \in Thread \ {t} : task'[u] = task[u]
          /\ DOMAIN task'[t] = TaskFields /\ task'[t].at = "sector" /\ task'[t].item = None
      BY <2>1, <2>4 DEF Reads, Set, TaskFields, Idle
    <3>3. task[t].item = None
      BY <2>3, <3>1 DEF Knows, Free
    <3>4. Knows(t)'
      BY <3>2 DEF Knows
    <3> QED BY <2>1, <3>1, <3>2, <3>3, <3>4, QuietHolds
  <2>5. CASE rewind(t)
    <3>1. task[t].at = "idle" /\ sd' = sd /\ cache' = cache /\ task' = task
      BY <2>5 DEF rewind, Runs
    <3>2. /\ DOMAIN file' = Thread /\ \A u \in Thread \ {t} : file'[u] = file[u]
          /\ DOMAIN file'[t] = FileFields
      BY <2>1, <2>5 DEF rewind
    <3>3. task[t].item = None
      BY <2>3, <3>1 DEF Knows, Free
    <3>4. Knows(t)'
      BY <3>1, <3>3 DEF Knows
    <3> QED BY <2>1, <3>1, <3>2, <3>4, QuietHolds
  <2>6. ASSUME NEW pos, Seek(t, pos) PROVE Held'
    <3>1. task[t].at = "idle" /\ sd' = sd /\ cache' = cache
      BY <2>6 DEF Seek, Runs
    <3>2. /\ DOMAIN task' = Thread /\ \A u \in Thread \ {t} : task'[u] = task[u]
          /\ DOMAIN task'[t] = TaskFields /\ task'[t].at \in {"return", "link"}
          /\ task'[t].item = None
      BY <2>1, <2>6 DEF Seek, Set, TaskFields, Idle
    <3>3. /\ DOMAIN file' = Thread /\ \A u \in Thread \ {t} : file'[u] = file[u]
          /\ DOMAIN file'[t] = FileFields
      BY <2>1, <2>6 DEF Seek
    <3>4. task[t].item = None
      BY <2>3, <3>1 DEF Knows, Free
    <3>5. Knows(t)'
      BY <3>2 DEF Knows
    <3> QED BY <2>1, <3>1, <3>2, <3>3, <3>4, <3>5, QuietHolds
  <2>7. CASE FetchSector(t)
    <3>1. task[t].item = None
      BY <2>3, <2>7 DEF FetchSector, Runs, Knows, Free
    <3>2. Fetch(t, task[t].lba, ~WholeSector(t), "copy")
      BY <2>7 DEF FetchSector
    <3> QED BY <3>1, <3>2, FetchHolds
  <2>8. CASE Copy(t)
    <3>1. task[t].at = "copy" /\ sd' = sd /\ cache' = cache
      BY <2>8 DEF Copy, Runs
    <3>2. /\ DOMAIN task' = Thread /\ \A u \in Thread \ {t} : task'[u] = task[u]
          /\ DOMAIN task'[t] = TaskFields /\ task'[t].item = task[t].item
          /\ task'[t].at \in {"drop", "drop, link", "drop, go on"}
      BY <2>1, <2>2, <2>8 DEF Copy, Set
    <3>3. /\ DOMAIN file' = Thread /\ \A u \in Thread \ {t} : file'[u] = file[u]
          /\ DOMAIN file'[t] = FileFields
      BY <2>1, <2>8 DEF Copy
    <3>4. Knows(t)'
      BY <2>3, <3>1, <3>2 DEF Knows, Free
    <3> QED BY <2>1, <3>1, <3>2, <3>3, <3>4, QuietHolds
  <2>9. ASSUME NEW at, NEW label, label \in {"return", "link", "sector"}, Drop(t, at, label)
        PROVE  Held'
    <3>1. sd' = sd /\ cache' = Release(cache, task[t].item) /\ file' = file
      BY <2>9 DEF Drop
    <3>2. /\ DOMAIN task' = Thread /\ \A u \in Thread \ {t} : task'[u] = task[u]
          /\ DOMAIN task'[t] = TaskFields /\ task'[t].item = None /\ task'[t].at = label
      BY <2>1, <2>2, <2>9 DEF Drop, Set
    <3> QED BY <2>1, <2>9, <3>1, <3>2, LetGoHolds
  <2>10. CASE Drops(t)
    <3>1. GoOn(t) \in {"return", "sector"}
      BY DEF GoOn
    <3> QED BY <2>9, <2>10, <3>1 DEF Drops
  <2>11. CASE FetchFat(t)
    <3>1. task[t].item = None
      BY <2>3, <2>11 DEF FetchFat, Runs, Knows, Free
    <3>2. Fetch(t, FatSector(file[t].current), TRUE, "linked")
      BY <2>11 DEF FetchFat
    <3> QED BY <3>1, <3>2, FetchHolds
  <2>12. CASE Linked(t)
    <3>1. sd' = sd /\ cache' = Release(cache, task[t].item)
      BY <2>12 DEF Linked
    <3>2. GoOn(t) \in {"return", "sector"}
      BY DEF GoOn
    <3>3. /\ DOMAIN task' = Thread /\ \A u \in Thread \ {t} : task'[u] = task[u]
          /\ DOMAIN task'[t] = TaskFields /\ task'[t].item = None
          /\ task'[t].at \in {"return", "link", "sector"}
      BY <2>1, <2>2, <2>12, <3>2 DEF Linked, Set
    <3>4. /\ DOMAIN file' = Thread /\ \A u \in Thread \ {t} : file'[u] = file[u]
          /\ DOMAIN file'[t] = FileFields
      BY <2>1, <2>12 DEF Linked
    <3> QED BY <3>1, <3>3, <3>4, LetGoHolds
  <2>13. CASE Return(t)
    <3>1. task[t].at = "return" /\ sd' = sd /\ cache' = cache
      BY <2>13 DEF Return, Runs
    <3>2. /\ DOMAIN task' = Thread /\ \A u \in Thread \ {t} : task'[u] = task[u]
          /\ DOMAIN task'[t] = TaskFields /\ task'[t].at = "idle" /\ task'[t].item = None
      BY <2>1, <2>13 DEF Return, Set, TaskFields, Idle
    <3>3. /\ DOMAIN file' = Thread /\ \A u \in Thread \ {t} : file'[u] = file[u]
          /\ DOMAIN file'[t] = FileFields
      BY <2>1, <2>13 DEF Return
    <3>4. task[t].item = None
      BY <2>3, <3>1 DEF Knows, Free
    <3>5. Knows(t)'
      BY <3>2 DEF Knows
    <3> QED BY <2>1, <3>1, <3>2, <3>3, <3>4, <3>5, QuietHolds
  <2> QED BY <1>2, <2>4, <2>5, <2>6, <2>7, <2>8, <2>10, <2>11, <2>12, <2>13 DEF Read, Peek
<1> QED BY <1>1, <1>2 DEF Next

LEMMA HeldMeansStays == Held => HeldStays
<1> SUFFICES ASSUME Held PROVE HeldStays
  OBVIOUS
<1>1. WellFormed(cache)
  BY DEF Held
<1>2. ASSUME NEW k \in DOMAIN cache
      PROVE  /\ cache[k].users = Cardinality({t \in Thread : task[t].item = cache[k].entry})
             /\ cache[k].lba # NoSector => Placed(cache, cache[k].lba) = {k}
  <2>1. cache[k].entry \in Entries(cache) /\ Entry(cache, cache[k].entry) = cache[k]
    BY <1>1, EntryAt
  <2>2. cache[k].users = Cardinality({t \in Thread : task[t].item = cache[k].entry})
    BY <2>1 DEF Held, Counted, Holders
  <2>3. ASSUME cache[k].lba # NoSector, NEW j \in DOMAIN cache, cache[j].lba = cache[k].lba
        PROVE  j = k
    <3>1. cache[j].entry \in Entries(cache) /\ Entry(cache, cache[j].entry) = cache[j]
      BY <1>1, EntryAt
    <3>2. cache[j].entry = cache[k].entry
      BY <2>1, <2>3, <3>1 DEF Held, Alone
    <3> QED BY <1>1, <3>2 DEF WellFormed
  <2> QED BY <2>2, <2>3 DEF Placed
<1>3. ASSUME NEW t \in Thread
      PROVE  /\ task[t].at = "copy" => Sector(t) = task[t].lba
             /\ task[t].at = "linked" => Sector(t) = FatSector(file[t].current)
             /\ task[t].item # None => Entry(cache, task[t].item).data
  BY DEF Held, Knows
<1> QED BY <1>2, <1>3 DEF HeldStays

(* However many interrupts read files through the cache, one within the    *)
(* other, and wherever they break in between a read of the cache, the copy *)
(* and the release: an entry that is held is not given away, its count is  *)
(* right, and it keeps the sector that its holder asked for.  For any size *)
(* of the cache, any volume and any failures of the card.                  *)
THEOREM LocksHold == Spec => []HeldStays
<1>1. Held => HeldStays
  BY HeldMeansStays
<1>2. Held /\ [Next]_vars => Held'
  BY NextHolds
<1> QED BY <1>1, <1>2, InitHolds, PTL DEF Spec
-----------------------------------------------------------------------------
(* A position in a file is seen as the number of its sector in the file:   *)
(* the cluster of the chain it is in, its place on the card, and whether a *)
(* thread's current cluster is that cluster.                               *)
SectorAt(p) == p \div SectorBytes
Link(v, s) == 1 + s \div v.perCluster
Area(v) == v.partition + v.reserved + 2 * v.perFat + v.rootSectors
Place(v, t, s) == (v.chain[t][Link(v, s)] - 2) * v.perCluster + Area(v) + (s % v.perCluster)
InChain(v, t, s) == Link(v, s) <= Len(v.chain[t])
Follows(v, t) == \A k \in 2 .. Len(v.chain[t]) : v.chain[t][k] = v.chain[t][k - 1] + 1

Agrees(v, t, p, cluster) ==
  IF InChain(v, t, SectorAt(p)) THEN cluster = v.chain[t][Link(v, SectorAt(p))]
  ELSE v.chain[t] # <<>> => cluster > Begun(v).max

(* How far the calls are, of a file f and a task k of thread t.            *)
Reading == {"read", "peek"}
AtLink == {"drop, link", "link", "linked"}

ReadShape(v, t, f, k) ==
  /\ k.at \in {"sector", "copy", "drop", "drop, go on", "return"} \cup AtLink
  /\ k.from \in Nat /\ k.want \in Nat /\ k.from + k.want <= v.length[t]
  /\ k.got \in Seq(Int \X Int) /\ Len(k.got) <= k.want /\ f.offset = k.from + Len(k.got)
  /\ k.lba \in Int /\ k.save \in Int /\ k.count \in Int
  /\ k.for = "peek" => k.want = 1
  /\ k.at \in {"sector", "copy"} => Len(k.got) < k.want
  /\ k.at \in AtLink => k.got # <<>>

SeekShape(v, t, f, k) ==
  /\ k.at \in {"link", "linked", "return"}
  /\ k.want \in 0 .. v.length[t] /\ k.got = <<>> /\ k.count \in Nat /\ k.save \in Int
  /\ k.at # "return" => k.count > 0

Shape(v, t, f, k) ==
  /\ f.offset \in 0 .. v.length[t] /\ f.current \in Int
  /\ k.for \in {"none", "seek"} \cup Reading
  /\ k.for = "none" => k.at = "idle" /\ k.got = <<>>
  /\ k.for = "seek" => SeekShape(v, t, f, k)
  /\ k.for \in Reading => ReadShape(v, t, f, k)

(* The cluster: that of the offset, or at a link the one before it; of a   *)
(* seek the one that is so many links before the one it looks for.         *)
Cursor(v, t, f, k) ==
  /\ k.at \in {"idle", "sector", "copy", "drop", "drop, go on"} => Agrees(v, t, f.offset, f.current)
  /\ k.at = "return" /\ ~(k.for = "peek" /\ k.got # <<>>) => Agrees(v, t, f.offset, f.current)
  /\ k.for = "peek" => Agrees(v, t, k.from, k.save)
  /\ k.for \in Reading /\ k.at \in AtLink =>
       LET n == SectorAt(f.offset) \div v.perCluster
       IN  n \in 1 .. Len(v.chain[t]) /\ f.current = v.chain[t][n]
  /\ k.for = "seek" /\ k.at # "return" =>
       LET n == Link(v, SectorAt(k.want)) - k.count
       IN  /\ n \in 1 .. Len(v.chain[t]) /\ f.current = v.chain[t][n]
           /\ Agrees(v, t, f.offset, k.save)

(* The sector to read next.  At the end of a cluster and of a sector it is *)
(* the one after.                                                          *)
Next_lba(v, t, f, k) ==
  k.for \in Reading /\ k.at \in {"sector", "copy", "drop, go on"} \cup AtLink =>
    LET s == SectorAt(f.offset)
    IN  /\ (k.lba - s) % v.perCluster = 0
        /\ Follows(v, t) /\ InChain(v, t, s) => k.lba = Place(v, t, s)

Content(v, t, k) ==
  Follows(v, t) =>
    \A i \in DOMAIN k.got :
      LET p == k.from + i - 1
      IN  k.got[i] = <<Place(v, t, SectorAt(p)), p % SectorBytes>>

Right(v, t, f, k) ==
  /\ Shape(v, t, f, k)
  /\ Area(v) % v.perCluster = 0 /\ ~f.spoiled =>
       Cursor(v, t, f, k) /\ Next_lba(v, t, f, k) /\ Content(v, t, k)

AllRight ==
  /\ vol \in Volumes /\ sd = Begun(vol)
  /\ \A t \in Thread : Right(vol, t, file[t], task[t])
-----------------------------------------------------------------------------
LEMMA Division ==
  ASSUME NEW n \in Int, NEW b \in Nat \ {0}
  PROVE  n \div b \in Int /\ n % b \in 0 .. b - 1 /\ n = b * (n \div b) + (n % b)
         /\ (n \in Nat => n \div b \in Nat)
<1>1. n \div b \in Int /\ n % b \in 0 .. b - 1 /\ n = b * (n \div b) + (n % b)
  OBVIOUS
<1> DEFINE q == n \div b
           r == n % b
<1> HIDE DEF q, r
<1>2. q \in Int /\ r \in 0 .. b - 1 /\ n = b * q + r
  BY <1>1 DEF q, r
<1>3. ASSUME n \in Nat PROVE q \in Nat
  <2>1. CASE q <= -1
    <3>1. b * q <= -b
      BY <1>2, <2>1
    <3> QED BY <1>2, <1>3, <3>1
  <2> QED BY <1>2, <2>1
<1> QED BY <1>1, <1>3 DEF q

LEMMA Quotient ==
  ASSUME NEW b \in Nat \ {0}, NEW q \in Int, NEW r \in 0 .. b - 1
  PROVE  (b * q + r) \div b = q /\ (b * q + r) % b = r
<1> DEFINE n == b * q + r
           x == n \div b
           y == n % b
<1>0. n \in Int
  OBVIOUS
<1>1. x \in Int /\ y \in 0 .. b - 1 /\ n = b * x + y
  BY <1>0, Division
<1> HIDE DEF x, y
<1>2. b * (x - q) = r - y
  BY <1>1
<1>3. r - y < b /\ r - y > -b
  BY <1>1
<1>4. x = q
  <2>1. CASE x - q >= 1
    <3>1. b * (x - q) >= b
      BY <1>1, <2>1
    <3> QED BY <1>1, <1>2, <1>3, <3>1
  <2>2. CASE x - q <= -1
    <3>1. b * (x - q) <= -b
      BY <1>1, <2>2
    <3> QED BY <1>1, <1>2, <1>3, <3>1
  <2> QED BY <1>1, <2>1, <2>2
<1>5. y = r
  BY <1>1, <1>4
<1> QED BY <1>4, <1>5 DEF x, y

LEMMA Grows ==
  ASSUME NEW a \in Nat \ {0}, NEW b \in Int, NEW c \in Int, b <= c
  PROVE  a * b \in Int /\ a * c \in Int /\ a * b <= a * c
OBVIOUS

LEMMA Gathered ==
  ASSUME NEW a \in Int, NEW x \in Int, NEW b \in Int, NEW q \in Int
  PROVE  /\ x * a \in Int /\ a * b \in Int /\ a * q \in Int
         /\ a * (x + b - q) = x * a + a * b - a * q
OBVIOUS

(* What is beyond a multiple does not count.                               *)
LEMMA Beyond ==
  ASSUME NEW b \in Nat \ {0}, NEW m \in Int, m % b = 0, NEW n \in Int
  PROVE  (m + n) % b = n % b
<1>1. m = b * (m \div b) /\ m \div b \in Int
  BY Division
<1>2. n = b * (n \div b) + (n % b) /\ n \div b \in Int /\ n % b \in 0 .. b - 1
  BY Division
<1> DEFINE x == m \div b
           y == n \div b
           r == n % b
<1> HIDE DEF x, y, r
<1>3. m + n = b * (x + y) + r /\ x + y \in Int /\ r \in 0 .. b - 1
  BY <1>1, <1>2 DEF x, y, r
<1>4. (b * (x + y) + r) % b = r
  BY <1>3, Quotient
<1> QED BY <1>3, <1>4 DEF r

(* A step further: within the same multiple, or to the next.               *)
LEMMA StepOn ==
  ASSUME NEW b \in Nat \ {0}, NEW s \in Nat, NEW n \in Nat, (s % b) + n <= b
  PROVE  IF (s % b) + n < b THEN (s + n) \div b = s \div b /\ (s + n) % b = (s % b) + n
         ELSE (s + n) \div b = (s \div b) + 1 /\ (s + n) % b = 0
<1> DEFINE q == s \div b
           r == s % b
<1>1. q \in Nat /\ r \in 0 .. b - 1 /\ s = b * q + r
  <2>1. s \in Int
    OBVIOUS
  <2> QED BY ONLY <2>1, s \in Nat, b \in Nat \ {0}, Division
<1> HIDE DEF q, r
<1>2. CASE r + n < b
  <2>1. r + n \in 0 .. b - 1 /\ s + n = b * q + (r + n)
    BY <1>1, <1>2
  <2>2. (b * q + (r + n)) \div b = q /\ (b * q + (r + n)) % b = r + n
    BY <1>1, <2>1, Quotient
  <2> QED BY <1>2, <2>1, <2>2 DEF q, r
<1>3. CASE ~(r + n < b)
  <2>1. r + n = b
    BY <1>1, <1>3 DEF r
  <2>2. s + n = b * (q + 1) + 0 /\ 0 \in 0 .. b - 1 /\ q + 1 \in Int
    BY <1>1, <2>1
  <2>3. (b * (q + 1) + 0) \div b = q + 1 /\ (b * (q + 1) + 0) % b = 0
    BY <2>2, Quotient
  <2> QED BY <1>3, <2>2, <2>3 DEF q, r
<1> QED BY <1>2, <1>3 DEF r

(* Clusters of sectors of bytes: dividing by both is dividing by the product. *)
LEMMA Nested ==
  ASSUME NEW a \in Nat \ {0}, NEW b \in Nat \ {0}, NEW p \in Nat
  PROVE  /\ p \div (a * b) = (p \div b) \div a
         /\ (p % (a * b)) \div b = (p \div b) % a
<1> DEFINE s == p \div b
           x == p % b
           q == s \div a
           r == s % a
           y == b * r + x
<1>1. s \in Nat /\ x \in 0 .. b - 1 /\ p = b * s + x
  <2>1. p \in Int
    OBVIOUS
  <2> QED BY ONLY <2>1, p \in Nat, b \in Nat \ {0}, Division
<1> HIDE DEF s, x
<1>2. q \in Nat /\ r \in 0 .. a - 1 /\ s = a * q + r
  <2>1. s \in Int
    BY <1>1
  <2> QED BY ONLY <1>1, <2>1, a \in Nat \ {0}, Division
<1> HIDE DEF q, r
<1>3. p = (a * b) * q + y
  <2>1. b * (a * q + r) = (a * b) * q + b * r
    BY <1>2
  <2> QED BY <1>1, <1>2, <2>1
<1>4. y \in 0 .. (a * b) - 1 /\ a * b \in Nat \ {0} /\ y \in Nat
  <2>1. b * r <= b * (a - 1) /\ b * r >= 0 /\ b * r \in Int
    BY <1>2
  <2>2. b * (a - 1) = (a * b) - b /\ a * b \in Int
    OBVIOUS
  <2>3. a * b >= b
    OBVIOUS
  <2> DEFINE ab == a * b
             br == b * r
  <2>4. ab \in Int /\ br \in Int /\ br >= 0 /\ br <= ab - b /\ ab >= b
    BY <2>1, <2>2, <2>3
  <2> HIDE DEF ab, br
  <2>5. br + x \in 0 .. ab - 1 /\ ab \in Nat \ {0}
    BY <1>1, <2>4
  <2> QED BY <2>5 DEF ab, br
<1>5. p \div (a * b) = q /\ p % (a * b) = y
  <2> DEFINE ab == a * b
  <2>1. ab \in Nat \ {0} /\ y \in 0 .. ab - 1 /\ q \in Int /\ p = ab * q + y
    BY <1>2, <1>3, <1>4
  <2> HIDE DEF ab, y
  <2>2. (ab * q + y) \div ab = q /\ (ab * q + y) % ab = y
    BY <2>1, Quotient
  <2> QED BY <2>1, <2>2 DEF ab
<1>6. y \div b = r
  BY <1>1, <1>2, Quotient
<1> QED BY <1>5, <1>6 DEF q, r, s
-----------------------------------------------------------------------------
(* What the assumption says of a volume and a thread's file on it.         *)
Fine(v, t) ==
  /\ v.perCluster \in Nat \ {0} /\ SectorBytes \in Nat \ {0}
  /\ Area(v) \in Int /\ Begun(v).max \in Int
  /\ Len(v.chain[t]) \in Nat /\ v.length[t] \in Nat
  /\ v.chain[t] # <<>> <=> Len(v.chain[t]) > 0
  /\ \A k \in 1 .. Len(v.chain[t]) :
       /\ v.chain[t][k] \in Int /\ v.chain[t][k] \in DOMAIN v.fat /\ v.chain[t][k] <= Begun(v).max
       /\ IF k = Len(v.chain[t]) THEN v.fat[v.chain[t][k]] > Begun(v).max
          ELSE v.fat[v.chain[t][k]] = v.chain[t][k + 1]
  /\ \A c \in DOMAIN v.fat : v.fat[c] \in Int
  /\ \A p \in 0 .. v.length[t] :
       /\ SectorAt(p) \in Nat /\ Link(v, SectorAt(p)) \in 1 .. Len(v.chain[t]) + 1
       /\ p < v.length[t] => InChain(v, t, SectorAt(p))

LEMMA VolumeIsFine ==
  ASSUME NEW v \in Volumes, NEW t \in Thread
  PROVE  Fine(v, t)
<1> DEFINE P == v.perCluster
           S == SectorBytes
           l == Len(v.chain[t])
           D == DOMAIN v.fat \cap Nat
<1>1. P \in Nat \ {0} /\ S \in Nat \ {0} /\ v.total \in Nat
  BY VolumeAssumption, ThreadAssumption
<1>2. v.partition \in Nat /\ v.reserved \in Nat /\ v.perFat \in Nat /\ v.rootSectors \in Nat
  BY VolumeAssumption
<1>3. Area(v) \in Int
  BY <1>2 DEF Area
<1>4. Begun(v).max \in Int
  <2> DEFINE n == v.total - v.reserved - v.rootSectors - 2 * v.perFat
  <2>1. n \in Int
    BY <1>1, <1>2
  <2> HIDE DEF n
  <2>2. n \div P \in Int
    BY <1>1, <2>1
  <2>3. Begun(v).max = (n \div P) + 1
    BY DEF Begun, n
  <2> QED BY <2>2, <2>3
<1>5. v.chain[t] \in Seq(D) /\ l \in Nat /\ (v.chain[t] # <<>> <=> l > 0)
  <2>1. v.chain \in [Thread -> Seq(D)]
    BY VolumeAssumption
  <2>2. v.chain[t] \in Seq(D)
    BY <2>1
  <2> HIDE DEF D
  <2>3. l \in Nat
    BY <2>2, LenProperties
  <2>4. v.chain[t] # <<>> <=> l > 0
    BY <2>2, EmptySeq, LenProperties
  <2> QED BY <2>2, <2>3, <2>4
<1>6. v.length[t] \in 0 .. l * (P * S)
  BY VolumeAssumption
<1>7. l * (P * S) \in Nat /\ v.length[t] \in Nat
  <2>1. P * S \in Nat
    BY <1>1
  <2>2. l * (P * S) \in Nat
    BY <1>5, <2>1
  <2> QED BY <1>6, <2>2
<1>8. ASSUME NEW k \in 1 .. l
      PROVE  /\ v.chain[t][k] \in Int /\ v.chain[t][k] \in DOMAIN v.fat /\ v.chain[t][k] <= Begun(v).max
             /\ IF k = l THEN v.fat[v.chain[t][k]] > Begun(v).max
                ELSE v.fat[v.chain[t][k]] = v.chain[t][k + 1]
  <2>1. v.chain[t][k] \in D
    BY ONLY <1>5, k \in 1 .. l, ElementOfSeq
  <2>2. /\ v.chain[t][k] <= Begun(v).max
        /\ IF k = l THEN v.fat[v.chain[t][k]] > Begun(v).max
           ELSE v.fat[v.chain[t][k]] = v.chain[t][k + 1]
    BY VolumeAssumption
  <2> QED BY <2>1, <2>2
<1>9. \A c \in DOMAIN v.fat : v.fat[c] \in Int
  <2>1. v.fat \in [DOMAIN v.fat -> Nat]
    BY VolumeAssumption
  <2> QED BY <2>1
<1>10. ASSUME NEW p \in 0 .. v.length[t]
       PROVE  /\ SectorAt(p) \in Nat /\ Link(v, SectorAt(p)) \in 1 .. l + 1
              /\ p < v.length[t] => InChain(v, t, SectorAt(p))
  <2> DEFINE C == P * S
             q == p \div C
  <2>1. p \in Nat /\ C \in Nat \ {0} /\ p \in Int
    BY <1>1, <1>7
  <2>2. SectorAt(p) \in Nat
    <3>1. p \div S \in Nat
      BY ONLY <1>1, <2>1, Division
    <3> QED BY <3>1 DEF SectorAt
  <2>3. Link(v, SectorAt(p)) = 1 + q
    <3>1. p \div (P * S) = (p \div S) \div P
      BY ONLY <1>1, <2>1, Nested
    <3> QED BY <3>1 DEF Link, SectorAt
  <2> HIDE DEF C
  <2>4. q \in Nat /\ C * q <= p
    <3>1. q \in Nat /\ p % C \in 0 .. C - 1 /\ p = C * q + (p % C)
      BY ONLY <2>1, Division
    <3> DEFINE r == p % C
               m == C * q
    <3>2. m \in Int /\ r \in 0 .. C - 1 /\ p = m + r
      BY <2>1, <3>1
    <3> HIDE DEF r, m
    <3>3. m <= p
      BY <2>1, <3>2
    <3> QED BY <3>1, <3>3 DEF m
  <2> HIDE DEF q, l
  <2>5. p <= l * C
    BY <1>6, <1>7, <2>1 DEF C
  <2>6. q <= l
    <3>1. CASE q >= l + 1
      <4>0. l \in Int /\ l + 1 \in Int /\ q \in Int
        BY <1>5, <2>4 DEF l
      <4>1. C * q >= C * (l + 1) /\ C * (l + 1) = l * C + C
        <5>1. C * (l + 1) <= C * q
          BY ONLY <2>1, <3>1, <4>0, Grows
        <5>2. C * (l + 1) = l * C + C
          BY ONLY <2>1, <4>0
        <5>3. C * q \in Int /\ C * (l + 1) \in Int
          BY ONLY <2>1, <4>0
        <5> QED BY ONLY <5>1, <5>2, <5>3
      <4>2. l * C \in Int /\ C * q \in Int
        BY ONLY <2>1, <4>0
      <4> QED BY <2>1, <2>4, <2>5, <4>1, <4>2
    <3> QED BY <1>5, <2>4, <3>1 DEF l
  <2>7. ASSUME p < v.length[t] PROVE q < l
    <3>1. p < l * C
      BY <1>6, <1>7, <2>1, <2>7 DEF C, l
    <3>2. CASE q >= l
      <4>0. l \in Int /\ q \in Int
        BY <1>5, <2>4 DEF l
      <4>2. l * C \in Int /\ C * q \in Int /\ l * C = C * l
        BY ONLY <2>1, <4>0
      <4>1. C * q >= l * C
        <5>1. C * l <= C * q
          BY ONLY <2>1, <3>2, <4>0, Grows
        <5> QED BY ONLY <4>2, <5>1
      <4> QED BY <2>1, <2>4, <3>1, <4>1, <4>2
    <3> QED BY <1>5, <2>4, <3>2 DEF l
  <2>8. 1 + q \in 1 .. l + 1
    BY <1>5, <2>4, <2>6 DEF l
  <2> QED BY <1>5, <2>2, <2>3, <2>4, <2>7, <2>8 DEF InChain, l
<1> QED BY <1>1, <1>3, <1>4, <1>5, <1>7, <1>8, <1>9, <1>10 DEF Fine

(* The sector after one: in the same cluster or, at the end of it, the     *)
(* first of the next.                                                      *)
LEMMA NextSector ==
  ASSUME NEW v, NEW t, Fine(v, t), NEW s \in Nat
  PROVE  /\ Link(v, s) \in Nat \ {0} /\ Link(v, s + 1) \in Nat \ {0} /\ s % v.perCluster \in Nat
         /\ IF (s + 1) % v.perCluster = 0
            THEN Link(v, s + 1) = Link(v, s) + 1 /\ s % v.perCluster = v.perCluster - 1
            ELSE Link(v, s + 1) = Link(v, s) /\ (s + 1) % v.perCluster = (s % v.perCluster) + 1
<1> DEFINE P == v.perCluster
           r == s % P
<1>1. P \in Nat \ {0} /\ s \in Int
  BY DEF Fine
<1> HIDE DEF P
<1>2. s \div P \in Nat /\ r \in 0 .. P - 1
  BY ONLY <1>1, s \in Nat, Division
<1>3. r + 1 <= P /\ 1 \in Nat
  BY <1>1, <1>2
<1>4. IF r + 1 < P THEN (s + 1) \div P = s \div P /\ (s + 1) % P = r + 1
      ELSE (s + 1) \div P = (s \div P) + 1 /\ (s + 1) % P = 0
  BY ONLY <1>1, <1>3, s \in Nat, StepOn
<1> HIDE DEF r
<1>5. IF (s + 1) % P = 0 THEN (s + 1) \div P = (s \div P) + 1 /\ r = P - 1
      ELSE (s + 1) \div P = s \div P /\ (s + 1) % P = r + 1
  BY <1>1, <1>2, <1>3, <1>4
<1>6. Link(v, s) = 1 + (s \div P) /\ Link(v, s + 1) = 1 + ((s + 1) \div P) /\ r \in Nat
  BY <1>2 DEF Link, P
<1> QED BY <1>2, <1>5, <1>6 DEF P, r

LEMMA NextPlace ==
  ASSUME NEW v, NEW t, Fine(v, t), NEW s \in Nat, Follows(v, t), InChain(v, t, s + 1)
  PROVE  InChain(v, t, s) /\ Place(v, t, s) \in Int /\ Place(v, t, s + 1) = Place(v, t, s) + 1
<1> DEFINE P == v.perCluster
           r == s % P
           i == Link(v, s)
           c == v.chain[t]
           a == Area(v)
<1>1. /\ i \in Nat \ {0} /\ Link(v, s + 1) \in Nat \ {0} /\ r \in Nat
      /\ IF (s + 1) % P = 0 THEN Link(v, s + 1) = i + 1 /\ r = P - 1
         ELSE Link(v, s + 1) = i /\ (s + 1) % P = r + 1
  BY NextSector
<1>2. P \in Nat \ {0} /\ a \in Int /\ Len(c) \in Nat /\ \A k \in 1 .. Len(c) : c[k] \in Int
  BY DEF Fine
<1>3. Link(v, s + 1) <= Len(c)
  BY DEF InChain
<1>4. Place(v, t, s) = (c[i] - 2) * P + a + r
      /\ Place(v, t, s + 1) = (c[Link(v, s + 1)] - 2) * P + a + ((s + 1) % P)
  BY DEF Place
<1>5. i \in 1 .. Len(c)
  BY <1>1, <1>2, <1>3
<1>6. \A k \in 2 .. Len(c) : c[k] = c[k - 1] + 1
  BY DEF Follows
<1> HIDE DEF P, r, i, c, a
<1>7. c[i] \in Int
  BY <1>2, <1>5
<1>8. CASE (s + 1) % P = 0
  <2>1. Link(v, s + 1) = i + 1 /\ i + 1 \in 2 .. Len(c) /\ (i + 1) - 1 = i
    BY <1>1, <1>2, <1>3, <1>8
  <2>2. c[i + 1] = c[i] + 1
    BY <1>6, <2>1
  <2> DEFINE x == c[i]
  <2>3. x \in Int /\ Place(v, t, s + 1) = (x + 1 - 2) * P + a + 0 /\ Place(v, t, s) = (x - 2) * P + a + (P - 1)
    BY <1>1, <1>4, <1>7, <1>8, <2>1, <2>2
  <2> HIDE DEF x
  <2>4. (x + 1 - 2) * P = (x - 2) * P + P /\ (x - 2) * P \in Int
    BY <1>2, <2>3
  <2>5. Place(v, t, s) \in Int /\ Place(v, t, s + 1) = Place(v, t, s) + 1
    BY <1>2, <2>3, <2>4
  <2> QED BY <1>5, <2>5 DEF InChain, i, c
<1>9. CASE (s + 1) % P # 0
  <2> DEFINE m == (c[i] - 2) * P
  <2>1. m \in Int
    BY <1>2, <1>7
  <2>2. Place(v, t, s) = m + a + r /\ Place(v, t, s + 1) = m + a + (r + 1)
    BY <1>1, <1>4, <1>9
  <2> HIDE DEF m
  <2>3. Place(v, t, s) \in Int /\ Place(v, t, s + 1) = Place(v, t, s) + 1
    BY <1>1, <1>2, <2>1, <2>2
  <2> QED BY <1>5, <2>3 DEF InChain, i, c
<1> QED BY <1>8, <1>9
-----------------------------------------------------------------------------
Steady(v, f) == Area(v) % v.perCluster = 0 /\ ~f.spoiled

(* k2 is k at another step.                                                *)
SameCall(k, k2) ==
  /\ k2.for = k.for /\ k2.from = k.from /\ k2.want = k.want /\ k2.got = k.got
  /\ k2.lba = k.lba /\ k2.count = k.count /\ k2.save = k.save

SameFile(f, f2) == f2.offset = f.offset /\ f2.current = f.current /\ f2.spoiled = f.spoiled

(* A read begins at the cluster and the sector of the offset.              *)
LEMMA ReadStartsRight ==
  ASSUME NEW v, NEW t, Fine(v, t), NEW f, NEW k, Right(v, t, f, k), k.at = "idle",
         NEW k2, k2.at = "sector", k2.for \in Reading, k2.from = f.offset, k2.got = <<>>,
         k2.want \in Nat \ {0}, f.offset + k2.want <= v.length[t],
         k2.for = "peek" => k2.want = 1, k2.save = f.current, k2.count \in Int,
         k2.lba = (f.current - 2) * v.perCluster + Area(v)
                  + (f.offset % (v.perCluster * SectorBytes)) \div SectorBytes
  PROVE  Right(v, t, f, k2)
<1> DEFINE P == v.perCluster
           p == f.offset
           s == SectorAt(p)
           r == s % P
           a == Area(v)
           m == (f.current - 2) * P
<1>1. P \in Nat \ {0} /\ SectorBytes \in Nat \ {0} /\ a \in Int /\ v.length[t] \in Nat
  BY DEF Fine
<1>2. p \in 0 .. v.length[t] /\ p \in Nat /\ f.current \in Int
  BY <1>1 DEF Right, Shape
<1>3. s \in Nat /\ InChain(v, t, s)
  <2>1. p < v.length[t]
    BY <1>1, <1>2
  <2> QED BY <1>2, <2>1 DEF Fine
<1>4. k2.lba = m + a + r
  <2>1. (p % (P * SectorBytes)) \div SectorBytes = r
    BY ONLY <1>1, <1>2, Nested DEF SectorAt
  <2> QED BY <2>1
<1>5. r \in 0 .. P - 1 /\ s \div P \in Nat /\ s = P * (s \div P) + r
  <2>1. s \in Int
    BY <1>3
  <2> QED BY ONLY <1>1, <1>3, <2>1, Division
<1>6. m \in Int /\ k2.lba \in Int
  <2>1. m \in Int
    BY <1>1, <1>2
  <2> HIDE DEF m, a, r
  <2> QED BY <1>1, <1>4, <1>5, <2>1
<1>7. Shape(v, t, f, k2)
  <2>1. <<>> \in Seq(Int \X Int) /\ Len(<<>>) = 0
    BY EmptySeq
  <2>2. k2.got \in Seq(Int \X Int) /\ Len(k2.got) = 0 /\ k2.want \in Nat /\ k2.want > 0
    BY <2>1
  <2>3. p = p + Len(k2.got) /\ Len(k2.got) <= k2.want /\ Len(k2.got) < k2.want
    BY ONLY <1>2, <2>2
  <2>4. ReadShape(v, t, f, k2)
    BY <1>2, <1>6, <2>2, <2>3 DEF ReadShape, AtLink
  <2>5. k2.for # "seek" /\ k2.for # "none" /\ p \in 0 .. v.length[t]
    BY <1>2 DEF Reading
  <2> QED BY <1>2, <2>4, <2>5 DEF Shape
<1>8. ASSUME Steady(v, f) PROVE Cursor(v, t, f, k2) /\ Next_lba(v, t, f, k2) /\ Content(v, t, k2)
  <2>1. Agrees(v, t, p, f.current)
    BY <1>8 DEF Right, Steady, Cursor
  <2>2. Cursor(v, t, f, k2)
    BY <2>1 DEF Cursor, Reading, AtLink
  <2>3. f.current = v.chain[t][Link(v, s)]
    BY <1>3, <2>1 DEF Agrees
  <2>4. k2.lba = Place(v, t, s)
    BY <1>4, <2>3 DEF Place
  <2>5. (k2.lba - s) % P = 0
    <3> DEFINE q == s \div P
               x == f.current - 2
               b == a \div P
    <3>1. a % P = 0
      BY <1>8 DEF Steady
    <3>2. a = P * b + 0 /\ b \in Int
      <4>1. b \in Int /\ a = P * b + (a % P)
        BY ONLY <1>1, Division
      <4> QED BY <3>1, <4>1
    <3> HIDE DEF q, b, r, s, a
    <3>3. x \in Int /\ q \in Int /\ b \in Int /\ r \in Int
      BY <1>2, <1>5, <3>2 DEF q
    <3> DEFINE z == x + b - q
               xP == x * P
               bP == P * b
               qP == P * q
    <3>4. xP \in Int /\ bP \in Int /\ qP \in Int /\ z \in Int /\ P * z + 0 = xP + bP - qP
      <4>1. P \in Int /\ z \in Int
        BY <1>1, <3>3
      <4>2. xP \in Int /\ bP \in Int /\ qP \in Int /\ P * z = xP + bP - qP
        BY ONLY <3>3, <4>1, Gathered
      <4> QED BY ONLY <4>1, <4>2
    <3>5. k2.lba = xP + bP + r /\ s = qP + r
      BY <1>4, <1>5, <3>2, <3>3, <3>4 DEF q
    <3> HIDE DEF z, xP, bP, qP
    <3>6. k2.lba - s = P * z + 0
      BY <3>3, <3>4, <3>5
    <3>7. 0 \in 0 .. P - 1
      BY <1>1
    <3>8. (P * z + 0) % P = 0
      BY ONLY <1>1, <3>4, <3>7, Quotient
    <3> QED BY <3>6, <3>8
  <2>6. Next_lba(v, t, f, k2)
    BY <2>4, <2>5 DEF Next_lba
  <2>7. Content(v, t, k2)
    BY DEF Content
  <2> QED BY <2>2, <2>6, <2>7
<1> QED BY <1>7, <1>8 DEF Right, Steady

(* The same step of a call from another, if what is said there includes    *)
(* what is said here: a sector or a link that has been fetched, the object *)
(* dropped.                                                                *)
LEMMA GoesOnRight ==
  ASSUME NEW v, NEW t, NEW f, NEW k, Right(v, t, f, k), NEW f2, SameFile(f, f2),
         NEW k2, SameCall(k, k2),
         \/ k.at = "sector" /\ k2.at \in {"copy", "return"}
         \/ k.at = "link" /\ k2.at = "linked"
         \/ k.at = "drop" /\ k2.at = "return"
         \/ k.at = "drop, link" /\ k2.at = "link"
         \/ k.at = "drop, go on" /\ k2.at = (IF k.want - Len(k.got) = 0 THEN "return" ELSE "sector")
  PROVE  Right(v, t, f2, k2)
<1> USE DEF SameFile, SameCall
<1>0. k.for = "seek" => k.at \in {"link", "linked", "return"}
  BY DEF Right, Shape, SeekShape
<1>1. k.for \in {"seek"} \cup Reading
  BY DEF Right, Shape
<1>2. k.for \in Reading => Len(k.got) \in Nat /\ k.want \in Nat /\ Len(k.got) <= k.want
  BY LenProperties DEF Right, Shape, ReadShape
<1>3. Shape(v, t, f2, k2)
  <2>1. CASE k.for = "seek"
    BY <1>0, <2>1 DEF Right, Shape, SeekShape, Reading
  <2>2. CASE k.for \in Reading
    <3>1. ReadShape(v, t, f, k)
      BY <2>2 DEF Right, Shape
    <3>2. k2.at \in {"copy", "return", "linked", "link", "sector"}
      OBVIOUS
    <3>3. k2.at \in {"sector", "copy"} => Len(k.got) < k.want
      <4>1. CASE k.at = "sector"
        BY <3>1, <4>1 DEF ReadShape
      <4>2. CASE k.at = "drop, go on" /\ k2.at = "sector"
        <5>1. k.want - Len(k.got) # 0
          BY <4>2
        <5> DEFINE x == Len(k.got)
                   y == k.want
        <5>2. x \in Nat /\ y \in Nat /\ x <= y
          BY <1>2, <2>2
        <5>3. y - x # 0
          BY <5>1
        <5> HIDE DEF x, y
        <5>4. x < y
          BY ONLY <5>2, <5>3
        <5> QED BY <5>4 DEF x, y
      <4> QED BY <4>1, <4>2
    <3>4. k2.at \in AtLink => k.got # <<>>
      BY <3>1 DEF ReadShape, AtLink
    <3>5. ReadShape(v, t, f2, k2)
      BY <3>1, <3>2, <3>3, <3>4 DEF ReadShape, AtLink
    <3> QED BY <2>2, <3>5 DEF Right, Shape, Reading
  <2> QED BY <1>1, <2>1, <2>2
<1>4. ASSUME Steady(v, f2) PROVE Cursor(v, t, f2, k2) /\ Next_lba(v, t, f2, k2) /\ Content(v, t, k2)
  <2>1. Cursor(v, t, f, k) /\ Next_lba(v, t, f, k) /\ Content(v, t, k)
    BY <1>4 DEF Right, Steady
  <2>2. Cursor(v, t, f2, k2)
    BY <1>0, <1>1, <2>1 DEF Cursor, Reading, AtLink
  <2>3. Next_lba(v, t, f2, k2)
    BY <2>1 DEF Next_lba, AtLink
  <2>4. Content(v, t, k2)
    BY <2>1 DEF Content
  <2> QED BY <2>2, <2>3, <2>4
<1> QED BY <1>3, <1>4 DEF Right, Steady

(* A card that fails to read ends the call; a seek goes back, and a read   *)
(* that has moved the offset but cannot follow the link spoils the file.   *)
LEMMA FailsRight ==
  ASSUME NEW v, NEW t, NEW f, NEW k, Right(v, t, f, k), k.at \in {"sector", "link"},
         NEW k2, SameCall(k, k2), k2.at = "return",
         NEW f2, f2.offset = f.offset, f2.current = (IF k.for = "seek" THEN k.save ELSE f.current),
         f2.spoiled <=> f.spoiled \/ (k.at = "link" /\ k.for = "read")
  PROVE  Right(v, t, f2, k2)
<1> USE DEF SameCall
<1>0. k.for = "seek" => k.at = "link"
  BY DEF Right, Shape, SeekShape
<1>1. k.for \in {"seek"} \cup Reading
  BY DEF Right, Shape
<1>2. Shape(v, t, f2, k2)
  <2>1. CASE k.for = "seek"
    BY <1>0, <2>1 DEF Right, Shape, SeekShape, Reading
  <2>2. CASE k.for \in Reading
    <3>1. ReadShape(v, t, f2, k2)
      BY <2>2 DEF Right, Shape, ReadShape, AtLink
    <3> QED BY <2>2, <3>1 DEF Right, Shape, Reading
  <2> QED BY <1>1, <2>1, <2>2
<1>3. ASSUME Steady(v, f2) PROVE Cursor(v, t, f2, k2) /\ Next_lba(v, t, f2, k2) /\ Content(v, t, k2)
  <2>1. Cursor(v, t, f, k) /\ Next_lba(v, t, f, k) /\ Content(v, t, k)
    BY <1>3 DEF Right, Steady
  <2>2. k.for = "peek" /\ k.at = "link" => k.got # <<>>
    BY DEF Right, Shape, ReadShape, Reading, AtLink
  <2>3. ~(k.at = "link" /\ k.for = "read")
    BY <1>3 DEF Steady
  <2>4. Cursor(v, t, f2, k2)
    BY <1>0, <1>1, <2>1, <2>2, <2>3 DEF Cursor, Reading, AtLink
  <2>5. Next_lba(v, t, f2, k2)
    BY DEF Next_lba, AtLink
  <2>6. Content(v, t, k2)
    BY <2>1 DEF Content
  <2> QED BY <2>4, <2>5, <2>6
<1> QED BY <1>2, <1>3 DEF Right, Steady
(* The copy: of the rest of the sector, or of what is left to be read.     *)
Copied(v, f, k, used, n, bytes, f2, k2) ==
  /\ used = (f.offset % SectorBytes)
  /\ n = IF SectorBytes - used <= k.want - Len(k.got) THEN SectorBytes - used
         ELSE k.want - Len(k.got)
  /\ bytes = [i \in 1 .. n |-> <<k.lba, used + i - 1>>]
  /\ f2.offset = f.offset + n /\ f2.current = f.current /\ f2.spoiled = f.spoiled
  /\ k2.for = k.for /\ k2.from = k.from /\ k2.want = k.want /\ k2.got = k.got \o bytes
  /\ k2.count = k.count /\ k2.save = k.save
  /\ k2.lba = IF used + n = SectorBytes THEN k.lba + 1 ELSE k.lba
  /\ k2.at = IF used + n # SectorBytes THEN "drop"
             ELSE IF (k.lba + 1) % v.perCluster = 0 THEN "drop, link" ELSE "drop, go on"

LEMMA CopiesRight ==
  ASSUME NEW v, NEW t, Fine(v, t), NEW f, NEW k, Right(v, t, f, k), k.at = "copy",
         NEW used, NEW n, NEW bytes, NEW f2, NEW k2, Copied(v, f, k, used, n, bytes, f2, k2)
  PROVE  Right(v, t, f2, k2)
<1> DEFINE S == SectorBytes
           P == v.perCluster
           p == f.offset
           s == SectorAt(p)
           l == Len(k.got)
           left == k.want - l
<1>1. S \in Nat \ {0} /\ P \in Nat \ {0} /\ Len(v.chain[t]) \in Nat /\ v.length[t] \in Nat
  BY DEF Fine
<1>2. k.for \in Reading /\ ReadShape(v, t, f, k) /\ p \in 0 .. v.length[t] /\ f.current \in Int
  BY DEF Right, Shape, SeekShape
<1>3. /\ k.from \in Nat /\ k.want \in Nat /\ k.from + k.want <= v.length[t]
      /\ k.got \in Seq(Int \X Int) /\ p = k.from + l /\ l < k.want /\ k.lba \in Int
      /\ k.save \in Int /\ k.count \in Int
  BY <1>2 DEF ReadShape
<1>4. l \in Nat
  BY <1>3, LenProperties
<1>5. used \in 0 .. S - 1 /\ p \in Nat /\ p \in Int /\ s = p \div S
  <2>1. p \in Nat /\ p \in Int
    BY <1>3, <1>4
  <2>2. p % S \in 0 .. S - 1
    BY ONLY <1>1, <2>1, Division
  <2> QED BY <2>1, <2>2 DEF SectorAt, Copied
<1> HIDE DEF S, P, p, s, l, left
<1>6. /\ left \in Nat /\ left > 0 /\ n \in Nat /\ n > 0 /\ n <= left /\ used + n <= S
      /\ used + n # S => n = left
  <2>1. n = IF S - used <= left THEN S - used ELSE left
    BY DEF Copied, S, l, left
  <2>2. left \in Nat /\ left > 0
    BY ONLY <1>3, <1>4 DEF left
  <2> QED BY ONLY <1>1, <1>5, <2>1, <2>2
<1>7. /\ p + n \in Nat /\ p + n = k.from + (l + n) /\ l + n <= k.want /\ p + n <= v.length[t]
      /\ p < v.length[t] /\ l + n > 0
  <2> DEFINE w == k.want
             b == k.from
             e == v.length[t]
  <2>1. left = w - l /\ left \in Nat /\ n \in Nat /\ n > 0 /\ n <= left /\ l \in Nat
    BY <1>4, <1>6 DEF left
  <2>2. p = b + l /\ b \in Nat /\ w \in Nat /\ e \in Nat /\ b + w <= e
    BY <1>1, <1>3
  <2> HIDE DEF w, b, e
  <2>3. p + n \in Nat /\ p + n = b + (l + n) /\ l + n <= w /\ p + n <= e /\ p < e /\ l + n > 0
    BY ONLY <2>1, <2>2
  <2> QED BY <2>3 DEF w, b, e
<1>8. s \in Nat /\ InChain(v, t, s)
  <2>1. p \in 0 .. v.length[t] /\ p < v.length[t]
    BY <1>2, <1>7
  <2> QED BY <2>1 DEF Fine, s
<1>9. ASSUME NEW m \in Nat, used + m <= S
      PROVE  IF used + m < S THEN SectorAt(p + m) = s /\ (p + m) % S = used + m
             ELSE SectorAt(p + m) = s + 1
  <2>1. used = p % S
    BY DEF p, S, Copied
  <2>2. IF (p % S) + m < S THEN (p + m) \div S = p \div S /\ (p + m) % S = (p % S) + m
        ELSE (p + m) \div S = (p \div S) + 1 /\ (p + m) % S = 0
    <3>1. (p % S) + m <= S
      BY <1>9, <2>1
    <3> QED BY ONLY <1>1, <1>5, <3>1, m \in Nat, StepOn
  <2> QED BY <1>5, <2>1, <2>2 DEF SectorAt, S
<1>10. used + n = S => SectorAt(p + n) = s + 1
  BY <1>1, <1>5, <1>6, <1>9
<1>11. used + n # S => SectorAt(p + n) = s
  <2>1. used + n # S => used + n < S
    BY ONLY <1>1, <1>5, <1>6
  <2> QED BY <1>6, <1>9, <2>1
<1>12. f2.offset = p + n /\ f2.current = f.current /\ f2.spoiled = f.spoiled
  BY DEF p, Copied
<1>13. /\ bytes \in Seq(Int \X Int) /\ Len(bytes) = n
       /\ \A i \in 1 .. n : bytes[i] = <<k.lba, used + i - 1>>
  <2>1. \A i \in 1 .. n : <<k.lba, used + i - 1>> \in Int \X Int
    BY <1>1, <1>3, <1>5, <1>6
  <2>2. bytes \in [1 .. n -> Int \X Int] /\ \A i \in 1 .. n : bytes[i] = <<k.lba, used + i - 1>>
    BY <2>1 DEF Copied
  <2> QED BY ONLY <1>6, <2>2
<1>14. /\ k2.got \in Seq(Int \X Int) /\ Len(k2.got) = l + n /\ DOMAIN k2.got = 1 .. l + n
       /\ \A i \in 1 .. l + n : k2.got[i] = IF i <= l THEN k.got[i] ELSE bytes[i - l]
  <2>1. Len(k.got) = l /\ DOMAIN k.got = 1 .. l
    BY <1>3, LenProperties DEF l
  <2>2. LET g == k.got \o bytes
        IN  /\ g \in Seq(Int \X Int) /\ Len(g) = l + n
            /\ \A i \in 1 .. l + n : g[i] = IF i <= l THEN k.got[i] ELSE bytes[i - l]
    <3>1. k.got \in Seq(Int \X Int) /\ bytes \in Seq(Int \X Int)
      BY <1>3, <1>13
    <3> QED BY ONLY <1>13, <2>1, <3>1, ConcatProperties
  <2>3. DOMAIN (k.got \o bytes) = 1 .. l + n
    BY <2>2, LenProperties
  <2> QED BY <2>2, <2>3 DEF Copied
<1>15. k2.lba \in Int /\ k2.got # <<>>
  <2>1. k2.lba \in Int
    <3>1. k.lba + 1 \in Int /\ k.lba \in Int
      BY ONLY <1>3
    <3>2. k2.lba = k.lba \/ k2.lba = k.lba + 1
      BY DEF Copied
    <3> QED BY <3>1, <3>2
  <2>2. Len(<<>>) = 0
    BY EmptySeq
  <2> QED BY <1>7, <1>14, <2>1, <2>2
<1>0. /\ k2.for = k.for /\ k2.from = k.from /\ k2.want = k.want
      /\ k2.count = k.count /\ k2.save = k.save
      /\ k2.at # "drop" => used + n = S /\ k2.lba = k.lba + 1
      /\ k2.at = "drop" => used + n # S
      /\ k2.at = "drop, link" => (k.lba + 1) % P = 0
      /\ k2.at = "drop, go on" => (k.lba + 1) % P # 0
      /\ k2.at \in {"drop", "drop, link", "drop, go on"}
  BY DEF Copied, S, P
<1>16. Shape(v, t, f2, k2)
  <2>2. p + n \in 0 .. v.length[t]
    BY <1>1, <1>7
  <2>3. k.for = "peek" => k.want = 1
    BY <1>2 DEF ReadShape
  <2>4. ReadShape(v, t, f2, k2)
    BY <1>0, <1>3, <1>7, <1>12, <1>14, <1>15, <2>3 DEF ReadShape, AtLink
  <2> QED BY <1>0, <1>2, <1>12, <2>2, <2>4 DEF Shape, Reading
<1>17. ASSUME Steady(v, f2) PROVE Cursor(v, t, f2, k2) /\ Next_lba(v, t, f2, k2) /\ Content(v, t, k2)
  <2>1. Cursor(v, t, f, k) /\ Next_lba(v, t, f, k) /\ Content(v, t, k)
    BY <1>12, <1>17 DEF Right, Steady
  <2>2. /\ (k.lba - s) % P = 0
        /\ Follows(v, t) => k.lba = Place(v, t, s)
    BY <1>2, <1>8, <2>1 DEF Next_lba, s, p, P
  <2>3. f.current = v.chain[t][Link(v, s)]
    BY <1>8, <2>1 DEF Cursor, Agrees, s, p
  <2>4. k.for = "peek" => Agrees(v, t, k.from, k.save)
    BY <2>1 DEF Cursor
  <2>5. (k.lba + 1) % P = (s + 1) % P
    <3> DEFINE m == k.lba - s
    <3>1. m \in Int /\ m % P = 0 /\ s + 1 \in Int /\ m + (s + 1) = k.lba + 1
      BY <1>3, <1>8, <2>2
    <3> HIDE DEF m
    <3>2. (m + (s + 1)) % P = (s + 1) % P
      BY ONLY <1>1, <3>1, Beyond
    <3> QED BY <3>1, <3>2
  <2>6. /\ Link(v, s) \in Nat \ {0}
        /\ IF (s + 1) % P = 0 THEN Link(v, s + 1) = Link(v, s) + 1 ELSE Link(v, s + 1) = Link(v, s)
    BY <1>8, NextSector DEF P
  <2>7. Link(v, s) \in 1 .. Len(v.chain[t])
    BY <1>1, <1>8, <2>6 DEF InChain
  <2>8. Cursor(v, t, f2, k2)
    <3>1. CASE k2.at = "drop"
      <4>1. SectorAt(p + n) = s
        BY <1>0, <1>11, <3>1
      <4>2. Agrees(v, t, p + n, f.current)
        BY <2>3, <4>1, <1>8 DEF Agrees
      <4> QED BY <1>0, <1>2, <1>12, <2>4, <3>1, <4>2 DEF Cursor, Reading, AtLink
    <3>2. CASE k2.at = "drop, go on"
      <4>1. SectorAt(p + n) = s + 1 /\ (s + 1) % P # 0
        BY <1>0, <1>10, <2>5, <3>2
      <4>2. Link(v, s + 1) = Link(v, s)
        BY <2>6, <4>1
      <4>3. Agrees(v, t, p + n, f.current)
        BY <1>8, <2>3, <4>1, <4>2 DEF Agrees, InChain
      <4> QED BY <1>0, <1>2, <1>12, <2>4, <3>2, <4>3 DEF Cursor, Reading, AtLink
    <3>3. CASE k2.at = "drop, link"
      <4>1. SectorAt(p + n) = s + 1 /\ (s + 1) % P = 0
        BY <1>0, <1>10, <2>5, <3>3
      <4>2. (s + 1) \div P = Link(v, s)
        <5>1. Link(v, s + 1) = Link(v, s) + 1
          BY <2>6, <4>1
        <5>2. Link(v, s + 1) = 1 + ((s + 1) \div P) /\ (s + 1) \div P \in Int
          BY <1>1, <1>8 DEF Link, P
        <5> QED BY ONLY <2>6, <5>1, <5>2
      <4> QED BY <1>0, <1>2, <1>12, <2>3, <2>4, <2>7, <3>3, <4>1, <4>2 DEF Cursor, Reading, AtLink, P
    <3> QED BY <1>0, <3>1, <3>2, <3>3
  <2>9. Next_lba(v, t, f2, k2)
    <3>1. CASE k2.at = "drop"
      BY <3>1 DEF Next_lba, AtLink
    <3>2. CASE k2.at # "drop"
      <4>1. SectorAt(p + n) = s + 1 /\ k2.lba = k.lba + 1
        BY <1>0, <1>10, <3>2
      <4>2. (k2.lba - (s + 1)) % P = 0
        <5>1. k2.lba - (s + 1) = k.lba - s
          BY ONLY <1>3, <1>8, <4>1
        <5> QED BY <2>2, <5>1
      <4>3. ASSUME Follows(v, t), InChain(v, t, s + 1) PROVE k2.lba = Place(v, t, s + 1)
        <5>1. Place(v, t, s + 1) = Place(v, t, s) + 1
          BY <1>8, <4>3, NextPlace
        <5> QED BY <2>2, <4>1, <4>3, <5>1
      <4> QED BY <1>12, <4>1, <4>2, <4>3 DEF Next_lba, P
    <3> QED BY <3>1, <3>2
  <2>10. Content(v, t, k2)
    <3> SUFFICES ASSUME Follows(v, t), NEW i \in 1 .. l + n
                 PROVE  k2.got[i] = <<Place(v, t, SectorAt(k.from + i - 1)), (k.from + i - 1) % SectorBytes>>
      BY <1>0, <1>14 DEF Content
    <3>1. CASE i <= l
      <4>1. i \in DOMAIN k.got
        <5>1. DOMAIN k.got = 1 .. l
          BY <1>3, LenProperties DEF l
        <5>2. i \in 1 .. l
          BY <1>4, <3>1
        <5> QED BY <5>1, <5>2
      <4> QED BY <1>14, <2>1, <3>1, <4>1 DEF Content
    <3>2. CASE ~(i <= l)
      <4> DEFINE m == i - l - 1
      <4>1. /\ m \in Nat /\ m < n /\ i - l \in 1 .. n /\ used + (i - l) - 1 = used + m
            /\ k.from + i - 1 = p + m
        <5>1. i \in Int /\ i > l /\ i <= l + n
          BY ONLY <1>4, <1>6, <3>2, i \in 1 .. l + n
        <5>2. m = i - l - 1 /\ used \in Int /\ l \in Nat /\ n \in Nat
          BY <1>4, <1>5, <1>6
        <5> HIDE DEF m
        <5>3. m \in Nat /\ m < n /\ i - l \in 1 .. n /\ used + (i - l) - 1 = used + m
          BY ONLY <5>1, <5>2
        <5> QED BY ONLY <1>3, <5>1, <5>2, <5>3
      <4>2. used + m < S /\ used + m <= S
        BY ONLY <1>1, <1>5, <1>6, <4>1
      <4> HIDE DEF m
      <4>3. SectorAt(p + m) = s /\ (p + m) % S = used + m
        BY <1>9, <4>1, <4>2
      <4>4. k2.got[i] = <<k.lba, used + m>>
        BY <1>13, <1>14, <3>2, <4>1
      <4> QED BY <2>2, <4>1, <4>3, <4>4 DEF S
    <3> QED BY <3>1, <3>2
  <2> QED BY <2>8, <2>9, <2>10
<1> QED BY <1>16, <1>17 DEF Right, Steady
-----------------------------------------------------------------------------
(* A link that has been read, wherever the current cluster is.             *)
Followed(v, link, f, k, f2, k2) ==
  LET more  == link <= Begun(v).max
      seeks == k.for = "seek"
      last  == k.count = 1
  IN  /\ f2.current = (IF seeks /\ ~more THEN k.save ELSE link) /\ f2.spoiled = f.spoiled
      /\ f2.offset = IF seeks /\ more /\ last THEN k.want ELSE f.offset
      /\ k2.for = k.for /\ k2.from = k.from /\ k2.want = k.want /\ k2.got = k.got
      /\ k2.lba = k.lba /\ k2.save = k.save /\ k2.count = k.count - 1
      /\ k2.at = IF ~more \/ (seeks /\ last) THEN "return"
                 ELSE IF seeks THEN "link"
                 ELSE IF k.want - Len(k.got) = 0 THEN "return" ELSE "sector"

LEMMA ReadFollowsRight ==
  ASSUME NEW v, NEW t, Fine(v, t), NEW f, NEW k, Right(v, t, f, k), k.at = "linked",
         k.for \in Reading, NEW link \in Int,
         f.current \in DOMAIN v.fat => link = v.fat[f.current],
         NEW f2, NEW k2, Followed(v, link, f, k, f2, k2)
  PROVE  Right(v, t, f2, k2)
<1> DEFINE P == v.perCluster
           s == SectorAt(f.offset)
           j == s \div P
           c == v.chain[t]
<1>1. /\ f2.current = link /\ f2.spoiled = f.spoiled /\ f2.offset = f.offset
      /\ k2.for = k.for /\ k2.from = k.from /\ k2.want = k.want /\ k2.got = k.got
      /\ k2.lba = k.lba /\ k2.save = k.save /\ k2.count = k.count - 1
      /\ k2.at \in {"return", "sector"}
      /\ k2.at = "sector" => k.want - Len(k.got) # 0
  BY DEF Followed, Reading
<1>2. ReadShape(v, t, f, k) /\ f.offset \in 0 .. v.length[t]
  BY DEF Right, Shape
<1>3. k2.at = "sector" => Len(k.got) < k.want
  <2>1. Len(k.got) \in Nat /\ k.want \in Nat /\ Len(k.got) <= k.want
    BY <1>2, LenProperties DEF ReadShape
  <2>2. k.want - Len(k.got) # 0 => Len(k.got) < k.want
    BY ONLY <2>1
  <2> QED BY <1>1, <2>2
<1>4. Shape(v, t, f2, k2)
  <2>1. k2.count \in Int
    BY <1>1, <1>2 DEF ReadShape
  <2>2. ReadShape(v, t, f2, k2)
    BY <1>1, <1>2, <1>3, <2>1 DEF ReadShape, AtLink
  <2> QED BY <1>1, <1>2, <2>2 DEF Shape, Reading
<1>5. ASSUME Steady(v, f2) PROVE Cursor(v, t, f2, k2) /\ Next_lba(v, t, f2, k2) /\ Content(v, t, k2)
  <2>1. Cursor(v, t, f, k) /\ Next_lba(v, t, f, k) /\ Content(v, t, k)
    BY <1>1, <1>5 DEF Right, Steady
  <2>2. j \in 1 .. Len(c) /\ f.current = c[j]
    BY <2>1 DEF Cursor, AtLink
  <2>3. /\ c[j] \in DOMAIN v.fat /\ Len(c) \in Nat
        /\ IF j = Len(c) THEN v.fat[c[j]] > Begun(v).max ELSE v.fat[c[j]] = c[j + 1]
    BY <2>2 DEF Fine
  <2>4. IF j = Len(c) THEN link > Begun(v).max ELSE link = c[j + 1]
    BY <2>2, <2>3
  <2>5. Link(v, s) = 1 + j
    BY DEF Link
  <2> HIDE DEF j, c, s
  <2>6. 1 + j = j + 1 /\ (1 + j <= Len(c) <=> j # Len(c))
    BY <2>2, <2>3
  <2>7. Agrees(v, t, f.offset, link)
    BY <2>4, <2>5, <2>6 DEF Agrees, InChain, s, c
  <2>8. Cursor(v, t, f2, k2)
    <3>1. k2.for = "peek" => Agrees(v, t, k2.from, k2.save)
      BY <1>1, <2>1 DEF Cursor
    <3> QED BY <1>1, <2>7, <3>1 DEF Cursor, Reading, AtLink
  <2>9. Next_lba(v, t, f2, k2)
    BY <1>1, <2>1 DEF Next_lba, AtLink
  <2>10. Content(v, t, k2)
    BY <1>1, <2>1 DEF Content
  <2> QED BY <2>8, <2>9, <2>10
<1> QED BY <1>4, <1>5 DEF Right, Steady

LEMMA SeekFollowsRight ==
  ASSUME NEW v, NEW t, Fine(v, t), NEW f, NEW k, Right(v, t, f, k), k.at = "linked",
         k.for = "seek", NEW link \in Int,
         f.current \in DOMAIN v.fat => link = v.fat[f.current],
         NEW f2, NEW k2, Followed(v, link, f, k, f2, k2)
  PROVE  Right(v, t, f2, k2)
<1> DEFINE more == link <= Begun(v).max
           last == k.count = 1
           c == v.chain[t]
           w == Link(v, SectorAt(k.want))
           j == w - k.count
<1>1. /\ f2.current = (IF ~more THEN k.save ELSE link) /\ f2.spoiled = f.spoiled
      /\ f2.offset = IF more /\ last THEN k.want ELSE f.offset
      /\ k2.for = k.for /\ k2.from = k.from /\ k2.want = k.want /\ k2.got = k.got
      /\ k2.lba = k.lba /\ k2.save = k.save /\ k2.count = k.count - 1
      /\ k2.at = IF ~more \/ last THEN "return" ELSE "link"
  BY DEF Followed
<1>2. /\ k.want \in 0 .. v.length[t] /\ k.got = <<>> /\ k.count \in Nat /\ k.count > 0 /\ k.save \in Int
      /\ f.offset \in 0 .. v.length[t]
  BY DEF Right, Shape, SeekShape
<1>3. k2.count \in Nat /\ (k2.at # "return" => k2.count > 0)
  <2>1. k.count - 1 \in Nat /\ (k.count # 1 => k.count - 1 > 0)
    BY ONLY <1>2
  <2> QED BY <1>1, <2>1
<1>4. Shape(v, t, f2, k2)
  <2>1. SeekShape(v, t, f2, k2)
    BY <1>1, <1>2, <1>3 DEF SeekShape
  <2> QED BY <1>1, <1>2, <2>1 DEF Shape, Reading
<1>5. ASSUME Steady(v, f2) PROVE Cursor(v, t, f2, k2) /\ Next_lba(v, t, f2, k2) /\ Content(v, t, k2)
  <2>1. Cursor(v, t, f, k)
    BY <1>1, <1>5 DEF Right, Steady
  <2>2. j \in 1 .. Len(c) /\ f.current = c[j] /\ Agrees(v, t, f.offset, k.save)
    BY <2>1 DEF Cursor
  <2>3. /\ c[j] \in DOMAIN v.fat /\ Len(c) \in Nat /\ w \in Nat /\ Begun(v).max \in Int
        /\ IF j = Len(c) THEN v.fat[c[j]] > Begun(v).max ELSE v.fat[c[j]] = c[j + 1]
    <3>1. Len(c) \in Nat /\ Begun(v).max \in Int
      BY DEF Fine
    <3>2. w \in Nat
      <4>1. w \in 1 .. Len(c) + 1
        BY <1>2 DEF Fine
      <4> QED BY <3>1, <4>1
    <3> HIDE DEF w
    <3>3. c[j] \in DOMAIN v.fat
          /\ IF j = Len(c) THEN v.fat[c[j]] > Begun(v).max ELSE v.fat[c[j]] = c[j + 1]
      BY <2>2 DEF Fine
    <3> QED BY <3>1, <3>2, <3>3
  <2>4. IF j = Len(c) THEN link > Begun(v).max ELSE link = c[j + 1]
    BY <2>2, <2>3
  <2>5. j = w - k.count
    OBVIOUS
  <2> HIDE DEF j, c, w
  <2>6. more => j + 1 \in 1 .. Len(c) /\ link = c[j + 1]
    <3>1. more => j # Len(c)
      BY <2>3, <2>4
    <3>2. j # Len(c) => j + 1 \in 1 .. Len(c)
      BY ONLY <2>2, <2>3
    <3> QED BY <2>4, <3>1, <3>2
  <2>7. CASE ~more
    <3>1. f2.current = k.save /\ f2.offset = f.offset /\ k2.at = "return"
      BY <1>1, <2>7
    <3> QED BY <1>1, <1>2, <2>2, <3>1 DEF Cursor, Next_lba, Content, Reading, AtLink
  <2>8. CASE more /\ last
    <3>1. f2.current = link /\ f2.offset = k.want /\ k2.at = "return"
      BY <1>1, <2>8
    <3>2. j + 1 = w
      BY ONLY <2>3, <2>5, <2>8
    <3>3. w <= Len(c)
      BY <2>3, <2>6, <2>8, <3>2
    <3>4. Agrees(v, t, k.want, link)
      BY <2>6, <2>8, <3>2, <3>3 DEF Agrees, InChain, w, c
    <3> QED BY <1>1, <1>2, <3>1, <3>4 DEF Cursor, Next_lba, Content, Reading, AtLink
  <2>9. CASE more /\ ~last
    <3>1. f2.current = link /\ f2.offset = f.offset /\ k2.at = "link"
      BY <1>1, <2>9
    <3>2. w - k2.count = j + 1
      <4>1. k2.count = k.count - 1
        BY <1>1
      <4> QED BY ONLY <1>2, <2>3, <2>5, <4>1
    <3>3. w - k2.count \in 1 .. Len(c) /\ f2.current = c[w - k2.count]
      BY <2>6, <2>9, <3>1, <3>2
    <3> QED BY <1>1, <1>2, <2>2, <3>1, <3>3 DEF Cursor, Next_lba, Content, Reading, AtLink, w, c
  <2> QED BY <2>7, <2>8, <2>9
<1> QED BY <1>4, <1>5 DEF Right, Steady

(* A seek, forwards from where it is or from the first cluster.            *)
First(v, t) == IF v.chain[t] = <<>> THEN 0 ELSE Head(v.chain[t])

Sought(v, t, pos, there, here, count, f, f2, k2) ==
  /\ Link(v, SectorAt(pos)) = 1 + there /\ Link(v, SectorAt(f.offset)) = 1 + here
  /\ count = IF there >= here THEN there - here ELSE there
  /\ f2.current = (IF there >= here THEN f.current ELSE First(v, t))
  /\ f2.offset = (IF count = 0 THEN pos ELSE f.offset) /\ f2.spoiled = f.spoiled
  /\ k2.for = "seek" /\ k2.want = pos /\ k2.got = <<>> /\ k2.count = count
  /\ k2.save = f.current /\ k2.at = IF count = 0 THEN "return" ELSE "link"

LEMMA FirstFacts ==
  ASSUME NEW v, NEW t, Fine(v, t)
  PROVE  First(v, t) \in Int /\ (Len(v.chain[t]) >= 1 => First(v, t) = v.chain[t][1])
<1>1. Len(v.chain[t]) \in Nat /\ (v.chain[t] # <<>> <=> Len(v.chain[t]) > 0)
      /\ \A k \in 1 .. Len(v.chain[t]) : v.chain[t][k] \in Int
  BY DEF Fine
<1>2. v.chain[t] # <<>> => 1 \in 1 .. Len(v.chain[t]) /\ Head(v.chain[t]) = v.chain[t][1]
  BY <1>1
<1>3. Len(v.chain[t]) >= 1 => v.chain[t] # <<>>
  BY <1>1
<1> QED BY <1>1, <1>2, <1>3 DEF First

LEMMA SeeksRight ==
  ASSUME NEW v, NEW t, Fine(v, t), NEW f, NEW k, Right(v, t, f, k), k.at = "idle",
         NEW pos \in 0 .. v.length[t], NEW there \in Nat, NEW here \in Nat, NEW count,
         NEW f2, NEW k2, Sought(v, t, pos, there, here, count, f, f2, k2)
  PROVE  Right(v, t, f2, k2)
<1> DEFINE c == v.chain[t]
           w == Link(v, SectorAt(pos))
           o == Link(v, SectorAt(f.offset))
           n == Len(c)
<1>1. f.offset \in 0 .. v.length[t] /\ f.current \in Int
  BY DEF Right, Shape
<1>2. /\ n \in Nat /\ v.length[t] \in Nat /\ w \in 1 .. n + 1 /\ o \in 1 .. n + 1
      /\ c # <<>> <=> n > 0
  BY <1>1 DEF Fine
<1>3. w = 1 + there /\ o = 1 + here /\ count = IF there >= here THEN there - here ELSE there
  BY DEF Sought
<1> HIDE DEF c, w, o, n
<1>4. count \in Nat
  BY ONLY <1>3, there \in Nat, here \in Nat
<1>5. First(v, t) \in Int /\ (n >= 1 => First(v, t) = c[1])
  BY FirstFacts DEF n, c
<1>6. Shape(v, t, f2, k2)
  <2>1. k2.at # "return" => count > 0
    <3>1. count # 0 => count > 0
      BY ONLY <1>4
    <3> QED BY <3>1 DEF Sought
  <2>2. SeekShape(v, t, f2, k2)
    BY <1>1, <1>4, <2>1 DEF SeekShape, Sought
  <2>3. f2.offset \in 0 .. v.length[t] /\ f2.current \in Int
    BY <1>1, <1>5 DEF Sought
  <2> QED BY <2>2, <2>3 DEF Shape, Reading, Sought
<1>7. ASSUME Steady(v, f2) PROVE Cursor(v, t, f2, k2) /\ Next_lba(v, t, f2, k2) /\ Content(v, t, k2)
  <2>1. Agrees(v, t, f.offset, f.current)
    BY <1>7 DEF Right, Steady, Cursor, Sought
  <2>2. k2.for = "seek" /\ k2.got = <<>> /\ k2.want = pos /\ k2.count = count /\ k2.save = f.current
    BY DEF Sought
  <2>3. CASE count = 0
    <3>1. f2.offset = pos /\ k2.at = "return"
      BY <2>3 DEF Sought
    <3>2. Agrees(v, t, pos, f2.current)
      <4>1. CASE there >= here
        <5>1. w = o
          BY ONLY <1>3, <2>3, <4>1, there \in Nat, here \in Nat
        <5>2. f2.current = f.current
          BY <4>1 DEF Sought
        <5> QED BY <2>1, <5>1, <5>2 DEF Agrees, InChain, w, o
      <4>2. CASE ~(there >= here)
        <5>1. w = 1
          BY ONLY <1>3, <2>3, <4>2, there \in Nat, here \in Nat
        <5>2. f2.current = First(v, t)
          BY <4>2 DEF Sought
        <5>3. w <= n <=> c # <<>>
          BY ONLY <1>2, <5>1
        <5> QED BY <1>2, <1>5, <5>1, <5>2, <5>3 DEF Agrees, InChain, w, n, c
      <4> QED BY <4>1, <4>2
    <3> QED BY <2>2, <3>1, <3>2 DEF Cursor, Next_lba, Content, Reading, AtLink
  <2>4. CASE count # 0
    <3>1. f2.offset = f.offset /\ k2.at = "link"
      BY <2>4 DEF Sought
    <3>2. w - count \in 1 .. n /\ f2.current = c[w - count]
      <4>1. CASE there >= here
        <5>1. w - count = o /\ o <= n
          BY ONLY <1>2, <1>3, <2>4, <4>1, there \in Nat, here \in Nat
        <5>2. f2.current = f.current
          BY <4>1 DEF Sought
        <5> QED BY <1>2, <2>1, <5>1, <5>2 DEF Agrees, InChain, o, n, c
      <4>2. CASE ~(there >= here)
        <5>1. w - count = 1 /\ 1 <= n /\ 1 \in 1 .. n
          BY ONLY <1>2, <1>3, <2>4, <4>2, there \in Nat, here \in Nat
        <5>2. f2.current = First(v, t)
          BY <4>2 DEF Sought
        <5> QED BY <1>2, <1>5, <5>1, <5>2
      <4> QED BY <4>1, <4>2
    <3> QED BY <2>1, <2>2, <3>1, <3>2 DEF Cursor, Next_lba, Content, Reading, AtLink, w, n, c
  <2> QED BY <2>3, <2>4
<1> QED BY <1>6, <1>7 DEF Right, Steady

(* The call returns, and peek puts the file back where it was.             *)
LEMMA ReturnsRight ==
  ASSUME NEW v, NEW t, Fine(v, t), NEW f, NEW k, Right(v, t, f, k), k.at = "return",
         NEW k2, k2.at = "idle", k2.for = "none", k2.got = <<>>, NEW f2, f2.spoiled = f.spoiled,
         IF k.for = "peek" /\ k.got # <<>> THEN f2.offset = k.from /\ f2.current = k.save
         ELSE f2.offset = f.offset /\ f2.current = f.current
  PROVE  Right(v, t, f2, k2)
<1>1. f.offset \in 0 .. v.length[t] /\ f.current \in Int /\ v.length[t] \in Nat
  BY DEF Right, Shape, Fine
<1>2. k.for = "peek" => k.from \in 0 .. v.length[t] /\ k.save \in Int
  BY <1>1 DEF Right, Shape, ReadShape, Reading
<1>3. Shape(v, t, f2, k2)
  BY <1>1, <1>2 DEF Shape, Reading
<1>4. ASSUME Steady(v, f2) PROVE Cursor(v, t, f2, k2) /\ Next_lba(v, t, f2, k2) /\ Content(v, t, k2)
  <2>1. Cursor(v, t, f, k)
    BY <1>4 DEF Right, Steady
  <2>2. Agrees(v, t, f2.offset, f2.current)
    BY <2>1 DEF Cursor
  <2> QED BY <2>2 DEF Cursor, Next_lba, Content, Reading
<1> QED BY <1>3, <1>4 DEF Right, Steady

LEMMA StartsRight ==
  ASSUME NEW v, NEW t, Fine(v, t), NEW f2, f2.offset = 0, f2.current = First(v, t),
         NEW k, k.at = "idle", k.for = "none", k.got = <<>>
  PROVE  Right(v, t, f2, k)
<1>1. SectorAt(0) = 0 /\ Link(v, 0) = 1
  <2>1. v.perCluster \in Nat \ {0} /\ SectorBytes \in Nat \ {0} /\ 0 \in Int
    BY DEF Fine
  <2>2. \A b \in Nat \ {0} : 0 \div b = 0
    OBVIOUS
  <2> QED BY <2>1, <2>2 DEF SectorAt, Link
<1>2. Len(v.chain[t]) \in Nat /\ v.length[t] \in Nat /\ (v.chain[t] # <<>> <=> Len(v.chain[t]) > 0)
  BY DEF Fine
<1>3. Agrees(v, t, 0, First(v, t))
  <2>1. 1 <= Len(v.chain[t]) <=> v.chain[t] # <<>>
    BY ONLY <1>2
  <2> QED BY <1>1, <1>2, <2>1, FirstFacts DEF Agrees, InChain
<1>4. Shape(v, t, f2, k)
  BY <1>2, FirstFacts DEF Shape, Reading
<1> QED BY <1>3, <1>4 DEF Right, Cursor, Next_lba, Content, Reading
-----------------------------------------------------------------------------
(* The least of two numbers, for what FiniteSetsExt defines of a set.      *)
LEMMA LeastOfTwo ==
  ASSUME NEW a \in Int, NEW b \in Int
  PROVE  Min({a, b}) = IF a <= b THEN a ELSE b
<1> DEFINE m == IF a <= b THEN a ELSE b
<1>1. m \in {a, b} /\ \A y \in {a, b} : m <= y
  OBVIOUS
<1>2. \A x \in {a, b} : (\A y \in {a, b} : x <= y) => x = m
  OBVIOUS
<1> HIDE DEF m
<1>3. (CHOOSE x \in {a, b} : \A y \in {a, b} : x <= y) = m
  BY <1>1, <1>2
<1> QED BY <1>3 DEF Min, m

LEMMA ThreadsRight ==
  ASSUME AllRight, NEW t \in Thread, vol' = vol, sd' = sd,
         \A u \in Thread \ {t} : task'[u] = task[u] /\ file'[u] = file[u],
         Right(vol, t, file'[t], task'[t])
  PROVE  AllRight'
<1>1. ASSUME NEW u \in Thread PROVE Right(vol', u, file'[u], task'[u])
  BY DEF AllRight
<1> QED BY <1>1 DEF AllRight

LEMMA InitRight == Init => AllRight
<1> SUFFICES ASSUME Init PROVE AllRight
  OBVIOUS
<1>1. vol \in Volumes /\ sd = Begun(vol)
  BY DEF Init
<1>2. ASSUME NEW t \in Thread PROVE Right(vol, t, file[t], task[t])
  <2>1. Fine(vol, t)
    BY <1>1, VolumeIsFine
  <2>2. file[t].offset = 0 /\ file[t].current = First(vol, t)
    BY DEF Init, Start, First
  <2>3. task[t].at = "idle" /\ task[t].for = "none" /\ task[t].got = <<>>
    BY DEF Init, Idle
  <2> QED BY <2>1, <2>2, <2>3, StartsRight
<1> QED BY <1>1, <1>2 DEF AllRight

LEMMA FetchRight ==
  ASSUME Held, AllRight, NEW t \in Thread, NEW lba, NEW allocate, NEW at,
         \/ task[t].at = "sector" /\ at = "copy"
         \/ task[t].at = "link" /\ at = "linked",
         Fetch(t, lba, allocate, at)
  PROVE  AllRight'
<1>1. /\ DOMAIN task = Thread /\ DOMAIN file = Thread
      /\ DOMAIN task[t] = TaskFields /\ DOMAIN file[t] = FileFields
  BY DEF Held, Shapes
<1>2. TaskFields = {"at", "for", "from", "want", "got", "lba", "item", "count", "save", "ended"}
  BY DEF TaskFields, Idle
<1>3. vol' = vol /\ sd' = sd
  BY DEF Fetch
<1>4. Right(vol, t, file[t], task[t])
  BY DEF AllRight
<1>5. ASSUME NEW i, Set(t, [task[t] EXCEPT !.at = at, !.item = i]), file' = file
      PROVE  AllRight'
  <2>1. \A u \in Thread \ {t} : task'[u] = task[u] /\ file'[u] = file[u]
    BY <1>1, <1>5 DEF Set
  <2>2. SameCall(task[t], task'[t]) /\ task'[t].at = at
    BY <1>1, <1>2, <1>5 DEF Set, SameCall
  <2>3. SameFile(file[t], file'[t])
    BY <1>5 DEF SameFile
  <2>4. Right(vol, t, file'[t], task'[t])
    BY <1>4, <2>2, <2>3, GoesOnRight
  <2> QED BY <1>3, <2>1, <2>4, ThreadsRight
<1>6. ASSUME Set(t, [task[t] EXCEPT !.at = "return", !.ended = "no sector"]),
             file' = [file EXCEPT ![t].spoiled = @ \/ (at = "linked" /\ task[t].for = "read"),
                                  ![t].current = IF task[t].for = "seek" THEN task[t].save ELSE @]
      PROVE  AllRight'
  <2>1. \A u \in Thread \ {t} : task'[u] = task[u] /\ file'[u] = file[u]
    BY <1>1, <1>6 DEF Set
  <2>2. SameCall(task[t], task'[t]) /\ task'[t].at = "return"
    BY <1>1, <1>2, <1>6 DEF Set, SameCall
  <2>3. /\ file'[t].offset = file[t].offset
        /\ file'[t].current = (IF task[t].for = "seek" THEN task[t].save ELSE file[t].current)
        /\ file'[t].spoiled <=> file[t].spoiled \/ (at = "linked" /\ task[t].for = "read")
    BY <1>1, <1>6 DEF FileFields
  <2>4. file'[t].spoiled <=> file[t].spoiled \/ (task[t].at = "link" /\ task[t].for = "read")
    BY <2>3
  <2>5. task[t].at \in {"sector", "link"}
    OBVIOUS
  <2>6. Right(vol, t, file'[t], task'[t])
    BY ONLY <1>4, <2>2, <2>3, <2>4, <2>5, FailsRight
  <2> QED BY <1>3, <2>1, <2>6, ThreadsRight
<1>7. \/ \E i : Set(t, [task[t] EXCEPT !.at = at, !.item = i]) /\ file' = file
      \/ /\ Set(t, [task[t] EXCEPT !.at = "return", !.ended = "no sector"])
         /\ file' = [file EXCEPT ![t].spoiled = @ \/ (at = "linked" /\ task[t].for = "read"),
                                 ![t].current = IF task[t].for = "seek" THEN task[t].save ELSE @]
  BY DEF Fetch
<1> QED BY <1>5, <1>6, <1>7

LEMMA NextRight == Held /\ AllRight /\ [Next]_vars => AllRight'
<1> SUFFICES ASSUME Held, AllRight, [Next]_vars PROVE AllRight'
  OBVIOUS
<1>1. CASE UNCHANGED vars
  BY <1>1 DEF vars, AllRight
<1>2. ASSUME NEW t \in Thread,
             \/ \E size \in Sizes[t] : Read(t, size)
             \/ t = 1 /\ (Peek(t) \/ rewind(t) \/ \E pos \in 0 .. vol.length[t] : Seek(t, pos))
             \/ FetchSector(t) \/ Copy(t) \/ Drops(t) \/ FetchFat(t) \/ Linked(t) \/ Return(t)
      PROVE  AllRight'
  <2>1. /\ DOMAIN task = Thread /\ DOMAIN file = Thread
        /\ DOMAIN task[t] = TaskFields /\ DOMAIN file[t] = FileFields /\ Knows(t)
    BY DEF Held, Shapes
  <2>2. TaskFields = {"at", "for", "from", "want", "got", "lba", "item", "count", "save", "ended"}
        /\ FileFields = {"offset", "current", "spoiled"}
    BY DEF TaskFields, Idle, FileFields
  <2> DEFINE f == file[t]
             k == task[t]
  <2>3. Right(vol, t, f, k) /\ sd = Begun(vol) /\ vol \in Volumes
    BY DEF AllRight
  <2>4. Fine(vol, t)
    BY <2>3, VolumeIsFine
  <2>5. f.offset \in 0 .. vol.length[t] /\ vol.length[t] \in Nat /\ f.offset \in Nat
        /\ vol.perCluster \in Nat \ {0} /\ SectorBytes \in Nat \ {0}
    <3>1. f.offset \in 0 .. vol.length[t] /\ vol.length[t] \in Nat
      BY <2>3, <2>4 DEF Right, Shape, Fine
    <3> QED BY <2>4, <3>1 DEF Fine
  <2> HIDE DEF f, k
  <2>6. ASSUME NEW size \in Nat, NEW for \in Reading, for = "peek" => size = 1, Reads(t, size, for)
        PROVE  AllRight'
    <3> DEFINE want == Min({size, vol.length[t] - f.offset})
    <3>1. /\ k.at = "idle" /\ sd.ok /\ want > 0
          /\ vol' = vol /\ sd' = sd /\ file' = file
      BY <2>6 DEF Reads, Runs, f, k
    <3>2. want \in Nat \ {0} /\ f.offset + want <= vol.length[t] /\ (for = "peek" => want = 1)
      <4> DEFINE rest == vol.length[t] - f.offset
      <4>1. rest \in Int /\ f.offset + rest = vol.length[t] /\ size \in Int
        BY ONLY <2>5, size \in Nat
      <4>2. want = IF size <= rest THEN size ELSE rest
        BY ONLY <4>1, LeastOfTwo
      <4> HIDE DEF rest, want
      <4>3. want \in Nat \ {0} /\ f.offset + want <= vol.length[t]
        BY ONLY <2>5, <3>1, <4>1, <4>2, size \in Nat
      <4>4. for = "peek" => want = 1
        <5>1. size = 1 => want = 1
          BY ONLY <3>1, <4>1, <4>2
        <5> QED BY <2>6, <5>1
      <4> QED BY <4>3, <4>4
    <3> HIDE DEF want
    <3>3. \A u \in Thread \ {t} : task'[u] = task[u] /\ file'[u] = file[u]
      BY <2>1, <2>6, <3>1 DEF Reads, Set
    <3>4. sd.data = Area(vol)
      BY <2>3, <3>1 DEF Begun, Area
    <3>5. /\ task'[t].at = "sector" /\ task'[t].for = for /\ task'[t].from = f.offset
          /\ task'[t].got = <<>> /\ task'[t].want = want /\ task'[t].save = f.current
          /\ task'[t].count = 0
          /\ task'[t].lba = custer_to_sector(f.current) + (f.offset % ClusterBytes) \div SectorBytes
      BY <2>1, <2>6 DEF Reads, Set, Idle, f, want
    <3>6. task'[t].lba = (f.current - 2) * vol.perCluster + Area(vol)
                         + (f.offset % (vol.perCluster * SectorBytes)) \div SectorBytes
      BY <3>4, <3>5 DEF custer_to_sector, ClusterBytes
    <3>7. task'[t].count \in Int
      BY <3>5
    <3>8. Right(vol, t, f, task'[t])
      BY <2>3, <2>4, <2>6, <3>1, <3>2, <3>5, <3>6, <3>7, ReadStartsRight
    <3> QED BY <3>1, <3>3, <3>8, ThreadsRight DEF f
  <2>7. CASE rewind(t)
    <3>1. k.at = "idle" /\ vol' = vol /\ sd' = sd /\ task' = task
      BY <2>7 DEF rewind, Runs, k
    <3>2. \A u \in Thread \ {t} : task'[u] = task[u] /\ file'[u] = file[u]
      BY <2>1, <2>7, <3>1 DEF rewind
    <3>3. file'[t].offset = 0 /\ file'[t].current = First(vol, t)
      BY <2>1, <2>2, <2>7 DEF rewind, Start, First
    <3>4. k.for = "none" /\ k.got = <<>>
      BY <2>3, <3>1 DEF Right, Shape, SeekShape, ReadShape, AtLink
    <3>5. Right(vol, t, file'[t], k)
      BY <2>4, <3>1, <3>3, <3>4, StartsRight
    <3> QED BY <3>1, <3>2, <3>5, ThreadsRight DEF k
  <2>8. ASSUME NEW pos \in 0 .. vol.length[t], Seek(t, pos) PROVE AllRight'
    <3> DEFINE there == pos \div ClusterBytes
               here == f.offset \div ClusterBytes
               count == IF there >= here THEN there - here ELSE there
    <3>1. k.at = "idle" /\ vol' = vol /\ sd' = sd
      BY <2>8 DEF Seek, Runs, k
    <3>2. \A u \in Thread \ {t} : task'[u] = task[u] /\ file'[u] = file[u]
      BY <2>1, <2>8 DEF Seek, Set
    <3>3. pos \in Nat /\ ClusterBytes \in Nat \ {0} /\ pos \in Int /\ f.offset \in Int
      <4>1. vol.perCluster * SectorBytes \in Nat \ {0}
        BY ONLY <2>5
      <4> QED BY <2>5, <4>1 DEF ClusterBytes
    <3>4. there \in Nat /\ here \in Nat
      BY ONLY <2>5, <3>3, Division
    <3>5. Link(vol, SectorAt(pos)) = 1 + there /\ Link(vol, SectorAt(f.offset)) = 1 + here
      <4>1. \A p \in Nat : p \div (vol.perCluster * SectorBytes) = (p \div SectorBytes) \div vol.perCluster
        BY ONLY <2>5, Nested
      <4> QED BY <2>5, <3>3, <4>1 DEF Link, SectorAt, ClusterBytes
    <3>6. Route(t, pos) = IF there >= here THEN [current |-> f.current, count |-> there - here]
                          ELSE [current |-> First(vol, t), count |-> there]
      BY DEF Route, Start, First, f
    <3>7. Route(t, pos).count = count
          /\ Route(t, pos).current = IF there >= here THEN f.current ELSE First(vol, t)
      BY <3>6
    <3>8. /\ task'[t].for = "seek" /\ task'[t].want = pos /\ task'[t].got = <<>>
          /\ task'[t].count = Route(t, pos).count /\ task'[t].save = f.current
          /\ task'[t].at = IF Route(t, pos).count = 0 THEN "return" ELSE "link"
      BY <2>1, <2>8 DEF Seek, Set, Idle, f
    <3>9. /\ file'[t].current = Route(t, pos).current /\ file'[t].spoiled = f.spoiled
          /\ file'[t].offset = IF Route(t, pos).count = 0 THEN pos ELSE f.offset
      BY <2>1, <2>2, <2>8 DEF Seek, f
    <3> HIDE DEF there, here, count
    <3>10. count = IF there >= here THEN there - here ELSE there
      BY DEF count
    <3>11. Sought(vol, t, pos, there, here, count, f, file'[t], task'[t])
      BY <3>5, <3>7, <3>8, <3>9, <3>10 DEF Sought
    <3>12. Right(vol, t, file'[t], task'[t])
      BY <2>3, <2>4, <3>1, <3>4, <3>11, SeeksRight
    <3> QED BY <3>1, <3>2, <3>12, ThreadsRight
  <2>9. CASE FetchSector(t)
    BY <2>9, FetchRight DEF FetchSector, Runs
  <2>10. CASE FetchFat(t)
    BY <2>10, FetchRight DEF FetchFat, Runs
  <2>11. CASE Copy(t)
    <3> DEFINE used == Within(t)
               n == Min({SectorBytes - used, Left(t)})
               bytes == [i \in 1 .. n |-> <<Sector(t), used + i - 1>>]
    <3>1. k.at = "copy" /\ vol' = vol /\ sd' = sd
      BY <2>11 DEF Copy, Runs, k
    <3>2. \A u \in Thread \ {t} : task'[u] = task[u] /\ file'[u] = file[u]
      BY <2>1, <2>11 DEF Copy, Set
    <3>3. Sector(t) = k.lba
      BY <2>1, <3>1 DEF Knows, k
    <3>4. used = f.offset % SectorBytes /\ Left(t) = k.want - Len(k.got)
      BY DEF Within, Left, f, k
    <3>5. n = IF SectorBytes - used <= k.want - Len(k.got) THEN SectorBytes - used
              ELSE k.want - Len(k.got)
      <4>1. f.offset % SectorBytes \in Int
        BY ONLY <2>5
      <4>2. SectorBytes - used \in Int
        BY <2>5, <3>4, <4>1
      <4>3. k.want \in Nat /\ Len(k.got) \in Nat
        <5>1. ReadShape(vol, t, f, k)
          BY <2>3, <3>1 DEF Right, Shape, SeekShape
        <5> QED BY <5>1, LenProperties DEF ReadShape
      <4>4. Left(t) \in Int
        BY <3>4, <4>3
      <4> QED BY ONLY <3>4, <4>2, <4>4, LeastOfTwo
    <3> HIDE DEF used, n
    <3>6. bytes = [i \in 1 .. n |-> <<k.lba, used + i - 1>>]
      BY <3>3
    <3> HIDE DEF bytes
    <3>7. /\ file'[t].offset = f.offset + n /\ file'[t].current = f.current
          /\ file'[t].spoiled = f.spoiled
      BY <2>1, <2>2, <2>11 DEF Copy, f, n, used
    <3>8. /\ task'[t].for = k.for /\ task'[t].from = k.from /\ task'[t].want = k.want
          /\ task'[t].got = k.got \o bytes /\ task'[t].count = k.count /\ task'[t].save = k.save
          /\ task'[t].lba = IF used + n = SectorBytes THEN k.lba + 1 ELSE k.lba
          /\ task'[t].at = IF used + n # SectorBytes THEN "drop"
                           ELSE IF is_new_cluster(k.lba + 1) THEN "drop, link" ELSE "drop, go on"
      BY <2>1, <2>2, <2>11 DEF Copy, Set, k, n, used, bytes
    <3>9. Copied(vol, f, k, used, n, bytes, file'[t], task'[t])
      BY <3>4, <3>5, <3>6, <3>7, <3>8 DEF Copied, is_new_cluster
    <3>10. Right(vol, t, file'[t], task'[t])
      BY <2>3, <2>4, <3>1, <3>9, CopiesRight
    <3> QED BY <3>1, <3>2, <3>10, ThreadsRight
  <2>12. ASSUME NEW at, NEW label, Drop(t, at, label),
                \/ (at = "drop" /\ label = "return")
                \/ (at = "drop, link" /\ label = "link")
                \/ (at = "drop, go on" /\ label = GoOn(t))
         PROVE  AllRight'
    <3>1. k.at = at /\ vol' = vol /\ sd' = sd /\ file' = file
      BY <2>12 DEF Drop, Runs, k
    <3>2. \A u \in Thread \ {t} : task'[u] = task[u] /\ file'[u] = file[u]
      BY <2>1, <2>12, <3>1 DEF Drop, Set
    <3>3. SameCall(k, task'[t]) /\ task'[t].at = label
      BY <2>1, <2>2, <2>12 DEF Drop, Set, SameCall, k
    <3>4. GoOn(t) = IF k.want - Len(k.got) = 0 THEN "return" ELSE "sector"
      BY DEF GoOn, Left, k
    <3>5. SameFile(f, file'[t])
      BY <3>1 DEF SameFile, f
    <3>6. \/ k.at = "drop" /\ task'[t].at = "return"
          \/ k.at = "drop, link" /\ task'[t].at = "link"
          \/ k.at = "drop, go on"
             /\ task'[t].at = (IF k.want - Len(k.got) = 0 THEN "return" ELSE "sector")
      BY <2>12, <3>1, <3>3, <3>4
    <3>7. Right(vol, t, file'[t], task'[t])
      BY ONLY <2>3, <3>3, <3>5, <3>6, GoesOnRight
    <3> QED BY <3>1, <3>2, <3>7, ThreadsRight
  <2>13. CASE Drops(t)
    BY <2>12, <2>13 DEF Drops
  <2>14. CASE Linked(t)
    <3>1. PICK link \in Links(t) :
            LET more == link <= sd.max
                seeks == task[t].for = "seek"
                last == task[t].count = 1
            IN  /\ Runs(t, "linked")
                /\ file' = [file EXCEPT ![t].current = IF seeks /\ ~more THEN task[t].save ELSE link,
                                        ![t].offset = IF seeks /\ more /\ last THEN task[t].want ELSE @]
                /\ Set(t, [task[t] EXCEPT !.item = None, !.count = @ - 1,
                             !.ended = IF more THEN @ ELSE "no link",
                             !.at = IF ~more \/ (seeks /\ last) THEN "return"
                                    ELSE IF seeks THEN "link" ELSE GoOn(t)])
                /\ UNCHANGED <<vol, sd>>
      BY <2>14 DEF Linked
    <3>2. k.at = "linked" /\ vol' = vol /\ sd' = sd
      BY <3>1 DEF Runs, k
    <3>3. \A u \in Thread \ {t} : task'[u] = task[u] /\ file'[u] = file[u]
      BY <2>1, <3>1 DEF Set
    <3>4. link \in Int /\ (f.current \in DOMAIN vol.fat => link = vol.fat[f.current])
      <4>1. Sector(t) = FatSector(f.current)
        BY <2>1, <3>2 DEF Knows, f, k
      <4>2. CASE f.current \in DOMAIN vol.fat
        <5>1. link = vol.fat[f.current]
          BY <4>1, <4>2 DEF Links, f
        <5> QED BY <2>4, <4>2, <5>1 DEF Fine
      <4>3. CASE f.current \notin DOMAIN vol.fat
        <5>1. link = 0 \/ link = Begun(vol).max + 1
          BY <2>3, <4>3 DEF Links, f
        <5> QED BY <2>4, <4>3, <5>1 DEF Fine
      <4> QED BY <4>2, <4>3
    <3>5. GoOn(t) = IF k.want - Len(k.got) = 0 THEN "return" ELSE "sector"
      BY DEF GoOn, Left, k
    <3>6. Followed(vol, link, f, k, file'[t], task'[t])
      <4>1. /\ file'[t].current = (IF k.for = "seek" /\ ~(link <= Begun(vol).max) THEN k.save ELSE link)
            /\ file'[t].spoiled = f.spoiled
            /\ file'[t].offset = IF k.for = "seek" /\ link <= Begun(vol).max /\ k.count = 1
                                 THEN k.want ELSE f.offset
        BY <2>1, <2>2, <2>3, <3>1 DEF f, k
      <4>2. /\ task'[t].for = k.for /\ task'[t].from = k.from /\ task'[t].want = k.want
            /\ task'[t].got = k.got /\ task'[t].lba = k.lba /\ task'[t].save = k.save
            /\ task'[t].count = k.count - 1
            /\ task'[t].at = IF ~(link <= Begun(vol).max) \/ (k.for = "seek" /\ k.count = 1) THEN "return"
                             ELSE IF k.for = "seek" THEN "link" ELSE GoOn(t)
        BY <2>1, <2>2, <2>3, <3>1 DEF Set, k
      <4> QED BY <3>5, <4>1, <4>2 DEF Followed
    <3>7. Right(vol, t, file'[t], task'[t])
      <4>1. k.for \in {"seek"} \cup Reading
        BY <2>3, <3>2 DEF Right, Shape
      <4>2. CASE k.for = "seek"
        BY <2>3, <2>4, <3>2, <3>4, <3>6, <4>2, SeekFollowsRight
      <4>3. CASE k.for \in Reading
        BY <2>3, <2>4, <3>2, <3>4, <3>6, <4>3, ReadFollowsRight
      <4> QED BY <4>1, <4>2, <4>3
    <3> QED BY <3>2, <3>3, <3>7, ThreadsRight
  <2>15. CASE Return(t)
    <3>1. k.at = "return" /\ vol' = vol /\ sd' = sd
      BY <2>15 DEF Return, Runs, k
    <3>2. \A u \in Thread \ {t} : task'[u] = task[u] /\ file'[u] = file[u]
      BY <2>1, <2>15 DEF Return, Set
    <3>3. task'[t].at = "idle" /\ task'[t].for = "none" /\ task'[t].got = <<>>
      BY <2>1, <2>15 DEF Return, Set, Idle
    <3>4. /\ file'[t].spoiled = f.spoiled
          /\ IF k.for = "peek" /\ k.got # <<>>
             THEN file'[t].offset = k.from /\ file'[t].current = k.save
             ELSE file'[t].offset = f.offset /\ file'[t].current = f.current
      BY <2>1, <2>2, <2>15 DEF Return, f, k
    <3>5. Right(vol, t, file'[t], task'[t])
      BY <2>3, <2>4, <3>1, <3>3, <3>4, ReturnsRight
    <3> QED BY <3>1, <3>2, <3>5, ThreadsRight
  <2>16. 1 \in Nat /\ Sizes[t] \subseteq Nat
    BY VolumeAssumption
  <2>17. ASSUME NEW size \in Sizes[t], Read(t, size) PROVE AllRight'
    BY <2>6, <2>16, <2>17 DEF Read, Reading
  <2>18. CASE Peek(t)
    BY <2>6, <2>16, <2>18 DEF Peek, Reading
  <2> QED BY <1>2, <2>7, <2>8, <2>9, <2>10, <2>11, <2>13, <2>14, <2>15, <2>17, <2>18
<1> QED BY <1>1, <1>2 DEF Next

LEMMA AlwaysRight == Spec => [](Held /\ AllRight)
<1>1. Held /\ AllRight /\ [Next]_vars => Held' /\ AllRight'
  BY NextHolds, NextRight
<1> QED BY <1>1, InitHolds, InitRight, PTL DEF Spec

(* Between calls the current cluster is the one that the offset lies in,   *)
(* also at the end of the file, whatever was read, sought, peeked at and   *)
(* rewound, with interrupts in between and reads of the card that fail;    *)
(* but for a file whose link could not be read in the middle of a read     *)
(* (File::read, seek and peek of file_t3.cpp).                             *)
THEOREM CursorStays == Spec => []CursorAgrees
<1>1. AllRight => CursorAgrees
  <2> SUFFICES ASSUME AllRight, NEW t \in Thread, task[t].at = "idle", Aligned, ~file[t].spoiled
               PROVE  LET k == 1 + file[t].offset \div ClusterBytes
                      IN  IF k <= Len(Chain(t)) THEN file[t].current = Chain(t)[k]
                          ELSE Chain(t) # <<>> => file[t].current > sd.max
    BY DEF CursorAgrees
  <2> DEFINE o == file[t].offset
  <2>1. Right(vol, t, file[t], task[t]) /\ sd = Begun(vol) /\ Fine(vol, t)
    BY VolumeIsFine DEF AllRight
  <2>2. Area(vol) % vol.perCluster = 0
    BY DEF Aligned, DataArea, Area
  <2>3. Agrees(vol, t, o, file[t].current)
    BY <2>1, <2>2 DEF Right, Cursor
  <2>4. o \in Nat /\ vol.perCluster \in Nat \ {0} /\ SectorBytes \in Nat \ {0}
    <3>1. o \in 0 .. vol.length[t] /\ vol.length[t] \in Nat
      BY <2>1 DEF Right, Shape, Fine
    <3> QED BY <2>1, <3>1 DEF Fine
  <2>5. o \div ClusterBytes = SectorAt(o) \div vol.perCluster
    BY ONLY <2>4, Nested DEF SectorAt, ClusterBytes
  <2> QED BY <2>1, <2>3, <2>5 DEF Agrees, InChain, Link, Chain
<1> QED BY <1>1, AlwaysRight, PTL

(* What a read or a peek gives are the bytes of the file from the offset   *)
(* on, for any sizes of sectors, clusters, files and caches and any number *)
(* of interrupts that read through the same cache; for data areas that     *)
(* begin at a multiple of a cluster and files in adjacent clusters.        *)
THEOREM BytesAreTheFiles == Spec => []ReadsTheFile
<1>1. AllRight => ReadsTheFile
  <2> SUFFICES ASSUME AllRight, NEW t \in Thread, Aligned, Adjacent(t), ~file[t].spoiled,
                      NEW k \in DOMAIN task[t].got
               PROVE  LET position == task[t].from + k - 1
                      IN  task[t].got[k] = <<SectorOf(t, position), position % SectorBytes>>
    BY DEF ReadsTheFile
  <2> DEFINE p == task[t].from + k - 1
             s == SectorAt(p)
  <2>1. Right(vol, t, file[t], task[t]) /\ Fine(vol, t)
    BY VolumeIsFine DEF AllRight
  <2>2. Area(vol) % vol.perCluster = 0 /\ Follows(vol, t)
    BY DEF Aligned, DataArea, Area, Adjacent, Follows, Chain
  <2>3. task[t].got[k] = <<Place(vol, t, s), p % SectorBytes>>
    BY <2>1, <2>2 DEF Right, Content
  <2>4. p \in Nat /\ vol.perCluster \in Nat \ {0} /\ SectorBytes \in Nat \ {0}
    <3>1. task[t].from \in Nat /\ task[t].got \in Seq(Int \X Int)
      <4>1. task[t].got # <<>>
        OBVIOUS
      <4>2. task[t].for \in Reading
        BY <2>1, <4>1 DEF Right, Shape, SeekShape
      <4> QED BY <2>1, <4>2 DEF Right, Shape, ReadShape
    <3>2. k \in Nat /\ k >= 1
      BY <3>1, LenProperties
    <3>3. p \in Nat
      BY ONLY <3>1, <3>2
    <3> QED BY <2>1, <3>3 DEF Fine
  <2> HIDE DEF p
  <2>5. /\ p \div ClusterBytes = s \div vol.perCluster
        /\ (p % ClusterBytes) \div SectorBytes = s % vol.perCluster
    BY ONLY <2>4, Nested DEF SectorAt, ClusterBytes
  <2>6. SectorOf(t, p) = Place(vol, t, s)
    BY <2>5 DEF SectorOf, Place, Link, Chain, DataArea, Area
  <2> QED BY <2>3, <2>6 DEF p
<1> QED BY <1>1, AlwaysRight, PTL
-----------------------------------------------------------------------------
(* Entries of a directory by their places: the i-th one of a sector, the   *)
(* sector of a cluster, the cluster of the chain.                          *)
Position(name, c, s, i) == (c - 1) * Length(name) + (s - 1) * EntriesPerSector + i

TreeOk ==
  /\ tree \in Trees /\ root16 \in BOOLEAN
  /\ root16 \/ \A k \in DOMAIN tree["/"] : Len(tree["/"][k]) = SectorsPerCluster
  /\ root16 => Len(tree["/"]) = 1

(* A directory has the clusters and sectors that the loops count.          *)
LEMMA DirectorySizes ==
  ASSUME TreeOk, NEW name \in DOMAIN tree
  PROVE  /\ SectorCount(name) \in Nat \ {0} /\ Length(name) \in Nat \ {0}
         /\ Length(name) = SectorCount(name) * EntriesPerSector
         /\ EntriesPerSector \in Nat \ {0}
         /\ Len(Clusters(name)) \in Nat \ {0} /\ DOMAIN Clusters(name) = 1 .. Len(Clusters(name))
         /\ (name # "/" \/ ~root16) => SectorCount(name) = SectorsPerCluster
         /\ IsRoot16(name) => Len(Clusters(name)) = 1
         /\ \A c \in DOMAIN Clusters(name) :
              /\ DOMAIN Clusters(name)[c] = 1 .. SectorCount(name)
              /\ \A s \in 1 .. SectorCount(name) :
                   /\ DOMAIN Clusters(name)[c][s] = 1 .. EntriesPerSector
                   /\ \A i \in 1 .. EntriesPerSector :
                        /\ Clusters(name)[c][s][i] \in DirEntry
                        /\ Clusters(name)[c][s][i] \in EntriesIn(tree[name])
<1> DEFINE d == tree[name]
<1>1. IsDirectory(d) /\ (name # "/" => \A c \in DOMAIN d : Len(d[c]) = SectorsPerCluster)
  BY TreeAssumption DEF TreeOk
<1>2. EntriesPerSector \in Nat \ {0} /\ SectorsPerCluster \in Nat \ {0}
  BY DirAssumption
<1> HIDE DEF d
<1>3. d \in Seq(Seq(Seq(DirEntry))) /\ d # <<>> /\ Len(d) \in Nat \ {0} /\ DOMAIN d = 1 .. Len(d)
  BY <1>1 DEF IsDirectory
<1>4. ASSUME NEW c \in DOMAIN d PROVE Len(d[c]) \in Nat \ {0} /\ DOMAIN d[c] = 1 .. Len(d[c]) /\ d[c] \in Seq(Seq(DirEntry))
  BY <1>1, <1>3 DEF IsDirectory
<1>5. IsRoot16(name) => Len(d) = 1
  BY DEF IsRoot16, TreeOk, d
<1>6. SectorCount(name) = IF IsRoot16(name) THEN Len(d[1]) ELSE SectorsPerCluster
  BY DEF SectorCount, Clusters, d
<1>7. ASSUME NEW c \in DOMAIN d PROVE Len(d[c]) = SectorCount(name)
  <2>1. CASE IsRoot16(name)
    <3>1. Len(d) = 1
      BY <1>5, <2>1
    <3>2. c = 1
      BY <1>3, <3>1
    <3>3. SectorCount(name) = Len(d[1])
      BY <1>6, <2>1
    <3> QED BY <3>2, <3>3
  <2>2. CASE ~IsRoot16(name)
    <3>1. Len(d[c]) = SectorsPerCluster
      BY <1>1, <2>2 DEF IsRoot16, TreeOk, d
    <3> QED BY <1>6, <2>2, <3>1
  <2> QED BY <2>1, <2>2
<1>8. SectorCount(name) \in Nat \ {0}
  BY <1>3, <1>4, <1>7
<1>9. Length(name) = SectorCount(name) * EntriesPerSector /\ Length(name) \in Nat \ {0}
  BY <1>2, <1>8 DEF Length
<1>10. ASSUME NEW c \in DOMAIN d, NEW s \in 1 .. SectorCount(name)
       PROVE  /\ DOMAIN d[c][s] = 1 .. EntriesPerSector
              /\ \A i \in 1 .. EntriesPerSector : d[c][s][i] \in DirEntry /\ d[c][s][i] \in EntriesIn(d)
  <2>1. s \in DOMAIN d[c]
    BY <1>4, <1>7
  <2>2. d[c][s] \in Seq(DirEntry) /\ Len(d[c][s]) = EntriesPerSector
    BY <1>1, <1>4, <2>1 DEF IsDirectory
  <2>3. DOMAIN d[c][s] = 1 .. EntriesPerSector
    BY <2>2
  <2>4. d[c] \in ToSet(d) /\ d[c][s] \in ToSet(d[c])
    BY <2>1 DEF ToSet
  <2>5. ASSUME NEW i \in 1 .. EntriesPerSector PROVE d[c][s][i] \in EntriesIn(d)
    <3>1. d[c][s][i] \in ToSet(d[c][s])
      BY <2>3 DEF ToSet
    <3> QED BY <2>4, <3>1 DEF EntriesIn
  <2> QED BY <2>2, <2>3, <2>5
<1>11. (name # "/" \/ ~root16) => SectorCount(name) = SectorsPerCluster
  BY DEF SectorCount, IsRoot16
<1>12. Clusters(name) = d
  BY DEF Clusters, d
<1> QED BY <1>2, <1>3, <1>4, <1>5, <1>7, <1>8, <1>9, <1>10, <1>11, <1>12 DEF d

(* Counting through clusters and sectors gives each entry one number.      *)
LEMMA EntryAtPosition ==
  ASSUME TreeOk, NEW name \in DOMAIN tree, NEW c \in DOMAIN Clusters(name),
         NEW s \in 1 .. SectorCount(name), NEW i \in 1 .. EntriesPerSector
  PROVE  /\ Position(name, c, s, i) \in DOMAIN All(name)
         /\ All(name)[Position(name, c, s, i)] = Clusters(name)[c][s][i]
<1> DEFINE L == Length(name)
           S == SectorCount(name)
           E == EntriesPerSector
           n == Len(Clusters(name))
           m == Position(name, c, s, i)
<1>a. /\ L \in Nat \ {0} /\ S \in Nat \ {0} /\ E \in Nat \ {0} /\ L = S * E
      /\ n \in Nat /\ c \in 1 .. n /\ s \in 1 .. S /\ i \in 1 .. E
      /\ m = (c - 1) * L + (s - 1) * E + i
  BY DirectorySizes DEF Position
<1> HIDE DEF L, S, E, n, m
<1> DEFINE r == (s - 1) * E + (i - 1)
           q == c - 1
<1>1. r \in 0 .. L - 1
  <2>1. (s - 1) * E \in Nat /\ (s - 1) * E <= (S - 1) * E
    <3>1. s - 1 \in Nat /\ S - s \in Nat
      BY <1>a
    <3>2. (S - s) * E \in Nat /\ (s - 1) * E \in Nat
      BY <1>a, <3>1
    <3>3. (S - 1) * E = (s - 1) * E + (S - s) * E
      BY <1>a
    <3> QED BY <3>2, <3>3
  <2>2. (S - 1) * E = L - E
    BY <1>a
  <2> QED BY <1>a, <2>1, <2>2
<1>2. q \in 0 .. n - 1 /\ m - 1 = L * q + r /\ m \in Int
  BY <1>a
<1> HIDE DEF r, q
<1>3. (m - 1) \div L = q /\ (m - 1) % L = r
  BY ONLY <1>a, <1>1, <1>2, Quotient
<1>4. r = E * (s - 1) + (i - 1) /\ s - 1 \in Int /\ i - 1 \in 0 .. E - 1
  BY <1>a DEF r
<1>5. r \div E = s - 1 /\ r % E = i - 1
  BY ONLY <1>a, <1>4, Quotient
<1>6. m \in 1 .. n * L
  <2>1. L * q \in Nat /\ L * (n - 1 - q) \in Nat
    BY <1>a, <1>2
  <2>2. n * L = L * q + L * (n - 1 - q) + L
    BY <1>a, <1>2
  <2> QED BY <1>a, <1>1, <1>2, <2>1, <2>2
<1>7. DOMAIN All(name) = 1 .. n * L
  BY DEF All, n, L
<1>8. All(name)[m] = Clusters(name)[((m - 1) \div L) + 1][(((m - 1) % L) \div E) + 1]
                                   [(((m - 1) % L) % E) + 1]
  BY <1>6, <1>7 DEF All, n, L, E
<1>9. ((m - 1) \div L) + 1 = c /\ (((m - 1) % L) \div E) + 1 = s /\ (((m - 1) % L) % E) + 1 = i
  BY <1>a, <1>2, <1>3, <1>5 DEF q
<1> QED BY <1>6, <1>7, <1>8, <1>9 DEF m

(* And each number is that of an entry.                                    *)
LEMMA PositionOfEntry ==
  ASSUME TreeOk, NEW name \in DOMAIN tree, NEW m \in DOMAIN All(name)
  PROVE  \E c \in DOMAIN Clusters(name), s \in 1 .. SectorCount(name), i \in 1 .. EntriesPerSector :
           m = Position(name, c, s, i) /\ All(name)[m] = Clusters(name)[c][s][i]
<1> DEFINE L == Length(name)
           S == SectorCount(name)
           E == EntriesPerSector
           n == Len(Clusters(name))
<1>a. /\ L \in Nat \ {0} /\ S \in Nat \ {0} /\ E \in Nat \ {0} /\ L = S * E
      /\ n \in Nat /\ m \in 1 .. n * L
  BY DirectorySizes DEF All
<1>b. DOMAIN Clusters(name) = 1 .. n
  BY DirectorySizes
<1> HIDE DEF L, S, E, n
<1> DEFINE q == (m - 1) \div L
           r == (m - 1) % L
<1>1. q \in Nat /\ r \in 0 .. L - 1 /\ m - 1 = L * q + r
  <2>1. n * L \in Nat
    BY <1>a
  <2>2. m - 1 \in Nat
    BY <1>a, <2>1
  <2> DEFINE k == m - 1
  <2> HIDE DEF k
  <2>3. k \div L \in Nat /\ k % L \in 0 .. L - 1 /\ k = L * (k \div L) + (k % L)
    <3>1. k \in Int /\ k \in Nat /\ L \in Nat \ {0}
      BY <1>a, <2>2 DEF k
    <3> QED BY ONLY <3>1, Division
  <2> QED BY <2>3 DEF k
<1> DEFINE t == r \div E
           u == r % E
<1>2. t \in Nat /\ u \in 0 .. E - 1 /\ r = E * t + u
  <2> HIDE DEF r
  <2>1. r \in Int /\ r \in Nat /\ E \in Nat \ {0}
    BY <1>a, <1>1
  <2> QED BY ONLY <2>1, Division
<1> HIDE DEF q, r, t, u
<1>3. q <= n - 1
  <2>1. CASE q >= n
    <3>1. L * (q - n) \in Nat /\ L * q = L * n + L * (q - n)
      BY <1>a, <1>1, <2>1
    <3> QED BY <1>a, <1>1, <3>1
  <2> QED BY <1>a, <1>1, <2>1
<1>4. t <= S - 1
  <2>1. CASE t >= S
    <3>1. E * (t - S) \in Nat /\ E * t = E * S + E * (t - S)
      BY <1>a, <1>2, <2>1
    <3> QED BY <1>a, <1>1, <1>2, <3>1
  <2> QED BY <1>a, <1>2, <2>1
<1>5. q + 1 \in 1 .. n /\ t + 1 \in 1 .. S /\ u + 1 \in 1 .. E
  BY <1>a, <1>1, <1>2, <1>3, <1>4
<1> DEFINE c == q + 1
           s == t + 1
           i == u + 1
<1>6. m = (c - 1) * L + (s - 1) * E + i
  <2>1. m = q * L + t * E + (u + 1)
    BY <1>a, <1>1, <1>2
  <2>2. c - 1 = q /\ s - 1 = t
    BY <1>1, <1>2
  <2> QED BY <2>1, <2>2
<1>7. c \in DOMAIN Clusters(name) /\ s \in 1 .. S /\ i \in 1 .. E
  BY <1>b, <1>5
<1> HIDE DEF c, s, i
<1>8. m = Position(name, c, s, i)
  BY <1>6 DEF Position, L, E
<1>9. All(name)[m] = Clusters(name)[c][s][i]
  BY <1>7, <1>8, EntryAtPosition DEF S, E
<1> QED BY <1>7, <1>8, <1>9 DEF S, E

(* What the entries of a directory are.                                    *)
LEMMA EntriesAreFine ==
  ASSUME TreeOk, NEW name \in DOMAIN tree, NEW m \in DOMAIN All(name)
  PROVE  LET e == All(name)[m]
         IN  /\ e \in DirEntry
             /\ e.kind = "directory" => e.name \in DOMAIN tree \ {"/"}
             /\ e.kind \in Listable => e.name # "none"
<1>1. PICK c \in DOMAIN Clusters(name), s \in 1 .. SectorCount(name), i \in 1 .. EntriesPerSector :
        All(name)[m] = Clusters(name)[c][s][i]
  BY PositionOfEntry
<1>2. All(name)[m] \in DirEntry /\ All(name)[m] \in EntriesIn(tree[name])
  BY <1>1, DirectorySizes
<1> QED BY <1>2, TreeAssumption DEF TreeOk

LEMMA NamesAreOne ==
  ASSUME TreeOk, NEW name \in DOMAIN tree, NEW m \in DOMAIN All(name), NEW k \in DOMAIN All(name),
         NEW path \in Paths, NEW j \in DOMAIN path,
         All(name)[m].name = path[j], All(name)[k].name = path[j]
  PROVE  All(name)[m].kind \in Listable /\ All(name)[k].kind = All(name)[m].kind
<1>1. ASSUME NEW n \in DOMAIN All(name) PROVE All(name)[n] \in EntriesIn(tree[name])
  <2>1. PICK c \in DOMAIN Clusters(name), s \in 1 .. SectorCount(name), i \in 1 .. EntriesPerSector :
          All(name)[n] = Clusters(name)[c][s][i]
    BY PositionOfEntry
  <2> QED BY <2>1, DirectorySizes
<1>2. NamesOne(path[j], EntriesIn(tree[name]))
  BY TreeAssumption DEF TreeOk
<1> QED BY <1>1, <1>2 DEF NamesOne
-----------------------------------------------------------------------------
(* The tree and what is said of it stay.                                   *)
LEMMA TreeStays ==
  ASSUME UNCHANGED <<tree, root16>>
  PROVE  /\ TreeOk' <=> TreeOk
         /\ DOMAIN tree' = DOMAIN tree
         /\ \A name : /\ Clusters(name)' = Clusters(name) /\ SectorCount(name)' = SectorCount(name)
                      /\ Length(name)' = Length(name) /\ All(name)' = All(name)
                      /\ IsRoot16(name)' <=> IsRoot16(name)
                      /\ IsFull(name)' <=> IsFull(name)
         /\ \A name, wanted, kinds : Exists(name, wanted, kinds)' <=> Exists(name, wanted, kinds)
         /\ \A path : IsThere(path)' <=> IsThere(path)
<1>1. TreeOk' <=> TreeOk
  BY DEF TreeOk
<1>2. ASSUME NEW name
      PROVE  /\ Clusters(name)' = Clusters(name) /\ SectorCount(name)' = SectorCount(name)
             /\ Length(name)' = Length(name)
             /\ IsRoot16(name)' <=> IsRoot16(name)
  BY DEF Clusters, SectorCount, Length, IsRoot16
<1>3. ASSUME NEW name PROVE All(name)' = All(name)
  BY <1>2 DEF All
<1>4. ASSUME NEW name, NEW wanted, NEW kinds
      PROVE  Exists(name, wanted, kinds)' <=> Exists(name, wanted, kinds)
  BY <1>3 DEF Exists
<1>5. ASSUME NEW path PROVE IsThere(path)' <=> IsThere(path)
  BY <1>4 DEF IsThere
<1>6. ASSUME NEW name PROVE IsFull(name)' <=> IsFull(name)
  BY <1>3 DEF IsFull
<1>7. DOMAIN tree' = DOMAIN tree
  OBVIOUS
<1> QED BY <1>1, <1>2, <1>3, <1>4, <1>5, <1>6, <1>7
-----------------------------------------------------------------------------
CallFields ==
  {"at", "cluster", "sector", "index", "count", "path", "asked", "in", "listing", "well", "result"}

(* The entries before a sector.                                            *)
Before(name, c, s) == (c - 1) * Length(name) + (s - 1) * EntriesPerSector

(* None of the first n entries ends the directory or has the name.         *)
NotAmong(name, n, wanted) ==
  \A k \in 1 .. n : All(name)[k].kind # "end" /\ All(name)[k].name # wanted

(* c, a call of open, looks for the j-th name of its path: what was passed *)
(* are directories, and the sectors of this one so far do not have it.     *)
LooksFor(c, j) ==
  /\ c.asked \in Paths /\ j \in 1 .. Len(c.asked)
  /\ c.path \in Seq(STRING) /\ Len(c.path) = Len(c.asked) - j + 1
  /\ \A i \in 1 .. Len(c.path) : c.path[i] = c.asked[j + i - 1]
  /\ c.in = DirectoryOf(c.asked, j) /\ c.in \in DOMAIN tree
  /\ \A i \in 1 .. j - 1 : Exists(DirectoryOf(c.asked, i), c.asked[i], {"directory"})
  /\ c.cluster \in DOMAIN Clusters(c.in) /\ c.sector \in 1 .. SectorCount(c.in)
  /\ NotAmong(c.in, Before(c.in, c.cluster, c.sector), c.asked[j])

Opened(path, result) == result = IF IsThere(path) THEN Last(path) ELSE "none"

OpenInv ==
  /\ DOMAIN call = CallFields /\ call.at \in {"rest", "list", "find"}
  /\ call.asked = <<>> \/ call.asked \in Paths
  /\ call.at = "list" => call.asked = <<>>
  /\ call.at = "find" => ~call.listing /\ \E c, j : c = call /\ LooksFor(c, j)
  /\ \A path : call.at = "rest" /\ call.well /\ call.asked = path /\ path # <<>> =>
       Opened(path, call.result)

LEMMA LooksForStays ==
  ASSUME UNCHANGED <<tree, root16>>, NEW c, NEW j
  PROVE  LooksFor(c, j)' <=> LooksFor(c, j)
<1>1. \A name, n, wanted : NotAmong(name, n, wanted)' <=> NotAmong(name, n, wanted)
  BY TreeStays DEF NotAmong
<1>2. \A name, k, s : Before(name, k, s)' = Before(name, k, s)
  BY TreeStays DEF Before
<1>3. NotAmong(c.in, Before(c.in, c.cluster, c.sector), c.asked[j])'
        <=> NotAmong(c.in, Before(c.in, c.cluster, c.sector), c.asked[j])
  BY <1>1, <1>2, TreeStays DEF NotAmong, Before
<1> QED BY <1>3, TreeStays DEF LooksFor

(* A call that ends keeps what it was asked for.                           *)
LEMMA EndsThere ==
  ASSUME DOMAIN call = CallFields, NEW well \in BOOLEAN, NEW result, Ends(well, result)
  PROVE  /\ DOMAIN call' = CallFields /\ call'.at = "rest" /\ call'.asked = call.asked
         /\ call'.well = well /\ call'.result = result /\ call'.listing = call.listing
BY DEF Ends, CallFields

LEMMA EndsOpen ==
  ASSUME OpenInv, UNCHANGED <<tree, root16>>, NEW well \in BOOLEAN, NEW result, Ends(well, result),
         well /\ call.asked # <<>> => Opened(call.asked, result)
  PROVE  OpenInv'
<1>1. /\ DOMAIN call' = CallFields /\ call'.at = "rest" /\ call'.asked = call.asked
      /\ call'.well = well /\ call'.result = result
  BY EndsThere DEF OpenInv
<1>2. ASSUME NEW path, call'.well, call'.asked = path, path # <<>> PROVE Opened(path, call.result)'
  <2>1. IsThere(path)' <=> IsThere(path)
    BY TreeStays
  <2>2. result = IF IsThere(path) THEN Last(path) ELSE "none"
    BY <1>1, <1>2 DEF Opened
  <2> QED BY <1>1, <2>1, <2>2 DEF Opened
<1>3. \A path : (call.at = "rest" /\ call.well /\ call.asked = path /\ path # <<>>)' =>
        Opened(path, call.result)'
  BY <1>2
<1>4. call.asked = <<>> \/ call.asked \in Paths
  BY DEF OpenInv
<1> QED BY <1>1, <1>3, <1>4 DEF OpenInv

(* A listing asks for no path.                                             *)
LEMMA ListsOpen ==
  ASSUME OpenInv, UNCHANGED <<tree, root16>>, DOMAIN call' = CallFields, call'.at \in {"list", "rest"},
         call'.asked = <<>>
  PROVE  OpenInv'
<1>1. \A path : ~(call.asked = path /\ path # <<>>)'
  OBVIOUS
<1>2. \A path : (call.at = "rest" /\ call.well /\ call.asked = path /\ path # <<>>)' =>
        Opened(path, call.result)'
  BY <1>1
<1> QED BY <1>2 DEF OpenInv

LEMMA GoesOnLooking ==
  ASSUME OpenInv, UNCHANGED <<tree, root16>>, DOMAIN call' = CallFields, call'.at = "find",
         ~call'.listing, NEW c, c = call', NEW j, LooksFor(c, j)
  PROVE  OpenInv'
<1>1. LooksFor(c, j)'
  BY LooksForStays
<1>2. c = call' /\ c.asked \in Paths
  BY DEF LooksFor
<1>3. \A path : (call.at = "rest" /\ call.well /\ call.asked = path /\ path # <<>>)' =>
        Opened(path, call.result)'
  OBVIOUS
<1>4. (\E d, i : d = call /\ LooksFor(d, i))'
  BY <1>1, <1>2
<1> QED BY <1>2, <1>3, <1>4 DEF OpenInv

LEMMA RestingFields ==
  /\ DOMAIN Resting = CallFields /\ Resting.at = "rest" /\ Resting.asked = <<>> /\ ~Resting.listing
  /\ Resting.result = "none" /\ Resting.well
BY DEF Resting, CallFields

LEMMA InitOpens ==
  ASSUME DirInit PROVE OpenInv
BY RestingFields DEF DirInit, OpenInv

(* The first sector of a directory that the first names lead to.           *)
LEMMA BeginsLooking ==
  ASSUME TreeOk, NEW c, NEW j \in Nat,
         c.asked \in Paths, j \in 1 .. Len(c.asked),
         c.path \in Seq(STRING), Len(c.path) = Len(c.asked) - j + 1,
         \A i \in 1 .. Len(c.path) : c.path[i] = c.asked[j + i - 1],
         c.in = DirectoryOf(c.asked, j), c.in \in DOMAIN tree,
         \A i \in 1 .. j - 1 : Exists(DirectoryOf(c.asked, i), c.asked[i], {"directory"}),
         c.cluster = 1, c.sector = 1
  PROVE  LooksFor(c, j)
<1>1. c.cluster \in DOMAIN Clusters(c.in) /\ c.sector \in 1 .. SectorCount(c.in)
  BY DirectorySizes
<1>2. Before(c.in, c.cluster, c.sector) = 0
  BY DirectorySizes DEF Before
<1>3. NotAmong(c.in, 0, c.asked[j])
  BY DEF NotAmong
<1> QED BY <1>1, <1>2, <1>3 DEF LooksFor

LEMMA OpenBegins ==
  ASSUME TreeOk, OpenInv, NEW path \in Paths, open(path)
  PROVE  OpenInv'
<1>1. CASE path = <<>>
  <2>1. call' = [Resting EXCEPT !.result = "/"] /\ UNCHANGED <<tree, root16>>
    BY <1>1 DEF open
  <2>2. DOMAIN call' = CallFields /\ call'.at = "rest" /\ call'.asked = <<>>
    BY <2>1, RestingFields DEF Resting, CallFields
  <2> QED BY <2>1, <2>2, ListsOpen
<1>2. CASE path # <<>>
  <2>1. call' = [Resting EXCEPT !.at = "find", !.path = path, !.asked = path] /\ UNCHANGED <<tree, root16>>
    BY <1>2 DEF open
  <2>2. /\ DOMAIN call' = CallFields /\ call'.at = "find" /\ call'.asked = path /\ call'.path = path
        /\ ~call'.listing /\ call'.in = "/" /\ call'.cluster = 1 /\ call'.sector = 1
    BY <2>1, RestingFields DEF Resting, CallFields
  <2>3. PICK c : c = call'
    OBVIOUS
  <2>4. path \in Seq(STRING) /\ Len(path) \in Nat /\ 1 \in 1 .. Len(path)
    BY <1>2, TreeAssumption
  <2>5. "/" \in DOMAIN tree
    BY TreeAssumption DEF TreeOk
  <2>6. DirectoryOf(path, 1) = "/"
    BY DEF DirectoryOf
  <2>7. LooksFor(c, 1)
    BY <2>2, <2>3, <2>4, <2>5, <2>6, BeginsLooking
  <2> QED BY <2>1, <2>2, <2>3, <2>7, GoesOnLooking
<1> QED BY <1>1, <1>2
-----------------------------------------------------------------------------
(* The first stop of a sector.                                             *)
LEMMA FirstStop ==
  ASSUME NEW n \in Nat, NEW T, T \subseteq 1 .. n, T # {}
  PROVE  Min(T) \in T /\ Min(T) \in 1 .. n /\ \A i \in 1 .. n : i < Min(T) => i \notin T
<1>1. PICK x \in T : \A y \in T : x <= y
  <2>1. T \subseteq Nat
    OBVIOUS
  <2> QED BY <2>1, NatMin
<1>2. Min(T) \in T /\ \A y \in T : Min(T) <= y
  BY <1>1 DEF Min
<1>3. Min(T) \in 1 .. n
  BY <1>2
<1> QED BY <1>2, <1>3

(* From sector to sector, and from cluster to cluster.                     *)
LEMMA BeforeFacts ==
  ASSUME TreeOk, NEW name \in DOMAIN tree, NEW c \in DOMAIN Clusters(name),
         NEW s \in 1 .. SectorCount(name)
  PROVE  /\ Before(name, c, s) \in Nat
         /\ \A i : Position(name, c, s, i) = Before(name, c, s) + i
         /\ s < SectorCount(name) =>
              Before(name, c, s + 1) = Before(name, c, s) + EntriesPerSector
         /\ s = SectorCount(name) =>
              Before(name, c + 1, 1) = Before(name, c, s) + EntriesPerSector
         /\ Before(name, c + 1, 1) = c * Length(name)
<1> DEFINE L == Length(name)
           S == SectorCount(name)
           E == EntriesPerSector
<1>1. /\ L \in Nat \ {0} /\ S \in Nat \ {0} /\ E \in Nat \ {0} /\ L = S * E
      /\ c \in Nat \ {0} /\ s \in 1 .. S
  BY DirectorySizes
<1>2. \A x, y : Before(name, x, y) = (x - 1) * L + (y - 1) * E
  BY DEF Before
<1>5. \A i : Position(name, c, s, i) = (c - 1) * L + (s - 1) * E + i
  BY DEF Position
<1> HIDE DEF L, S, E
<1>6. (c - 1) * L \in Nat /\ (s - 1) * E \in Nat
  <2>1. c - 1 \in Nat /\ s - 1 \in Nat
    BY <1>1
  <2> QED BY <1>1, <2>1
<1>7. (c + 1 - 1) * L + (1 - 1) * E = c * L /\ c * L = (c - 1) * L + L
  BY <1>1
<1>8. (s + 1 - 1) * E = (s - 1) * E + E
  BY <1>1
<1>9. s = S => (s - 1) * E + E = L
  BY <1>1, <1>8
<1> QED BY <1>1, <1>2, <1>5, <1>6, <1>7, <1>8, <1>9 DEF L, S, E

LEMMA SectorPassed ==
  ASSUME TreeOk, NEW name \in DOMAIN tree, NEW c \in DOMAIN Clusters(name),
         NEW s \in 1 .. SectorCount(name), NEW wanted, NotAmong(name, Before(name, c, s), wanted),
         NEW m \in 0 .. EntriesPerSector,
         \A i \in 1 .. EntriesPerSector : i <= m =>
            Clusters(name)[c][s][i].kind # "end" /\ Clusters(name)[c][s][i].name # wanted
  PROVE  NotAmong(name, Before(name, c, s) + m, wanted)
<1>1. Before(name, c, s) \in Nat /\ EntriesPerSector \in Nat
  BY BeforeFacts, DirectorySizes
<1>2. ASSUME NEW k \in 1 .. Before(name, c, s) + m, k > Before(name, c, s)
      PROVE  All(name)[k].kind # "end" /\ All(name)[k].name # wanted
  <2> DEFINE i == k - Before(name, c, s)
  <2>1. i \in 1 .. EntriesPerSector /\ i <= m /\ k = Before(name, c, s) + i
    BY <1>1, <1>2
  <2> HIDE DEF i
  <2>2. All(name)[k] = Clusters(name)[c][s][i]
    BY <2>1, BeforeFacts, EntryAtPosition
  <2> QED BY <2>1, <2>2
<1>3. ASSUME NEW k \in 1 .. Before(name, c, s) + m, ~(k > Before(name, c, s))
      PROVE  All(name)[k].kind # "end" /\ All(name)[k].name # wanted
  <2>1. k \in 1 .. Before(name, c, s)
    BY <1>1, <1>3
  <2> QED BY <2>1 DEF NotAmong
<1> QED BY <1>2, <1>3 DEF NotAmong

(* The end of the directory comes before the name.                         *)
LEMMA NotThere ==
  ASSUME NEW name, NEW m \in Nat, NEW wanted, NEW kinds, NotAmong(name, m, wanted),
         All(name)[m + 1].kind = "end" \/ DOMAIN All(name) = 1 .. m,
         \E n \in Nat : DOMAIN All(name) = 1 .. n
  PROVE  ~Exists(name, wanted, kinds)
<1>1. SUFFICES ASSUME NEW k \in DOMAIN All(name), InUse(All(name), k), All(name)[k].name = wanted
               PROVE  FALSE
  BY DEF Exists
<1>2. k \in Nat /\ k >= 1
  OBVIOUS
<1>3. k > m
  BY <1>1, <1>2 DEF NotAmong
<1>4. All(name)[m + 1].kind = "end"
  BY <1>3
<1>5. m + 1 \in 1 .. k
  BY <1>2, <1>3
<1> QED BY <1>1, <1>4, <1>5 DEF InUse

LEMMA ItIsThere ==
  ASSUME NEW name, NEW m \in Nat, m + 1 \in DOMAIN All(name), NEW wanted, NotAmong(name, m, wanted),
         All(name)[m + 1].kind # "end", All(name)[m + 1].name = wanted, NEW kinds,
         All(name)[m + 1].kind \in kinds
  PROVE  Exists(name, wanted, kinds)
<1>1. ASSUME NEW k \in 1 .. m + 1 PROVE All(name)[k].kind # "end"
  <2>1. k = m + 1 \/ k \in 1 .. m
    OBVIOUS
  <2> QED BY <2>1 DEF NotAmong
<1> QED BY <1>1 DEF Exists, InUse

LEMMA AllIsSequence ==
  ASSUME TreeOk, NEW name \in DOMAIN tree
  PROVE  /\ DOMAIN All(name) = 1 .. Len(Clusters(name)) * Length(name)
         /\ Len(Clusters(name)) * Length(name) \in Nat
BY DirectorySizes DEF All
-----------------------------------------------------------------------------
(* open does not find what one of the directories does not have.           *)
LEMMA OneIsMissing ==
  ASSUME NEW path, NEW j \in 1 .. Len(path),
         ~Exists(DirectoryOf(path, j), path[j], IF j = Len(path) THEN Listable ELSE {"directory"})
  PROVE  Opened(path, "none")
BY DEF Opened, IsThere

LEMMA FoundOpens ==
  ASSUME TreeOk, OpenInv, NEW c, c = call, call.at = "find", NEW j \in Nat, LooksFor(c, j),
         UNCHANGED <<tree, root16>>, NEW m \in Nat, m + 1 \in DOMAIN All(c.in),
         NotAmong(c.in, m, c.asked[j]), NEW e, e = All(c.in)[m + 1],
         e.kind # "end", e.name = c.asked[j], Found(e)
  PROVE  OpenInv'
<1>1. /\ c.asked \in Paths /\ j \in 1 .. Len(c.asked) /\ Len(c.path) = Len(c.asked) - j + 1
      /\ c.path \in Seq(STRING) /\ \A i \in 1 .. Len(c.path) : c.path[i] = c.asked[j + i - 1]
      /\ c.in = DirectoryOf(c.asked, j) /\ c.in \in DOMAIN tree
      /\ \A i \in 1 .. j - 1 : Exists(DirectoryOf(c.asked, i), c.asked[i], {"directory"})
  BY DEF LooksFor
<1>2. c.asked \in Seq(STRING) /\ Len(c.asked) \in Nat /\ j \in DOMAIN c.asked
  BY <1>1, TreeAssumption
<1>3. e.kind \in Listable
  BY <1>1, <1>2, NamesAreOne
<1>4. \A kinds : e.kind \in kinds => Exists(c.in, c.asked[j], kinds)
  BY ItIsThere
<1>5. CASE Len(c.path) = 1
  <2>1. Ends(TRUE, e.name)
    BY <1>5 DEF Found
  <2>2. j = Len(c.asked)
    BY <1>1, <1>2, <1>5
  <2>3. IsThere(c.asked)
    <3>1. ASSUME NEW i \in 1 .. Len(c.asked)
          PROVE  Exists(DirectoryOf(c.asked, i), c.asked[i], IF i = Len(c.asked) THEN Listable ELSE {"directory"})
      <4>1. CASE i = Len(c.asked)
        BY <1>1, <1>3, <1>4, <2>2, <4>1
      <4>2. CASE i # Len(c.asked)
        <5>1. i \in 1 .. j - 1
          BY <2>2, <1>2, <4>2
        <5> QED BY <1>1, <4>2, <5>1
      <4> QED BY <4>1, <4>2
    <3> QED BY <3>1 DEF IsThere
  <2>4. Last(c.asked) = e.name
    BY <1>2, <2>2 DEF Last
  <2>5. Opened(c.asked, e.name)
    BY <2>3, <2>4 DEF Opened
  <2> QED BY <2>1, <2>5, EndsOpen
<1>6. CASE Len(c.path) # 1 /\ e.kind # "directory"
  <2>1. Ends(TRUE, "none")
    BY <1>6 DEF Found
  <2>2. j # Len(c.asked)
    BY <1>1, <1>2, <1>6
  <2>3. ~Exists(c.in, c.asked[j], {"directory"})
    <3>1. SUFFICES ASSUME NEW k \in DOMAIN All(c.in), All(c.in)[k].kind = "directory",
                          All(c.in)[k].name = c.asked[j]
                   PROVE  FALSE
      BY DEF Exists
    <3>2. All(c.in)[k].kind = e.kind
      BY <1>1, <1>2, <3>1, NamesAreOne
    <3> QED BY <1>6, <3>1, <3>2
  <2>4. Opened(c.asked, "none")
    BY <1>1, <2>2, <2>3, OneIsMissing
  <2> QED BY <2>1, <2>4, EndsOpen
<1>7. CASE Len(c.path) # 1 /\ e.kind = "directory"
  <2>1. call' = [Resting EXCEPT !.at = "find", !.path = Tail(c.path), !.asked = c.asked, !.in = e.name]
    BY <1>7 DEF Found
  <2>2. /\ DOMAIN call' = CallFields /\ call'.at = "find" /\ call'.asked = c.asked
        /\ call'.path = Tail(c.path) /\ ~call'.listing /\ call'.in = e.name
        /\ call'.cluster = 1 /\ call'.sector = 1
    BY <2>1, RestingFields DEF Resting, CallFields
  <2>3. PICK d : d = call'
    OBVIOUS
  <2>4. j + 1 \in 1 .. Len(c.asked) /\ Len(c.path) >= 2
    BY <1>1, <1>2, <1>7
  <2>5. /\ Tail(c.path) \in Seq(STRING) /\ Len(Tail(c.path)) = Len(c.path) - 1
        /\ \A i \in 1 .. Len(c.path) - 1 : Tail(c.path)[i] = c.path[i + 1]
    <3>1. c.path \in Seq(STRING) /\ c.path # <<>>
      BY <1>1, <2>4
    <3> QED BY ONLY <3>1, HeadTailProperties
  <2>6. ASSUME NEW i \in 1 .. Len(Tail(c.path)) PROVE Tail(c.path)[i] = c.asked[(j + 1) + i - 1]
    <3>1. i + 1 \in 1 .. Len(c.path) /\ j + (i + 1) - 1 = (j + 1) + i - 1
      BY <1>1, <1>2, <2>5
    <3>2. c.path[i + 1] = c.asked[j + (i + 1) - 1]
      BY <1>1, <3>1
    <3>3. Tail(c.path)[i] = c.path[i + 1]
      BY <2>5
    <3> QED BY <3>1, <3>2, <3>3
  <2>7. e.name \in DOMAIN tree
    BY <1>1, <1>7, EntriesAreFine
  <2>8. DirectoryOf(c.asked, j + 1) = e.name
    BY <1>1 DEF DirectoryOf
  <2>9. ASSUME NEW i \in 1 .. j PROVE Exists(DirectoryOf(c.asked, i), c.asked[i], {"directory"})
    <3>1. CASE i = j
      BY <1>1, <1>4, <1>7, <3>1
    <3>2. CASE i # j
      <4>1. i \in 1 .. j - 1
        BY <3>2
      <4> QED BY <1>1, <4>1
    <3> QED BY <3>1, <3>2
  <2>10. Len(Tail(c.path)) = Len(c.asked) - (j + 1) + 1
    <3>1. Len(Tail(c.path)) = Len(c.path) - 1
      BY <2>5
    <3>2. Len(c.path) = Len(c.asked) - j + 1
      BY <1>1
    <3> QED BY ONLY <3>1, <3>2, j \in Nat, Len(c.asked) \in Nat, <1>2
  <2>11. (j + 1) - 1 = j /\ j + 1 \in Nat
    OBVIOUS
  <2> DEFINE i1 == j + 1
  <2>12. i1 \in Nat /\ i1 - 1 = j
    BY <2>11
  <2>13. /\ d.asked \in Paths /\ i1 \in 1 .. Len(d.asked) /\ d.path \in Seq(STRING)
         /\ Len(d.path) = Len(d.asked) - i1 + 1
         /\ d.in = DirectoryOf(d.asked, i1) /\ d.in \in DOMAIN tree
         /\ d.cluster = 1 /\ d.sector = 1
    BY <1>1, <2>2, <2>3, <2>4, <2>5, <2>7, <2>8, <2>10
  <2>14. \A i \in 1 .. Len(d.path) : d.path[i] = d.asked[i1 + i - 1]
    BY <2>2, <2>3, <2>6
  <2>15. \A i \in 1 .. i1 - 1 : Exists(DirectoryOf(d.asked, i), d.asked[i], {"directory"})
    BY <2>2, <2>3, <2>9, <2>12
  <2> HIDE DEF i1
  <2>16. LooksFor(d, i1)
    BY <2>12, <2>13, <2>14, <2>15, BeginsLooking
  <2> QED BY <2>2, <2>3, <2>16, GoesOnLooking
<1> QED BY <1>5, <1>6, <1>7

LEMMA FindOpens ==
  ASSUME TreeOk, OpenInv, FindSector
  PROVE  OpenInv'
<1>1. call.at = "find" /\ UNCHANGED <<tree, root16>> /\ DOMAIN call = CallFields /\ ~call.listing
  BY DEF FindSector, OpenInv
<1>2. PICK c, j : c = call /\ LooksFor(c, j)
  BY <1>1 DEF OpenInv
<1> DEFINE d == c.in
           wanted == c.asked[j]
           sector == Clusters(d)[c.cluster][c.sector]
           done == Before(d, c.cluster, c.sector)
           size == Len(Clusters(d)) * Length(d)
<1>3. /\ c.asked \in Paths /\ j \in 1 .. Len(c.asked) /\ Len(c.path) = Len(c.asked) - j + 1
      /\ c.path \in Seq(STRING) /\ \A i \in 1 .. Len(c.path) : c.path[i] = c.asked[j + i - 1]
      /\ d = DirectoryOf(c.asked, j) /\ d \in DOMAIN tree
      /\ c.cluster \in DOMAIN Clusters(d) /\ c.sector \in 1 .. SectorCount(d)
      /\ NotAmong(d, done, wanted)
  BY <1>2 DEF LooksFor
<1>4. c.asked \in Seq(STRING) /\ Len(c.asked) \in Nat /\ j \in Nat
  BY <1>3, TreeAssumption
<1>5. Head(c.path) = wanted
  <2>1. 1 \in 1 .. Len(c.path) /\ c.path # <<>>
    BY <1>3, <1>4
  <2>2. c.path[1] = c.asked[j + 1 - 1] /\ j + 1 - 1 = j
    BY <1>3, <1>4, <2>1
  <2> QED BY <1>3, <2>1, <2>2
<1>6. Sectors(call.cluster, call.sector) = {sector}
  <2>1. c.sector \in DOMAIN Clusters(d)[c.cluster]
    BY <1>3, DirectorySizes
  <2> QED BY <1>2, <1>3, <2>1 DEF Sectors
<1>7. DOMAIN sector = 1 .. EntriesPerSector /\ EntriesPerSector \in Nat \ {0}
  BY <1>3, DirectorySizes
<1>8. done \in Nat /\ \A i : Position(d, c.cluster, c.sector, i) = done + i
  BY <1>3, BeforeFacts
<1>9. \A i \in 1 .. EntriesPerSector : done + i \in DOMAIN All(d) /\ All(d)[done + i] = sector[i]
  BY <1>3, <1>8, EntryAtPosition
<1> DEFINE stops == {i \in DOMAIN sector : sector[i].kind = "end" \/ sector[i].name = wanted}
           k == Min(stops)
<1>10. IF stops # {}
       THEN IF sector[k].kind = "end" THEN Ends(TRUE, "none") ELSE Found(sector[k])
       ELSE IF ~SectorsDone THEN call' = [call EXCEPT !.sector = @ + 1]
       ELSE IF IsRoot16(d) THEN Ends(TRUE, "none")
       ELSE \/ IF c.cluster + 1 \in DOMAIN Clusters(d)
               THEN call' = [call EXCEPT !.cluster = @ + 1, !.sector = 1]
               ELSE Ends(TRUE, "none")
            \/ Ends(FALSE, "none")
  <2>1. PICK entries \in Sectors(call.cluster, call.sector) :
          LET T == {i \in DOMAIN entries : entries[i].kind = "end" \/ entries[i].name = Head(call.path)}
              n == Min(T)
          IN  IF T # {}
              THEN IF entries[n].kind = "end" THEN Ends(TRUE, "none") ELSE Found(entries[n])
              ELSE IF ~SectorsDone THEN call' = [call EXCEPT !.sector = @ + 1]
              ELSE IF IsRoot16(call.in) THEN Ends(TRUE, "none")
              ELSE \/ IF call.cluster + 1 \in DOMAIN Clusters(call.in)
                      THEN call' = [call EXCEPT !.cluster = @ + 1, !.sector = 1]
                      ELSE Ends(TRUE, "none")
                   \/ Ends(FALSE, "none")
    BY DEF FindSector
  <2>2. entries = sector
    BY <1>6, <2>1
  <2> HIDE DEF sector, wanted
  <2>3. \A i : sector[i].name = Head(call.path) <=> sector[i].name = wanted
    BY <1>2, <1>5
  <2>4. {i \in DOMAIN entries : entries[i].kind = "end" \/ entries[i].name = Head(call.path)} = stops
    BY <2>2, <2>3
  <2> HIDE DEF stops
  <2> QED BY <1>2, <2>1, <2>2, <2>4
<1>11. DOMAIN All(d) = 1 .. size /\ size \in Nat
  BY <1>3, AllIsSequence
<1> HIDE DEF sector, done, wanted, d, size
<1>12. CASE stops # {}
  <2>1. k \in stops /\ k \in 1 .. EntriesPerSector /\ \A i \in 1 .. EntriesPerSector : i < k => i \notin stops
    <3>1. stops \subseteq 1 .. EntriesPerSector /\ EntriesPerSector \in Nat
      BY <1>7
    <3> HIDE DEF stops
    <3> QED BY <1>12, <3>1, FirstStop
  <2> HIDE DEF k
  <2> DEFINE m == done + (k - 1)
  <2>2. NotAmong(d, m, wanted)
    <3>1. k - 1 \in 0 .. EntriesPerSector
      BY <1>7, <2>1
    <3>2. \A i \in 1 .. EntriesPerSector : i <= k - 1 => sector[i].kind # "end" /\ sector[i].name # wanted
      BY <1>7, <2>1
    <3> QED BY <1>3, <3>1, <3>2, SectorPassed DEF sector, done
  <2>3. m \in Nat /\ m + 1 = done + k
    BY <1>7, <1>8, <2>1
  <2>4. m + 1 \in DOMAIN All(d) /\ All(d)[m + 1] = sector[k]
    BY <1>9, <2>1, <2>3
  <2> HIDE DEF m
  <2>5. CASE sector[k].kind = "end"
    <3>1. Ends(TRUE, "none")
      BY <1>10, <1>12, <2>5
    <3>2. \A kinds : ~Exists(d, wanted, kinds)
      BY <1>11, <2>2, <2>3, <2>4, <2>5, NotThere
    <3>3. Opened(c.asked, "none")
      BY <1>3, <3>2, OneIsMissing DEF wanted
    <3> QED BY <1>1, <1>2, <3>1, <3>3, EndsOpen
  <2>6. CASE sector[k].kind # "end"
    <3>1. Found(sector[k]) /\ sector[k].name = wanted
      BY <1>10, <1>12, <2>1, <2>6
    <3> QED BY <1>1, <1>2, <1>4, <2>2, <2>3, <2>4, <2>6, <3>1, FoundOpens DEF d, wanted
  <2> QED BY <2>5, <2>6
<1>13. CASE stops = {}
  <2>1. NotAmong(d, done + EntriesPerSector, wanted)
    <3>1. EntriesPerSector \in 0 .. EntriesPerSector
      BY <1>7
    <3>2. \A i \in 1 .. EntriesPerSector : i <= EntriesPerSector => sector[i].kind # "end" /\ sector[i].name # wanted
      BY <1>7, <1>13
    <3> QED BY <1>3, <3>1, <3>2, SectorPassed DEF sector, done
  <2>2. CASE ~SectorsDone
    <3>1. call' = [call EXCEPT !.sector = @ + 1]
      BY <1>10, <1>13, <2>2
    <3>2. PICK e : e = call'
      OBVIOUS
    <3>3. /\ DOMAIN e = CallFields /\ e.at = "find" /\ ~e.listing /\ e.sector = c.sector + 1
          /\ e.cluster = c.cluster /\ e.in = c.in /\ e.path = c.path /\ e.asked = c.asked
      BY <1>1, <1>2, <3>1, <3>2 DEF CallFields
    <3>4. c.sector + 1 \in 1 .. SectorCount(d) /\ c.sector < SectorCount(d)
      BY <1>2, <1>3, <2>2, DirectorySizes DEF SectorsDone, d
    <3>5. Before(d, c.cluster, c.sector + 1) = done + EntriesPerSector
      BY <1>3, <3>4, BeforeFacts DEF done
    <3>6. LooksFor(e, j)
      BY <1>2, <1>3, <2>1, <3>3, <3>4, <3>5 DEF LooksFor, d, wanted
    <3> QED BY <1>1, <3>2, <3>3, <3>6, GoesOnLooking
  <2>3. CASE SectorsDone
    <3>1. c.sector = SectorCount(d)
      BY <1>2, <1>3, <2>3, DirectorySizes DEF SectorsDone, d
    <3>2. Before(d, c.cluster + 1, 1) = done + EntriesPerSector
          /\ done + EntriesPerSector = c.cluster * Length(d)
      BY <1>3, <3>1, BeforeFacts DEF done
    <3>3. c.cluster = Len(Clusters(d)) => Opened(c.asked, "none")
      <4>1. SUFFICES ASSUME c.cluster = Len(Clusters(d)) PROVE Opened(c.asked, "none")
        OBVIOUS
      <4>2. done + EntriesPerSector = size
        BY <3>2, <4>1 DEF size
      <4>3. NotAmong(d, size, wanted)
        BY <2>1, <4>2
      <4>4. \A kinds : ~Exists(d, wanted, kinds)
        BY <1>11, <4>3, NotThere
      <4> QED BY <1>3, <4>4, OneIsMissing DEF wanted
    <3>4. CASE Ends(FALSE, "none")
      BY <1>1, <3>4, EndsOpen
    <3>5. CASE Ends(TRUE, "none") /\ c.cluster = Len(Clusters(d))
      BY <1>1, <1>2, <3>3, <3>5, EndsOpen
    <3>6. CASE c.cluster + 1 \in DOMAIN Clusters(d) /\ call' = [call EXCEPT !.cluster = @ + 1, !.sector = 1]
      <4>1. PICK e : e = call'
        OBVIOUS
      <4>2. /\ DOMAIN e = CallFields /\ e.at = "find" /\ ~e.listing /\ e.sector = 1
            /\ e.cluster = c.cluster + 1 /\ e.in = c.in /\ e.path = c.path /\ e.asked = c.asked
        BY <1>1, <1>2, <3>6, <4>1 DEF CallFields
      <4>3. 1 \in 1 .. SectorCount(d)
        BY <1>3, DirectorySizes
      <4>4. NotAmong(d, Before(d, c.cluster + 1, 1), wanted)
        BY <2>1, <3>2
      <4>5. LooksFor(e, j)
        BY <1>2, <1>3, <3>6, <4>2, <4>3, <4>4 DEF LooksFor, d, wanted
      <4> QED BY <1>1, <4>1, <4>2, <4>5, GoesOnLooking
    <3>7. c.cluster + 1 \notin DOMAIN Clusters(d) => c.cluster = Len(Clusters(d))
      BY <1>3, DirectorySizes
    <3>8. IsRoot16(d) => c.cluster = Len(Clusters(d))
      <4>1. IsRoot16(d) => Len(Clusters(d)) = 1
        BY <1>3, DirectorySizes
      <4>2. c.cluster \in 1 .. Len(Clusters(d))
        BY <1>3, DirectorySizes
      <4>3. Len(Clusters(d)) = 1 => c.cluster = Len(Clusters(d))
        BY <4>2
      <4> QED BY <4>1, <4>3
    <3>9. \/ Ends(TRUE, "none") /\ (IsRoot16(d) \/ c.cluster + 1 \notin DOMAIN Clusters(d))
          \/ Ends(FALSE, "none")
          \/ c.cluster + 1 \in DOMAIN Clusters(d) /\ call' = [call EXCEPT !.cluster = @ + 1, !.sector = 1]
      <4> HIDE DEF stops
      <4> QED BY <1>10, <1>13, <2>3
    <3> QED BY <3>4, <3>5, <3>6, <3>7, <3>8, <3>9
  <2> QED BY <2>2, <2>3
<1> QED BY <1>12, <1>13

LEMMA ListOpens ==
  ASSUME TreeOk, OpenInv, ListSector
  PROVE  OpenInv'
<1>1. call.at = "list" /\ UNCHANGED <<tree, root16>> /\ DOMAIN call = CallFields /\ call.asked = <<>>
  BY DEF ListSector, OpenInv
<1>2. ASSUME NEW well \in BOOLEAN, NEW result, Ends(well, result) PROVE OpenInv'
  BY <1>1, <1>2, EndsOpen
<1>3. ASSUME NEW n, Pass(n) PROVE OpenInv'
  <2>1. \/ \E well \in BOOLEAN : \E result : Ends(well, result)
        \/ call' = [call EXCEPT !.index = 1, !.count = @ + 1]
        \/ \E next : call' = [call EXCEPT !.index = 1, !.count = 0, !.cluster = next, !.sector = 1]
    BY <1>3 DEF Pass
  <2>2. CASE \/ call' = [call EXCEPT !.index = 1, !.count = @ + 1]
             \/ \E next : call' = [call EXCEPT !.index = 1, !.count = 0, !.cluster = next, !.sector = 1]
    <3>1. DOMAIN call' = CallFields /\ call'.at = "list" /\ call'.asked = <<>>
      BY <1>1, <2>2 DEF CallFields
    <3> QED BY <1>1, <3>1, ListsOpen
  <2> QED BY <1>2, <2>1, <2>2
<1>4. ASSUME NEW name, NEW n, Give(name, n) PROVE OpenInv'
  <2>1. Ends(TRUE, name)
    BY <1>4 DEF Give
  <2> QED BY <1>2, <2>1
<1>5. \/ \E n : Pass(n)
      \/ \E name, n : Give(name, n)
      \/ Ends(TRUE, "none")
  BY DEF ListSector
<1> QED BY <1>2, <1>3, <1>4, <1>5

(* What open was asked for so far has been found or is not there.          *)
LEMMA NextOpens ==
  ASSUME TreeOk, OpenInv, [DirNext]_dirVars
  PROVE  TreeOk' /\ OpenInv'
<1>1. UNCHANGED <<tree, root16>>
  BY DEF DirNext, dirVars, openNextFile, ListSector, rewindDirectory, CannotRead, FindSector, open
<1>2. CASE openNextFile
  <2>1. DOMAIN call' = CallFields /\ call'.at = "list" /\ call'.asked = <<>>
    BY <1>2, RestingFields DEF openNextFile, Resting, CallFields
  <2> QED BY <1>1, <2>1, ListsOpen, TreeStays
<1>3. CASE ListSector
  BY <1>1, <1>3, ListOpens, TreeStays
<1>4. CASE rewindDirectory
  <2>1. DOMAIN call' = CallFields /\ call'.at = "rest" /\ call'.asked = <<>>
    BY <1>4, RestingFields DEF rewindDirectory
  <2> QED BY <1>1, <2>1, ListsOpen, TreeStays
<1>5. CASE CannotRead
  <2>1. Ends(FALSE, "none")
    BY <1>5 DEF CannotRead
  <2> QED BY <1>1, <2>1, EndsOpen, TreeStays
<1>6. CASE FindSector
  BY <1>1, <1>6, FindOpens, TreeStays
<1>7. ASSUME NEW path \in Paths, open(path) PROVE TreeOk' /\ OpenInv'
  BY <1>1, <1>7, OpenBegins, TreeStays
<1>8. CASE UNCHANGED dirVars
  <2>1. call' = call
    BY <1>8 DEF dirVars
  <2>2. (call.at = "find" => ~call.listing /\ \E c, j : c = call /\ LooksFor(c, j))'
    <3>1. SUFFICES ASSUME call.at = "find" PROVE (\E c, j : c = call /\ LooksFor(c, j))' /\ ~call.listing
      BY <2>1
    <3>2. PICK c, j : c = call /\ LooksFor(c, j)
      BY <3>1 DEF OpenInv
    <3>3. LooksFor(c, j)' /\ c = call'
      BY <1>1, <2>1, <3>2, LooksForStays
    <3> QED BY <3>1, <3>3 DEF OpenInv
  <2>3. (\A path : call.at = "rest" /\ call.well /\ call.asked = path /\ path # <<>> =>
           Opened(path, call.result))'
    <3>1. ASSUME NEW path, call.at = "rest", call.well, call.asked = path, path # <<>>
          PROVE  Opened(path, call.result)'
      <4>1. IsThere(path)' <=> IsThere(path)
        BY <1>1, TreeStays
      <4>2. Opened(path, call.result)
        BY <3>1 DEF OpenInv
      <4> QED BY <2>1, <4>1, <4>2 DEF Opened
    <3> QED BY <2>1, <3>1
  <2> QED BY <1>1, <2>1, <2>2, <2>3, TreeStays DEF OpenInv
<1> QED BY <1>2, <1>3, <1>4, <1>5, <1>6, <1>7, <1>8 DEF DirNext

LEMMA AlwaysOpens == DirSpec => [](TreeOk /\ OpenInv)
<1>1. DirInit => TreeOk /\ OpenInv
  BY InitOpens DEF DirInit, TreeOk
<1>2. TreeOk /\ OpenInv /\ [DirNext]_dirVars => TreeOk' /\ OpenInv'
  BY NextOpens
<1> QED BY <1>1, <1>2, PTL DEF DirSpec

(* open finds what its path leads to, through directories of any number of *)
(* clusters, and nothing else: find goes on to the next sector and to the  *)
(* next cluster until it has seen all that comes before the end.           *)
THEOREM FindsWhatIsThere == DirSpec => []OpensWhatIsThere
<1>1. OpenInv => OpensWhatIsThere
  BY DEF OpenInv, Opened, OpensWhatIsThere
<1> QED BY <1>1, AlwaysOpens, PTL
-----------------------------------------------------------------------------
(* The function that Given is defined by.                                  *)
IsGiven(entries, n, g) ==
  g = [k \in 0 .. n |-> IF k = 0 THEN <<>>
                        ELSE IF entries[k].kind \in Listable THEN Append(g[k - 1], entries[k].name)
                        ELSE g[k - 1]]

LEMMA GivenIsLast ==
  ASSUME NEW entries, NEW n
  PROVE  Given(entries, n) = (CHOOSE g : IsGiven(entries, n, g))[n]
BY DEF Given, IsGiven

(* There is one for each length: there would be a least without one.       *)
LEMMA GivenExists ==
  ASSUME NEW entries, NEW n \in Nat
  PROVE  \E g : IsGiven(entries, n, g)
<1> DEFINE T == {m \in Nat : ~ \E g : IsGiven(entries, m, g)}
<1>1. CASE T = {}
  BY <1>1
<1>2. CASE T # {}
  <2>1. PICK m \in T : \A y \in T : m <= y
    <3>1. T \subseteq Nat
      OBVIOUS
    <3> HIDE DEF T
    <3> QED BY <1>2, <3>1, NatMin
  <2>2. CASE m = 0
    <3> DEFINE g == [k \in 0 .. 0 |-> <<>>]
    <3>1. IsGiven(entries, 0, g)
      BY DEF IsGiven
    <3> HIDE DEF g
    <3> QED BY <2>1, <2>2, <3>1
  <2>3. CASE m # 0
    <3>1. m - 1 \in Nat /\ m - 1 \notin T
      BY <2>1, <2>3
    <3>2. PICK g : IsGiven(entries, m - 1, g)
      BY <3>1
    <3> DEFINE last == IF entries[m].kind \in Listable THEN Append(g[m - 1], entries[m].name)
                       ELSE g[m - 1]
               h == [k \in 0 .. m |-> IF k = m THEN last ELSE g[k]]
               f == [k \in 0 .. m |-> IF k = 0 THEN <<>>
                       ELSE IF entries[k].kind \in Listable THEN Append(h[k - 1], entries[k].name)
                       ELSE h[k - 1]]
    <3>3. ASSUME NEW k \in 0 .. m PROVE h[k] = f[k]
      <4>1. CASE k = m
        <5>1. h[m] = last /\ h[m - 1] = g[m - 1]
          BY <2>3, <3>1
        <5>2. f[m] = IF entries[m].kind \in Listable THEN Append(h[m - 1], entries[m].name) ELSE h[m - 1]
          BY <2>3, <3>1
        <5> HIDE DEF h, f
        <5> QED BY <4>1, <5>1, <5>2
      <4>2. CASE k # m /\ k = 0
        <5>1. h[0] = g[0] /\ f[0] = <<>>
          BY <4>2
        <5>2. g[0] = <<>>
          BY <3>1, <3>2 DEF IsGiven
        <5> QED BY <4>2, <5>1, <5>2
      <4>3. CASE k # m /\ k # 0
        <5>1. k \in 0 .. m - 1 /\ k - 1 \in 0 .. m - 1 /\ k \in 0 .. m /\ k - 1 \in 0 .. m /\ k - 1 # m
          BY <4>3, <3>1
        <5>2. h[k] = g[k] /\ h[k - 1] = g[k - 1]
          BY <4>3, <5>1
        <5>3. g[k] = IF entries[k].kind \in Listable THEN Append(g[k - 1], entries[k].name) ELSE g[k - 1]
          BY <3>2, <4>3, <5>1 DEF IsGiven
        <5>4. f[k] = IF entries[k].kind \in Listable THEN Append(h[k - 1], entries[k].name) ELSE h[k - 1]
          BY <4>3, <5>1
        <5> HIDE DEF h, f
        <5> QED BY <5>2, <5>3, <5>4
      <4> QED BY <4>1, <4>2, <4>3
    <3>4. h = f
      <4>1. DOMAIN h = 0 .. m /\ DOMAIN f = 0 .. m
        OBVIOUS
      <4> QED BY <3>3, <4>1
    <3> HIDE DEF h
    <3>5. IsGiven(entries, m, h)
      BY <3>4 DEF IsGiven
    <3> QED BY <2>1, <3>5
  <2> QED BY <2>2, <2>3
<1> QED BY <1>1, <1>2

(* It is the same function up to any length.                               *)
LEMMA GivenAgrees ==
  ASSUME NEW entries, NEW m \in Nat, NEW n \in Nat, NEW g, NEW h,
         IsGiven(entries, m, g), IsGiven(entries, n, h), NEW i \in Nat, i <= m, i <= n
  PROVE  g[i] = h[i]
<1> DEFINE T == {k \in Nat : k <= m /\ k <= n /\ g[k] # h[k]}
<1>1. CASE T = {}
  BY <1>1
<1>2. CASE T # {}
  <2>1. PICK k \in T : \A y \in T : k <= y
    <3>1. T \subseteq Nat
      OBVIOUS
    <3> HIDE DEF T
    <3> QED BY <1>2, <3>1, NatMin
  <2>2. k \in Nat /\ k <= m /\ k <= n /\ g[k] # h[k] /\ k \in 0 .. m /\ k \in 0 .. n
    BY <2>1
  <2>3. g[k] = IF k = 0 THEN <<>> ELSE IF entries[k].kind \in Listable
               THEN Append(g[k - 1], entries[k].name) ELSE g[k - 1]
    BY <2>2 DEF IsGiven
  <2>4. h[k] = IF k = 0 THEN <<>> ELSE IF entries[k].kind \in Listable
               THEN Append(h[k - 1], entries[k].name) ELSE h[k - 1]
    BY <2>2 DEF IsGiven
  <2>5. k # 0 => g[k - 1] = h[k - 1]
    <3>1. SUFFICES ASSUME k # 0, g[k - 1] # h[k - 1] PROVE FALSE
      OBVIOUS
    <3>2. k - 1 \in T
      BY <2>2, <3>1
    <3> QED BY <2>1, <2>2, <3>2
  <2> QED BY <2>2, <2>3, <2>4, <2>5
<1> QED BY <1>1, <1>2

LEMMA GivenNone ==
  ASSUME NEW entries
  PROVE  Given(entries, 0) = <<>>
<1>1. PICK g : IsGiven(entries, 0, g)
  BY GivenExists
<1>2. IsGiven(entries, 0, CHOOSE h : IsGiven(entries, 0, h))
  BY <1>1
<1>3. Given(entries, 0) = (CHOOSE h : IsGiven(entries, 0, h))[0]
  BY GivenIsLast
<1> QED BY <1>2, <1>3 DEF IsGiven

(* What is given of the first entries, one entry after the other.          *)
LEMMA GivenStep ==
  ASSUME NEW entries, NEW n \in Nat
  PROVE  Given(entries, n + 1) = IF entries[n + 1].kind \in Listable
                                 THEN Append(Given(entries, n), entries[n + 1].name)
                                 ELSE Given(entries, n)
<1> DEFINE G(k) == CHOOSE g : IsGiven(entries, k, g)
<1>1. \A k \in Nat : IsGiven(entries, k, G(k))
  BY GivenExists
<1>2. \A k \in Nat : Given(entries, k) = G(k)[k]
  BY GivenIsLast
<1> HIDE DEF G
<1>4. G(n + 1)[n] = G(n)[n]
  <2>1. n + 1 \in Nat /\ n <= n /\ n <= n + 1
    OBVIOUS
  <2>2. IsGiven(entries, n + 1, G(n + 1)) /\ IsGiven(entries, n, G(n))
    BY <1>1, <2>1
  <2> QED BY <2>1, <2>2, GivenAgrees
<1>5. G(n + 1)[n + 1] = IF entries[n + 1].kind \in Listable
                        THEN Append(G(n + 1)[n], entries[n + 1].name) ELSE G(n + 1)[n]
  <2>1. IsGiven(entries, n + 1, G(n + 1)) /\ n + 1 \in 0 .. n + 1 /\ n + 1 # 0 /\ (n + 1) - 1 = n
    BY <1>1
  <2> QED BY <2>1 DEF IsGiven
<1>6. Given(entries, n + 1) = G(n + 1)[n + 1] /\ Given(entries, n) = G(n)[n]
  BY <1>2
<1> QED BY <1>4, <1>5, <1>6

(* Entries that are not listed give nothing.                               *)
LEMMA NothingGiven ==
  ASSUME NEW entries, NEW m \in Nat, NEW n \in Nat, m <= n,
         \A k \in m + 1 .. n : entries[k].kind \notin Listable
  PROVE  Given(entries, n) = Given(entries, m)
<1> DEFINE T == {k \in Nat : m <= k /\ k <= n /\ Given(entries, k) # Given(entries, m)}
<1>1. CASE T = {}
  BY <1>1
<1>2. CASE T # {}
  <2>1. PICK k \in T : \A y \in T : k <= y
    <3>1. T \subseteq Nat
      OBVIOUS
    <3> HIDE DEF T
    <3> QED BY <1>2, <3>1, NatMin
  <2>2. k # m /\ k \in m + 1 .. n /\ k - 1 \in Nat /\ k - 1 >= m /\ k - 1 <= n /\ k \in Nat
    BY <2>1
  <2>3. Given(entries, k - 1) = Given(entries, m)
    <3>1. k - 1 \notin T
      BY <2>1, <2>2
    <3> QED BY <2>2, <3>1
  <2>4. (k - 1) + 1 = k
    BY <2>2
  <2>5. Given(entries, k) = Given(entries, k - 1)
    BY <2>2, <2>4, GivenStep
  <2> QED BY <2>1, <2>3, <2>5
<1> QED BY <1>1, <1>2

(* It is a sequence of names, and goes on as it began.                     *)
LEMMA GivenIsPrefix ==
  ASSUME NEW entries, NEW N \in Nat, \A k \in 1 .. N : entries[k].name \in STRING,
         NEW m \in 0 .. N, NEW n \in 0 .. N, m <= n
  PROVE  /\ Given(entries, m) \in Seq(STRING)
         /\ IsPrefix(Given(entries, m), Given(entries, n))
<1> DEFINE T == {k \in Nat : k <= N /\ Given(entries, k) \notin Seq(STRING)}
<1>1. \A k \in Nat : k <= N => Given(entries, k) \in Seq(STRING)
  <2>1. CASE T = {}
    BY <2>1
  <2>2. CASE T # {}
    <3>1. PICK k \in T : \A y \in T : k <= y
      <4>1. T \subseteq Nat
        OBVIOUS
      <4> HIDE DEF T
      <4> QED BY <2>2, <4>1, NatMin
    <3>2. k # 0
      <4>1. Given(entries, 0) = <<>>
        BY GivenNone
      <4>2. Given(entries, 0) \in Seq(STRING)
        <5>1. <<>> \in Seq(STRING)
          OBVIOUS
        <5> QED BY ONLY <4>1, <5>1
      <4>3. Given(entries, k) \notin Seq(STRING)
        BY <3>1
      <4> QED BY <4>2, <4>3
    <3>3. k - 1 \in Nat /\ k \in 1 .. N /\ (k - 1) + 1 = k
      BY <3>1, <3>2
    <3>4. Given(entries, k - 1) \in Seq(STRING)
      <4>1. k - 1 \notin T
        BY <3>1, <3>3
      <4> QED BY <3>3, <4>1
    <3>5. Given(entries, k) \in {Append(Given(entries, k - 1), entries[k].name), Given(entries, k - 1)}
      BY <3>3, GivenStep
    <3> QED BY <3>1, <3>3, <3>4, <3>5
  <2> QED BY <2>1, <2>2
<1> DEFINE U == {k \in Nat : m <= k /\ k <= N /\ ~IsPrefix(Given(entries, m), Given(entries, k))}
<1>2. CASE U = {}
  BY <1>1, <1>2
<1>3. CASE U # {}
  <2>1. PICK k \in U : \A y \in U : k <= y
    <3>1. U \subseteq Nat
      OBVIOUS
    <3> HIDE DEF U
    <3> QED BY <1>3, <3>1, NatMin
  <2> DEFINE s == Given(entries, m)
  <2>2. s \in Seq(STRING)
    BY <1>1
  <2>3. k # m
    <3>1. IsPrefix(s, s)
      BY <2>2 DEF IsPrefix
    <3> QED BY <2>1, <3>1
  <2>4. k - 1 \in Nat /\ k \in 1 .. N /\ (k - 1) + 1 = k /\ m <= k - 1 /\ k - 1 <= N
    BY <2>1, <2>3
  <2> DEFINE t == Given(entries, k - 1)
  <2>5. t \in Seq(STRING) /\ IsPrefix(s, t)
    <3>1. k - 1 \notin U
      BY <2>1, <2>4
    <3> QED BY <1>1, <2>4, <3>1
  <2>6. Given(entries, k) \in {Append(t, entries[k].name), t}
    BY <2>4, GivenStep
  <2> DEFINE u == Given(entries, k)
  <2>7. ~IsPrefix(s, u)
    BY <2>1
  <2> HIDE DEF s, t, u, T, U
  <2>8. IsPrefix(s, Append(t, entries[k].name))
    <3>1. entries[k].name \in STRING
      BY <2>4
    <3>2. Len(s) \in Nat /\ Len(t) \in Nat /\ Len(s) <= Len(t) /\ \A i \in 1 .. Len(s) : s[i] = t[i]
      <4>1. SubSeq(s, 1, Len(s)) = SubSeq(t, 1, Len(s)) /\ Len(s) <= Len(t)
        BY <2>5 DEF IsPrefix
      <4>2. Len(s) \in Nat /\ Len(t) \in Nat
        BY <2>2, <2>5
      <4>3. \A i \in 1 .. Len(s) : SubSeq(s, 1, Len(s))[i] = s[i] /\ SubSeq(t, 1, Len(s))[i] = t[i]
        BY <2>2, <2>5, <4>1, <4>2
      <4> QED BY <4>1, <4>2, <4>3
    <3> DEFINE a == Append(t, entries[k].name)
    <3>3. a \in Seq(STRING) /\ Len(a) = Len(t) + 1 /\ \A i \in 1 .. Len(t) : a[i] = t[i]
      BY <2>5, <3>1
    <3> HIDE DEF a
    <3>4. \A i \in 1 .. Len(s) : a[i] = s[i]
      BY <3>2, <3>3
    <3>5. SubSeq(s, 1, Len(s)) = SubSeq(a, 1, Len(s))
      BY <2>2, <3>2, <3>3, <3>4
    <3>6. IsPrefix(s, a)
      BY <3>2, <3>3, <3>5 DEF IsPrefix
    <3> QED BY <3>6 DEF a
  <2> QED BY <2>5, <2>6, <2>7, <2>8 DEF u
<1> QED BY <1>2, <1>3
-----------------------------------------------------------------------------
(* The entries of a directory are a sequence.                              *)
LEMMA AllLength ==
  ASSUME TreeOk, NEW name \in DOMAIN tree
  PROVE  /\ All(name) \in Seq(DirEntry)
         /\ Len(All(name)) \in Nat /\ DOMAIN All(name) = 1 .. Len(All(name))
         /\ Len(All(name)) = Len(Clusters(name)) * Length(name)
<1> DEFINE n == Len(Clusters(name)) * Length(name)
<1>1. n \in Nat /\ DOMAIN All(name) = 1 .. n
  BY AllIsSequence
<1>2. \A m \in DOMAIN All(name) : All(name)[m] \in DirEntry
  BY EntriesAreFine
<1>3. All(name) = [m \in DOMAIN All(name) |-> All(name)[m]]
  BY DEF All
<1> DEFINE all == All(name)
<1> HIDE DEF n, all
<1>4. all \in [1 .. n -> DirEntry]
  BY <1>1, <1>2, <1>3 DEF all
<1>5. all \in Seq(DirEntry) /\ Len(all) = n /\ DOMAIN all = 1 .. n
  BY <1>1, <1>4
<1> QED BY <1>1, <1>5 DEF all, n

LEMMA RootThere ==
  ASSUME TreeOk PROVE "/" \in DOMAIN tree
BY TreeAssumption DEF TreeOk

(* A directory that is not full has an entry after those in use.           *)
LEMMA MoreThere ==
  ASSUME TreeOk, ~IsFull("/"), NEW m \in 0 .. Len(All("/")), InUse(All("/"), m)
  PROVE  m < Len(All("/"))
BY AllLength, RootThere DEF IsFull

(* In which cluster an entry lies that is counted from the first of a      *)
(* sector.                                                                 *)
LEMMA ClusterOf ==
  ASSUME TreeOk, NEW c \in DOMAIN Clusters("/"), NEW s \in 1 .. SectorCount("/"),
         NEW m \in 0 .. EntriesPerSector
  PROVE  LET b == Before("/", c, s) + m
             L == Length("/")
         IN  IF s = SectorCount("/") /\ m = EntriesPerSector
             THEN b \div L = c /\ b % L = 0
             ELSE b \div L = c - 1 /\ (m > 0 => b % L # 0)
<1> DEFINE L == Length("/")
           S == SectorCount("/")
           E == EntriesPerSector
           r == (s - 1) * E + m
           b == Before("/", c, s) + m
<1>1. /\ L \in Nat \ {0} /\ S \in Nat \ {0} /\ E \in Nat \ {0} /\ L = S * E
      /\ c \in Nat \ {0} /\ s \in 1 .. S /\ m \in 0 .. E
  BY DirectorySizes, RootThere
<1>2. b = (c - 1) * L + (s - 1) * E + m
  BY DEF Before
<1> HIDE DEF L, S, E, b
<1>3. (s - 1) * E \in Nat /\ (s - 1) * E = s * E - E
  <2>1. s - 1 \in Nat
    BY <1>1
  <2> QED BY <1>1, <2>1
<1>4. (S - s) * E \in Nat /\ S * E = s * E + (S - s) * E /\ (s # S => (S - s) * E >= E)
  <2>1. S - s \in Nat
    BY <1>1
  <2>2. S * E = s * E + (S - s) * E
    BY <1>1
  <2>3. ASSUME s # S PROVE (S - s) * E >= E
    <3>1. S - s - 1 \in Nat
      BY <1>1, <2>3
    <3>2. (S - s - 1) * E \in Nat /\ (S - s) * E = (S - s - 1) * E + E
      BY <1>1, <3>1
    <3> QED BY <1>1, <3>2
  <2> QED BY <1>1, <2>1, <2>2, <2>3
<1>5. CASE s = S /\ m = E
  <2>1. b = L * c + 0
    BY <1>1, <1>2, <1>3, <1>5
  <2>2. c \in Int /\ 0 \in 0 .. L - 1
    BY <1>1
  <2>3. b \div L = c /\ b % L = 0
    BY ONLY <1>1, <2>1, <2>2, Quotient
  <2> QED BY <1>5, <2>3 DEF L, S, E, b
<1>6. CASE ~(s = S /\ m = E)
  <2>1. r \in 0 .. L - 1 /\ (m > 0 => r # 0)
    BY <1>1, <1>3, <1>4, <1>6
  <2>2. b = L * (c - 1) + r /\ c - 1 \in Int
    BY <1>1, <1>2, <1>3
  <2> HIDE DEF r
  <2>3. b \div L = c - 1 /\ b % L = r
    BY ONLY <1>1, <2>1, <2>2, Quotient
  <2> QED BY <1>6, <2>1, <2>3 DEF L, S, E, b
<1> QED BY <1>5, <1>6
-----------------------------------------------------------------------------
(* l, the File that is listed, stands after entries in use, all of which   *)
(* it has given that are to be listed.                                     *)
Listed(l, given) ==
  /\ l \in [offset : Nat, cluster : Nat]
  /\ l.offset <= Len(All("/")) /\ InUse(All("/"), l.offset)
  /\ given = Given(All("/"), l.offset)
  /\ root16 \/ l.cluster = l.offset \div Length("/") + 1

(* A call of openNextFile is at the entry behind them, and if it has found *)
(* nothing, that entry ends the directory.                                 *)
ListsAt(l, c) ==
  /\ c.at = "list" =>
       /\ c.in = "/" /\ c.cluster \in DOMAIN Clusters("/") /\ c.sector \in 1 .. SectorCount("/")
       /\ c.index \in 1 .. EntriesPerSector /\ c.count = c.sector - 1
       /\ root16 \/ c.cluster = l.cluster
       /\ l.offset = Before("/", c.cluster, c.sector) + c.index - 1
  /\ c.at = "rest" /\ c.listing /\ c.well /\ c.result = "none" =>
       l.offset < Len(All("/")) /\ All("/")[l.offset + 1].kind = "end"

ListInv ==
  ~lost /\ ~IsFull("/") =>
    \E l, given, c : /\ l = listing /\ given = listed /\ c = call
                     /\ Listed(l, given) /\ ListsAt(l, c)

LEMMA ListStays ==
  ASSUME UNCHANGED <<tree, root16>>, NEW l, NEW given, NEW c
  PROVE  /\ Listed(l, given)' <=> Listed(l, given)
         /\ ListsAt(l, c)' <=> ListsAt(l, c)
<1>1. Listed(l, given)' <=> Listed(l, given)
  BY TreeStays DEF Listed
<1>2. \A k, s : Before("/", k, s)' = Before("/", k, s)
  BY TreeStays DEF Before
<1>3. ListsAt(l, c)' <=> ListsAt(l, c)
  BY <1>2, TreeStays DEF ListsAt
<1> QED BY <1>1, <1>3

LEMMA GoesOnListing ==
  ASSUME UNCHANGED <<tree, root16>>, NEW l, l = listing', NEW given, given = listed', NEW c, c = call',
         ~lost' /\ ~IsFull("/") => Listed(l, given) /\ ListsAt(l, c)
  PROVE  ListInv'
<1>1. SUFFICES ASSUME ~lost', ~IsFull("/")' PROVE Listed(l, given)' /\ ListsAt(l, c)'
  BY DEF ListInv
<1>2. ~IsFull("/")
  BY <1>1, TreeStays
<1> QED BY <1>1, <1>2, ListStays

(* A call of another kind leaves the listing alone.                        *)
LEMMA ListAlone ==
  ASSUME ListInv, UNCHANGED <<tree, root16, listing, listed, lost>>, NEW c, c = call',
         c.at # "list", c.at = "rest" => ~c.listing \/ ~c.well
  PROVE  ListInv'
<1>1. PICK l : l = listing
  OBVIOUS
<1>2. PICK given : given = listed
  OBVIOUS
<1>3. ASSUME ~lost', ~IsFull("/") PROVE Listed(l, given) /\ ListsAt(l, c)
  <2>1. Listed(l, given)
    BY <1>1, <1>2, <1>3 DEF ListInv
  <2> QED BY <2>1 DEF ListsAt
<1> QED BY <1>1, <1>2, <1>3, GoesOnListing

(* The beginning of the directory.                                         *)
LEMMA BeginsListing ==
  ASSUME TreeOk, NEW l, l = [offset |-> 0, cluster |-> 1], NEW given, given = <<>>, NEW c,
         c.at = "rest", ~c.listing
  PROVE  Listed(l, given) /\ ListsAt(l, c)
<1>1. Len(All("/")) \in Nat /\ Length("/") \in Nat \ {0}
  BY AllLength, RootThere, DirectorySizes
<1>2. 0 \div Length("/") = 0
  <2>1. Length("/") * 0 + 0 = 0 /\ 0 \in 0 .. Length("/") - 1 /\ 0 \in Int
    BY <1>1
  <2> QED BY <1>1, <2>1, Quotient
<1>3. InUse(All("/"), 0)
  BY DEF InUse
<1>4. l \in [offset : Nat, cluster : Nat] /\ l.offset = 0 /\ l.cluster = 1
  OBVIOUS
<1>5. Listed(l, given)
  BY <1>1, <1>2, <1>3, <1>4, GivenNone DEF Listed
<1> QED BY <1>5 DEF ListsAt
-----------------------------------------------------------------------------
(* The place of an entry from its number, as openNextFile finds it.        *)
LEMMA PlaceOf ==
  ASSUME TreeOk, NEW c \in DOMAIN Clusters("/"), NEW s \in 1 .. SectorCount("/"),
         NEW i \in 1 .. EntriesPerSector, NEW o, o = Before("/", c, s) + i - 1
  PROVE  /\ o % EntriesPerSector = i - 1
         /\ (o % Length("/")) \div EntriesPerSector = s - 1
         /\ o \div Length("/") = c - 1
         /\ c = 1 => o \div EntriesPerSector = s - 1
<1> DEFINE L == Length("/")
           S == SectorCount("/")
           E == EntriesPerSector
           r == (s - 1) * E + (i - 1)
<1>1. /\ L \in Nat \ {0} /\ S \in Nat \ {0} /\ E \in Nat \ {0} /\ L = S * E
      /\ c \in Nat \ {0} /\ s \in 1 .. S /\ i \in 1 .. E
  BY DirectorySizes, RootThere
<1>2. o = (c - 1) * L + (s - 1) * E + i - 1
  BY DEF Before
<1> HIDE DEF L, S, E
<1>3. (s - 1) * E \in Nat /\ (s - 1) * E = s * E - E
  <2>1. s - 1 \in Nat
    BY <1>1
  <2> QED BY <1>1, <2>1
<1>4. (S - s) * E \in Nat /\ S * E = s * E + (S - s) * E
  <2>1. S - s \in Nat
    BY <1>1
  <2> QED BY <1>1, <2>1
<1>5. r \in 0 .. L - 1
  BY <1>1, <1>3, <1>4
<1>6. o = L * (c - 1) + r /\ c - 1 \in Int
  BY <1>1, <1>2, <1>3
<1>7. r = E * (s - 1) + (i - 1) /\ s - 1 \in Int /\ i - 1 \in 0 .. E - 1
  BY <1>1
<1>8. o = E * ((c - 1) * S + (s - 1)) + (i - 1) /\ (c - 1) * S + (s - 1) \in Int
  <2>1. (c - 1) * L = E * ((c - 1) * S)
    BY <1>1
  <2>2. (c - 1) * S \in Int
    BY <1>1
  <2> DEFINE x == (c - 1) * S
  <2> HIDE DEF x
  <2>3. E * (x + (s - 1)) = E * x + E * (s - 1) /\ x + (s - 1) \in Int
    BY <1>1, <2>2 DEF x
  <2>4. o = E * x + E * (s - 1) + (i - 1)
    <3>1. o = E * x + r
      BY <1>1, <1>6, <2>1 DEF x
    <3> QED BY <1>1, <1>7, <2>2, <3>1 DEF x
  <2> QED BY <1>1, <2>2, <2>3, <2>4 DEF x
<1> HIDE DEF r
<1>9. o \div L = c - 1 /\ o % L = r
  BY ONLY <1>1, <1>5, <1>6, Quotient
<1>10. r \div E = s - 1
  BY ONLY <1>1, <1>7, Quotient
<1> DEFINE x == (c - 1) * S + (s - 1)
<1>11. x \in Int /\ o = E * x + (i - 1) /\ (c = 1 => x = s - 1)
  BY <1>1, <1>8
<1> HIDE DEF x
<1>12. o \div E = x /\ o % E = i - 1
  BY ONLY <1>1, <1>7, <1>11, Quotient
<1> QED BY <1>9, <1>10, <1>11, <1>12 DEF L, E

LEMMA OpensNext ==
  ASSUME TreeOk, ListInv, openNextFile
  PROVE  ListInv'
<1>1. UNCHANGED <<tree, root16, listing, listed, lost>>
  BY DEF openNextFile
<1>2. PICK l : l = listing
  OBVIOUS
<1>3. PICK given : given = listed
  OBVIOUS
<1>4. PICK c : c = call'
  OBVIOUS
<1> DEFINE sector == (IF root16 THEN l.offset ELSE l.offset % ClusterEntries) \div EntriesPerSector
<1>5. c = [Resting EXCEPT !.at = "list", !.listing = TRUE,
             !.cluster = IF root16 THEN 1 ELSE l.cluster,
             !.sector = sector + 1, !.index = (l.offset % EntriesPerSector) + 1, !.count = sector]
  BY <1>2, <1>4 DEF openNextFile
<1> HIDE DEF sector
<1>6. /\ c.at = "list" /\ c.in = "/" /\ c.sector = sector + 1 /\ c.count = sector
      /\ c.index = (l.offset % EntriesPerSector) + 1
      /\ c.cluster = IF root16 THEN 1 ELSE l.cluster
  BY <1>5 DEF Resting
<1>7. ASSUME ~lost', ~IsFull("/") PROVE Listed(l, given) /\ ListsAt(l, c)
  <2>1. Listed(l, given)
    BY <1>1, <1>2, <1>3, <1>7 DEF ListInv
  <2>2. l.offset \in Nat /\ l.offset <= Len(All("/")) /\ InUse(All("/"), l.offset)
    BY <2>1 DEF Listed
  <2>3. l.offset + 1 \in DOMAIN All("/")
    BY <1>7, <2>2, MoreThere, AllLength, RootThere
  <2>4. PICK k \in DOMAIN Clusters("/"), s \in 1 .. SectorCount("/"), i \in 1 .. EntriesPerSector :
          l.offset + 1 = Position("/", k, s, i)
    BY <2>3, PositionOfEntry, RootThere
  <2>5. l.offset = Before("/", k, s) + i - 1
    <3>1. Before("/", k, s) \in Nat /\ l.offset + 1 = Before("/", k, s) + i /\ i \in Nat
      BY <2>4, BeforeFacts, RootThere, DirectorySizes
    <3> QED BY <2>2, <3>1
  <2> DEFINE o == l.offset
  <2>6. /\ o % EntriesPerSector = i - 1
        /\ (o % Length("/")) \div EntriesPerSector = s - 1
        /\ o \div Length("/") = k - 1
        /\ k = 1 => o \div EntriesPerSector = s - 1
    BY <2>5, PlaceOf
  <2>7. k \in Nat /\ s \in Nat /\ i \in Nat
    BY DirectorySizes, RootThere
  <2>8. sector = s - 1 /\ c.cluster = k /\ (root16 \/ c.cluster = l.cluster)
    <3>1. CASE root16
      <4>1. k = 1
        BY <3>1, DirectorySizes, RootThere DEF IsRoot16
      <4>2. sector = o \div EntriesPerSector
        BY <3>1 DEF sector
      <4> QED BY <1>6, <2>6, <3>1, <4>1, <4>2
    <3>2. CASE ~root16
      <4>1. Length("/") = ClusterEntries
        BY <3>2, DirectorySizes, RootThere DEF ClusterEntries
      <4>2. sector = (o % Length("/")) \div EntriesPerSector
        BY <3>2, <4>1 DEF sector
      <4>3. l.cluster = o \div Length("/") + 1
        BY <2>1, <3>2 DEF Listed
      <4> QED BY <1>6, <2>6, <2>7, <3>2, <4>2, <4>3
    <3> QED BY <3>1, <3>2
  <2>9. c.sector = s /\ c.count = c.sector - 1 /\ c.index = i
    BY <1>6, <2>6, <2>7, <2>8
  <2>10. ListsAt(l, c)
    BY <1>6, <2>5, <2>8, <2>9 DEF ListsAt
  <2> QED BY <2>1, <2>10
<1> QED BY <1>1, <1>2, <1>3, <1>4, <1>7, GoesOnListing
-----------------------------------------------------------------------------
(* The entries that a sector passes before its first stop give nothing.    *)
LEMMA EntriesPassed ==
  ASSUME TreeOk, NEW c \in DOMAIN Clusters("/"), NEW s \in 1 .. SectorCount("/"),
         NEW i \in 1 .. EntriesPerSector, NEW m \in 0 .. EntriesPerSector, i <= m + 1,
         \A k \in 1 .. EntriesPerSector : i <= k /\ k <= m =>
           Clusters("/")[c][s][k].kind \notin {"end"} \cup Listable,
         InUse(All("/"), Before("/", c, s) + i - 1)
  PROVE  LET b == Before("/", c, s)
         IN  /\ b + m \in Nat /\ b + m <= Len(All("/")) /\ InUse(All("/"), b + m)
             /\ Given(All("/"), b + m) = Given(All("/"), b + i - 1)
<1> DEFINE b == Before("/", c, s)
           all == All("/")
           E == EntriesPerSector
<1>1. b \in Nat /\ E \in Nat \ {0} /\ i \in 1 .. E /\ m \in 0 .. E
  BY BeforeFacts, RootThere, DirectorySizes
<1>2. \A k \in 1 .. E : b + k \in DOMAIN all /\ all[b + k] = Clusters("/")[c][s][k]
  BY BeforeFacts, EntryAtPosition, RootThere
<1>3. Len(all) \in Nat /\ DOMAIN all = 1 .. Len(all)
  BY AllLength, RootThere
<1>4. InUse(all, b + i - 1)
  OBVIOUS
<1>5. \A k \in 1 .. E : i <= k /\ k <= m => all[b + k].kind \notin {"end"} \cup Listable
  BY <1>2
<1> HIDE DEF b, all, E
<1>6. ASSUME NEW n \in b + i .. b + m PROVE all[n].kind \notin {"end"} \cup Listable
  <2> DEFINE k == n - b
  <2>1. k \in 1 .. E /\ i <= k /\ k <= m /\ n = b + k
    BY <1>1
  <2> HIDE DEF k
  <2> QED BY <1>5, <2>1
<1>7. b + m \in Nat /\ b + m <= Len(all)
  <2>1. E \in 1 .. E
    BY <1>1
  <2>2. b + E \in 1 .. Len(all)
    BY <1>2, <1>3, <2>1
  <2> QED BY <1>1, <1>3, <2>2
<1>8. InUse(all, b + m)
  <2>1. ASSUME NEW n \in 1 .. b + m PROVE all[n].kind # "end"
    <3>1. CASE n \in b + i .. b + m
      BY <1>6, <3>1
    <3>2. CASE n \notin b + i .. b + m
      <4>1. n \in 1 .. b + i - 1
        BY <1>1, <3>2
      <4> QED BY <1>4, <4>1 DEF InUse
    <3> QED BY <3>1, <3>2
  <2> QED BY <2>1 DEF InUse
<1> DEFINE x == b + i - 1
           y == b + m
<1>9. x \in Nat /\ y \in Nat /\ x <= y /\ x + 1 = b + i
  BY <1>1
<1>10. \A n \in x + 1 .. y : all[n].kind \notin Listable
  BY <1>6, <1>9
<1> HIDE DEF x, y
<1>11. Given(all, y) = Given(all, x)
  BY <1>9, <1>10, NothingGiven
<1> QED BY <1>7, <1>8, <1>11 DEF b, all, x, y
-----------------------------------------------------------------------------
LEMMA EndsAs ==
  ASSUME DOMAIN call = CallFields, NEW well \in BOOLEAN, NEW result, Ends(well, result), NEW c, c = call'
  PROVE  c.at = "rest" /\ c.well = well /\ c.result = result /\ c.listing = call.listing
BY EndsThere

(* An entry is given.                                                      *)
LEMMA GiveLists ==
  ASSUME TreeOk, DOMAIN call = CallFields, ~IsFull("/"),
         NEW l, l = listing, NEW given, given = listed, NEW c, c = call, c.at = "list",
         Listed(l, given), ListsAt(l, c),
         NEW k \in c.index .. EntriesPerSector,
         \A n \in 1 .. EntriesPerSector : c.index <= n /\ n <= k - 1 =>
           Clusters("/")[c.cluster][c.sector][n].kind \notin {"end"} \cup Listable,
         NEW e, e = Clusters("/")[c.cluster][c.sector][k], e.kind \in Listable,
         Give(e.name, k + 1 - c.index), ~lost',
         NEW l1, l1 = listing', NEW given1, given1 = listed', NEW c1, c1 = call'
  PROVE  Listed(l1, given1) /\ ListsAt(l1, c1)
<1> DEFINE b == Before("/", c.cluster, c.sector)
           all == All("/")
           L == Length("/")
<1>1. /\ c.cluster \in DOMAIN Clusters("/") /\ c.sector \in 1 .. SectorCount("/")
      /\ c.index \in 1 .. EntriesPerSector /\ (root16 \/ c.cluster = l.cluster)
      /\ l.offset = b + c.index - 1
  BY DEF ListsAt
<1>2. /\ l \in [offset : Nat, cluster : Nat] /\ InUse(all, l.offset)
      /\ given = Given(all, l.offset)
  BY DEF Listed
<1>3. /\ b \in Nat /\ EntriesPerSector \in Nat \ {0} /\ L \in Nat \ {0}
      /\ c.cluster \in Nat /\ k \in 1 .. EntriesPerSector /\ c.index \in Nat /\ l.offset \in Nat
  <2>1. b \in Nat
    BY <1>1, BeforeFacts, RootThere
  <2>2. EntriesPerSector \in Nat \ {0} /\ L \in Nat \ {0} /\ c.cluster \in Nat
    BY <1>1, RootThere, DirectorySizes
  <2>3. l.offset \in Nat
    BY <1>2
  <2> HIDE DEF b, L
  <2> QED BY <1>1, <2>1, <2>2, <2>3
<1>4. /\ b + (k - 1) \in Nat /\ InUse(all, b + (k - 1))
      /\ Given(all, b + (k - 1)) = given
  <2>1. k - 1 \in 0 .. EntriesPerSector /\ c.index <= (k - 1) + 1
    BY <1>3
  <2>2. InUse(all, b + c.index - 1) /\ given = Given(all, b + c.index - 1)
    BY <1>1, <1>2
  <2>3. /\ c.cluster \in DOMAIN Clusters("/") /\ c.sector \in 1 .. SectorCount("/")
        /\ c.index \in 1 .. EntriesPerSector
    BY <1>1
  <2> DEFINE m == k - 1
  <2>4. m \in 0 .. EntriesPerSector /\ c.index <= m + 1
    BY <2>1
  <2>5. \A n \in 1 .. EntriesPerSector : c.index <= n /\ n <= m =>
          Clusters("/")[c.cluster][c.sector][n].kind \notin {"end"} \cup Listable
    OBVIOUS
  <2> HIDE DEF m
  <2>6. /\ b + m \in Nat /\ b + m <= Len(all) /\ InUse(all, b + m)
        /\ Given(all, b + m) = Given(all, b + c.index - 1)
    BY ONLY TreeOk, <2>2, <2>3, <2>4, <2>5, EntriesPassed DEF b, all
  <2> QED BY <2>2, <2>6 DEF m
<1>5. b + k \in DOMAIN all /\ all[b + k] = e
  BY <1>1, <1>3, BeforeFacts, EntryAtPosition, RootThere
<1>6. e.kind # "end" /\ e.name # "none"
  <2>1. e.kind # "end"
    BY DEF Listable
  <2>2. e.name # "none"
    BY <1>5, EntriesAreFine, RootThere
  <2> QED BY <2>1, <2>2
<1>7. l.offset + (k + 1 - c.index) = b + k
  BY <1>1, <1>3
<1>8. InUse(all, b + k) /\ b + k <= Len(all) /\ b + k \in Nat
  <2>1. ASSUME NEW n \in 1 .. b + k PROVE all[n].kind # "end"
    <3>1. n = b + k \/ n \in 1 .. b + (k - 1)
      BY <1>3
    <3> QED BY <1>4, <1>5, <1>6, <3>1 DEF InUse
  <2>2. b + k <= Len(all)
    BY <1>3, <1>5, AllLength, RootThere
  <2> QED BY <1>3, <2>1, <2>2 DEF InUse
<1>9. given1 = Given(all, b + k)
  <2>1. given1 = Append(given, e.name)
    BY DEF Give
  <2>2. (b + (k - 1)) + 1 = b + k
    BY <1>3
  <2> DEFINE n == b + (k - 1)
  <2>3. n \in Nat /\ n + 1 = b + k /\ Given(all, n) = given
    BY <1>4, <2>2
  <2> HIDE DEF n
  <2>4. Given(all, n + 1) = Append(Given(all, n), all[n + 1].name)
    BY <1>5, <2>3, GivenStep
  <2> QED BY <1>5, <2>1, <2>3, <2>4
<1>10. PICK cluster \in IF (b + k) % ClusterEntries = 0 THEN NextClusters(l.cluster) ELSE {l.cluster} :
          /\ l1 = [offset |-> b + k, cluster |-> cluster]
          /\ lost' = (lost \/ ((b + k) % ClusterEntries = 0 /\ cluster = l.cluster))
  BY <1>7 DEF Give
<1>11. ~((b + k) % ClusterEntries = 0 /\ cluster = l.cluster)
  BY <1>10
<1>12. cluster = IF (b + k) % ClusterEntries = 0 THEN l.cluster + 1 ELSE l.cluster
  BY <1>10, <1>11 DEF NextClusters
<1>13. l1 \in [offset : Nat, cluster : Nat] /\ l1.offset = b + k /\ l1.cluster = cluster
  BY <1>2, <1>8, <1>10, <1>12
<1>14. root16 \/ cluster = (b + k) \div L + 1
  <2>1. SUFFICES ASSUME ~root16 PROVE cluster = (b + k) \div L + 1
    OBVIOUS
  <2>2. L = ClusterEntries
    BY <2>1, DirectorySizes, RootThere DEF ClusterEntries
  <2>3. l.cluster = c.cluster
    BY <1>1, <2>1
  <2>4. k \in 0 .. EntriesPerSector /\ k > 0
    BY <1>3
  <2>5. \/ (b + k) \div L = c.cluster /\ (b + k) % L = 0
        \/ (b + k) \div L = c.cluster - 1 /\ (b + k) % L # 0
    BY <1>1, <2>4, ClusterOf
  <2> HIDE DEF b, L
  <2> QED BY <1>3, <1>12, <2>2, <2>3, <2>5
<1>15. Listed(l1, given1)
  BY <1>8, <1>9, <1>13, <1>14 DEF Listed
<1>16. c1.at = "rest" /\ c1.result = e.name
  BY EndsAs DEF Give
<1> QED BY <1>6, <1>15, <1>16 DEF ListsAt

(* The directory ends.                                                     *)
LEMMA EndLists ==
  ASSUME TreeOk, DOMAIN call = CallFields, ~IsFull("/"),
         NEW l, l = listing, NEW given, given = listed, NEW c, c = call, c.at = "list",
         Listed(l, given), ListsAt(l, c),
         NEW k \in c.index .. EntriesPerSector,
         \A n \in 1 .. EntriesPerSector : c.index <= n /\ n <= k - 1 =>
           Clusters("/")[c.cluster][c.sector][n].kind \notin {"end"} \cup Listable,
         Clusters("/")[c.cluster][c.sector][k].kind = "end",
         listing' = [listing EXCEPT !.offset = @ + k - c.index], listed' = listed,
         Ends(TRUE, "none"),
         NEW l1, l1 = listing', NEW given1, given1 = listed', NEW c1, c1 = call'
  PROVE  Listed(l1, given1) /\ ListsAt(l1, c1)
<1> DEFINE b == Before("/", c.cluster, c.sector)
           all == All("/")
           L == Length("/")
<1>1. /\ c.cluster \in DOMAIN Clusters("/") /\ c.sector \in 1 .. SectorCount("/")
      /\ c.index \in 1 .. EntriesPerSector /\ (root16 \/ c.cluster = l.cluster)
      /\ l.offset = b + c.index - 1
  BY DEF ListsAt
<1>2. /\ l \in [offset : Nat, cluster : Nat] /\ InUse(all, l.offset)
      /\ given = Given(all, l.offset)
  BY DEF Listed
<1>3. /\ b \in Nat /\ EntriesPerSector \in Nat \ {0} /\ L \in Nat \ {0}
      /\ c.cluster \in Nat /\ k \in 1 .. EntriesPerSector /\ c.index \in Nat /\ l.offset \in Nat
  <2>1. b \in Nat
    BY <1>1, BeforeFacts, RootThere
  <2>2. EntriesPerSector \in Nat \ {0} /\ L \in Nat \ {0} /\ c.cluster \in Nat
    BY <1>1, RootThere, DirectorySizes
  <2>3. l.offset \in Nat
    BY <1>2
  <2> HIDE DEF b, L
  <2> QED BY <1>1, <2>1, <2>2, <2>3
<1>4. /\ b + (k - 1) \in Nat /\ InUse(all, b + (k - 1)) /\ b + (k - 1) <= Len(all)
      /\ Given(all, b + (k - 1)) = given
  <2>1. k - 1 \in 0 .. EntriesPerSector /\ c.index <= (k - 1) + 1
    BY <1>3
  <2>2. InUse(all, b + c.index - 1) /\ given = Given(all, b + c.index - 1)
    BY <1>1, <1>2
  <2>3. /\ c.cluster \in DOMAIN Clusters("/") /\ c.sector \in 1 .. SectorCount("/")
        /\ c.index \in 1 .. EntriesPerSector
    BY <1>1
  <2> DEFINE m == k - 1
  <2>4. m \in 0 .. EntriesPerSector /\ c.index <= m + 1
    BY <2>1
  <2>5. \A n \in 1 .. EntriesPerSector : c.index <= n /\ n <= m =>
          Clusters("/")[c.cluster][c.sector][n].kind \notin {"end"} \cup Listable
    OBVIOUS
  <2> HIDE DEF m
  <2>6. /\ b + m \in Nat /\ b + m <= Len(all) /\ InUse(all, b + m)
        /\ Given(all, b + m) = Given(all, b + c.index - 1)
    BY ONLY TreeOk, <2>2, <2>3, <2>4, <2>5, EntriesPassed DEF b, all
  <2> QED BY <2>2, <2>6 DEF m
<1>5. b + k \in DOMAIN all /\ all[b + k].kind = "end"
  BY <1>1, <1>3, BeforeFacts, EntryAtPosition, RootThere
<1>6. l.offset + k - c.index = b + (k - 1) /\ (b + (k - 1)) + 1 = b + k
  BY <1>1, <1>3
<1>7. l1 \in [offset : Nat, cluster : Nat] /\ l1.offset = b + (k - 1) /\ l1.cluster = l.cluster
  BY <1>2, <1>4, <1>6
<1>8. root16 \/ l1.cluster = (b + (k - 1)) \div L + 1
  <2>1. SUFFICES ASSUME ~root16 PROVE l1.cluster = (b + (k - 1)) \div L + 1
    OBVIOUS
  <2>2. k - 1 \in 0 .. EntriesPerSector /\ k - 1 # EntriesPerSector
    BY <1>3
  <2>3. (b + (k - 1)) \div L = c.cluster - 1
    BY <1>1, <2>2, ClusterOf
  <2> HIDE DEF b, L
  <2> QED BY <1>1, <1>3, <1>7, <2>1, <2>3
<1>9. Listed(l1, given1)
  BY <1>4, <1>7, <1>8 DEF Listed
<1>10. c1.at = "rest"
  BY EndsAs
<1>11. l1.offset < Len(all) /\ all[l1.offset + 1].kind = "end"
  <2>1. b + k <= Len(all) /\ Len(all) \in Nat
    BY <1>5, AllLength, RootThere
  <2> HIDE DEF b, all
  <2>2. l1.offset + 1 = b + k
    BY <1>6, <1>7
  <2>3. l1.offset \in Nat /\ b + k \in Nat
    BY <1>3, <1>4, <1>7
  <2>4. l1.offset < Len(all)
    BY ONLY <2>1, <2>2, <2>3
  <2> QED BY <1>5, <2>2, <2>4
<1> QED BY <1>9, <1>10, <1>11 DEF ListsAt

(* The rest of a sector has nothing, and it is the last of its cluster or  *)
(* the listing is lost.                                                    *)
LEMMA PassLists ==
  ASSUME TreeOk, DOMAIN call = CallFields, ~IsFull("/"),
         NEW l, l = listing, NEW given, given = listed, NEW c, c = call, c.at = "list",
         Listed(l, given), ListsAt(l, c),
         \A n \in 1 .. EntriesPerSector : c.index <= n =>
           Clusters("/")[c.cluster][c.sector][n].kind \notin {"end"} \cup Listable,
         Pass(EntriesPerSector + 1 - c.index), ~lost',
         NEW l1, l1 = listing', NEW given1, given1 = listed', NEW c1, c1 = call'
  PROVE  Listed(l1, given1) /\ ListsAt(l1, c1)
<1> DEFINE b == Before("/", c.cluster, c.sector)
           all == All("/")
           L == Length("/")
           E == EntriesPerSector
<1>1. /\ c.cluster \in DOMAIN Clusters("/") /\ c.sector \in 1 .. SectorCount("/")
      /\ c.index \in 1 .. E /\ (root16 \/ c.cluster = l.cluster)
      /\ l.offset = b + c.index - 1 /\ c.count = c.sector - 1 /\ c.in = "/"
  BY DEF ListsAt
<1>2. /\ l \in [offset : Nat, cluster : Nat] /\ InUse(all, l.offset)
      /\ given = Given(all, l.offset)
  BY DEF Listed
<1>3. /\ b \in Nat /\ E \in Nat \ {0} /\ L \in Nat \ {0} /\ SectorCount("/") \in Nat
      /\ c.cluster \in Nat \ {0} /\ c.index \in Nat /\ l.offset \in Nat
      /\ DOMAIN Clusters("/") = 1 .. Len(Clusters("/")) /\ Len(Clusters("/")) \in Nat
  <2>1. b \in Nat
    BY <1>1, BeforeFacts, RootThere
  <2>2. /\ EntriesPerSector \in Nat \ {0} /\ L \in Nat \ {0} /\ SectorCount("/") \in Nat
        /\ DOMAIN Clusters("/") = 1 .. Len(Clusters("/")) /\ Len(Clusters("/")) \in Nat
    BY RootThere, DirectorySizes
  <2>3. l.offset \in Nat
    BY <1>2
  <2> HIDE DEF b, L
  <2> QED BY <1>1, <2>1, <2>2, <2>3
<1>4. b + E \in Nat /\ InUse(all, b + E) /\ b + E <= Len(all) /\ Given(all, b + E) = given
  <2>1. E \in 0 .. E /\ c.index <= E + 1
    BY <1>1, <1>3
  <2>2. InUse(all, b + c.index - 1) /\ given = Given(all, b + c.index - 1)
    BY <1>1, <1>2
  <2>3. /\ c.cluster \in DOMAIN Clusters("/") /\ c.sector \in 1 .. SectorCount("/")
        /\ c.index \in 1 .. EntriesPerSector
    BY <1>1
  <2> DEFINE m == EntriesPerSector
  <2>4. m \in 0 .. EntriesPerSector /\ c.index <= m + 1
    BY <2>1
  <2>5. \A n \in 1 .. EntriesPerSector : c.index <= n /\ n <= m =>
          Clusters("/")[c.cluster][c.sector][n].kind \notin {"end"} \cup Listable
    OBVIOUS
  <2> HIDE DEF m
  <2>6. /\ b + m \in Nat /\ b + m <= Len(all) /\ InUse(all, b + m)
        /\ Given(all, b + m) = Given(all, b + c.index - 1)
    BY ONLY TreeOk, <2>2, <2>3, <2>4, <2>5, EntriesPassed DEF b, all
  <2> QED BY <2>2, <2>6 DEF m
<1>5. b + E < Len(all)
  <2>1. b + E \in 0 .. Len(all)
    BY <1>4, AllLength, RootThere
  <2> QED BY <1>4, <2>1, MoreThere
<1>6. l.offset + (E + 1 - c.index) = b + E
  BY <1>1, <1>3
<1>7. ~(c.count + 1 < SectorCount("/"))
  BY DEF Pass
<1>8. c.sector = SectorCount("/")
  BY <1>1, <1>3, <1>7
<1>9. b + E = c.cluster * L /\ Before("/", c.cluster + 1, 1) = b + E
  BY <1>1, <1>8, BeforeFacts, RootThere
<1>10. c.cluster < Len(Clusters("/"))
  <2>1. Len(all) = Len(Clusters("/")) * L
    BY AllLength, RootThere
  <2>2. c.cluster \in 1 .. Len(Clusters("/"))
    BY <1>1, <1>3
  <2>3. c.cluster # Len(Clusters("/"))
    BY <1>5, <1>9, <2>1
  <2> QED BY <1>3, <2>2, <2>3
<1>11. ~root16
  <2>1. ASSUME root16 PROVE Len(Clusters("/")) = 1
    BY <2>1, DirectorySizes, RootThere DEF IsRoot16
  <2>2. Len(Clusters("/")) # 1
    <3> DEFINE n == Len(Clusters("/"))
               x == c.cluster
    <3>1. x \in Nat \ {0} /\ n \in Nat /\ x < n
      BY <1>3, <1>10
    <3> HIDE DEF n, x
    <3>2. n # 1
      BY ONLY <3>1
    <3> QED BY <3>2 DEF n
  <2> QED BY <2>1, <2>2
<1>12. c.cluster = l.cluster
  BY <1>1, <1>11
<1>13. PICK next \in NextClusters(l.cluster) :
          /\ l1 = [offset |-> b + E, cluster |-> next]
          /\ lost' = (lost \/ next = l.cluster)
          /\ IF next \in DOMAIN Clusters("/") /\ next # l.cluster
             THEN call' = [call EXCEPT !.index = 1, !.count = 0, !.cluster = next, !.sector = 1]
             ELSE Ends(next # l.cluster, "none")
  BY <1>6, <1>7, <1>11 DEF Pass
<1>14. next # l.cluster
  BY <1>13
<1>15. next = c.cluster + 1
  BY <1>12, <1>13, <1>14 DEF NextClusters
<1>16. next \in DOMAIN Clusters("/")
  BY <1>3, <1>10, <1>15
<1>17. c1 = [c EXCEPT !.index = 1, !.count = 0, !.cluster = next, !.sector = 1]
  BY <1>13, <1>14, <1>16
<1>18. /\ c1.index = 1 /\ c1.count = 0 /\ c1.cluster = next /\ c1.sector = 1
       /\ c1.at = "list" /\ c1.in = "/"
  BY <1>1, <1>17 DEF CallFields
<1>19. l1 \in [offset : Nat, cluster : Nat] /\ l1.offset = b + E /\ l1.cluster = next
  BY <1>3, <1>4, <1>13, <1>15
<1>20. (b + E) \div L = c.cluster
  <2>1. c.cluster \in Int /\ 0 \in 0 .. L - 1 /\ L * c.cluster + 0 = c.cluster * L
    BY <1>3
  <2> HIDE DEF L, b, E
  <2>2. (L * c.cluster + 0) \div L = c.cluster
    BY ONLY <1>3, <2>1, Quotient
  <2> QED BY <1>9, <2>1, <2>2
<1>21. given1 = given
  BY DEF Pass
<1>22. Listed(l1, given1)
  BY <1>4, <1>15, <1>19, <1>20, <1>21 DEF Listed
<1>23. ListsAt(l1, c1)
  <2>1. 1 \in 1 .. SectorCount("/") /\ 1 \in 1 .. E
    BY <1>1, <1>3
  <2>2. l1.offset = Before("/", next, 1) + 1 - 1
    BY <1>3, <1>9, <1>15, <1>19
  <2> QED BY <1>16, <1>18, <1>19, <2>1, <2>2 DEF ListsAt
<1> QED BY <1>22, <1>23
LEMMA ListLists ==
  ASSUME TreeOk, OpenInv, ListInv, ListSector
  PROVE  ListInv'
<1>1. call.at = "list" /\ UNCHANGED <<tree, root16>> /\ DOMAIN call = CallFields
  BY DEF ListSector, OpenInv
<1>2. PICK l : l = listing
  OBVIOUS
<1>3. PICK given : given = listed
  OBVIOUS
<1>4. PICK c : c = call
  OBVIOUS
<1>5. PICK l1 : l1 = listing'
  OBVIOUS
<1>6. PICK given1 : given1 = listed'
  OBVIOUS
<1>7. PICK c1 : c1 = call'
  OBVIOUS
<1>8. lost => lost'
  <2>1. ASSUME NEW n, Pass(n), lost PROVE lost'
    BY <2>1 DEF Pass
  <2>2. ASSUME NEW name, NEW n, Give(name, n), lost PROVE lost'
    BY <2>2 DEF Give
  <2>3. \/ \E n : Pass(n)
        \/ \E name, n : Give(name, n)
        \/ UNCHANGED lost
    BY DEF ListSector
  <2> QED BY <2>1, <2>2, <2>3
<1>9. ASSUME ~lost', ~IsFull("/") PROVE Listed(l1, given1) /\ ListsAt(l1, c1)
  <2>1. Listed(l, given) /\ ListsAt(l, c) /\ c.at = "list"
    BY <1>1, <1>2, <1>3, <1>4, <1>8, <1>9 DEF ListInv
  <2>2. /\ c.cluster \in DOMAIN Clusters("/") /\ c.sector \in 1 .. SectorCount("/")
        /\ c.index \in 1 .. EntriesPerSector /\ c.in = "/"
    BY <2>1 DEF ListsAt
  <2> DEFINE sector == Clusters("/")[c.cluster][c.sector]
             nothing == {"end"} \cup Listable
             stops == {n \in c.index .. EntriesPerSector : sector[n].kind \in nothing}
             k == Min(stops)
  <2>3. Sectors(call.cluster, call.sector) = {sector}
    <3>1. c.sector \in DOMAIN Clusters("/")[c.cluster]
      BY <2>2, DirectorySizes, RootThere
    <3> QED BY <1>4, <2>2, <3>1 DEF Sectors
  <2>4. IF stops = {} THEN Pass(EntriesPerSector + 1 - c.index)
        ELSE IF sector[k].kind # "end" THEN Give(sector[k].name, k + 1 - c.index)
        ELSE /\ listing' = [listing EXCEPT !.offset = @ + k - c.index]
             /\ Ends(TRUE, "none")
             /\ UNCHANGED <<listed, lost>>
    <3>1. PICK entries \in Sectors(call.cluster, call.sector) :
            LET T == {n \in call.index .. EntriesPerSector :
                        entries[n].kind \in {"end"} \cup Listable}
                i == Min(T)
            IN  IF T = {} THEN Pass(EntriesPerSector + 1 - call.index)
                ELSE IF entries[i].kind # "end" THEN Give(entries[i].name, i + 1 - call.index)
                ELSE /\ listing' = [listing EXCEPT !.offset = @ + i - call.index]
                     /\ Ends(TRUE, "none")
                     /\ UNCHANGED <<listed, lost>>
      BY DEF ListSector
    <3>2. entries = sector
      BY <2>3, <3>1
    <3> HIDE DEF sector
    <3>3. {n \in call.index .. EntriesPerSector : entries[n].kind \in {"end"} \cup Listable} = stops
      BY <1>4, <3>2
    <3> HIDE DEF stops
    <3> QED BY <1>4, <3>1, <3>2, <3>3
  <2>5. EntriesPerSector \in Nat \ {0}
    BY DirectorySizes, RootThere
  <2> HIDE DEF sector
  <2>6. CASE stops = {}
    <3>1. Pass(EntriesPerSector + 1 - c.index)
      BY <2>4, <2>6
    <3>2. \A n \in 1 .. EntriesPerSector : c.index <= n => sector[n].kind \notin nothing
      BY <2>2, <2>5, <2>6
    <3> HIDE DEF stops
    <3> QED BY <1>1, <1>2, <1>3, <1>4, <1>5, <1>6, <1>7, <1>9, <2>1, <3>1, <3>2, PassLists DEF sector
  <2>7. CASE stops # {}
    <3>1. /\ k \in stops /\ k \in 1 .. EntriesPerSector
          /\ \A i \in 1 .. EntriesPerSector : i < k => i \notin stops
      <4>1. stops \subseteq 1 .. EntriesPerSector /\ EntriesPerSector \in Nat
        BY <2>2, <2>5
      <4> HIDE DEF stops
      <4> QED BY <2>7, <4>1, FirstStop
    <3> HIDE DEF k
    <3>2. k \in c.index .. EntriesPerSector /\ sector[k].kind \in nothing
      BY <3>1
    <3>3. \A n \in 1 .. EntriesPerSector : c.index <= n /\ n <= k - 1 => sector[n].kind \notin nothing
      BY <2>2, <2>5, <3>1
    <3>4. CASE sector[k].kind # "end"
      <4>1. Give(sector[k].name, k + 1 - c.index)
        BY <2>4, <2>7, <3>4
      <4>2. sector[k].kind \in Listable
        BY <3>2, <3>4
      <4>3. PICK e : e = sector[k]
        OBVIOUS
      <4> HIDE DEF stops
      <4> QED BY <1>1, <1>2, <1>3, <1>4, <1>5, <1>6, <1>7, <1>9, <2>1, <3>2, <3>3, <4>1, <4>2, <4>3, GiveLists
              DEF sector
    <3>5. CASE sector[k].kind = "end"
      <4>1. /\ listing' = [listing EXCEPT !.offset = @ + k - c.index]
            /\ Ends(TRUE, "none") /\ listed' = listed
        BY <2>4, <2>7, <3>5
      <4> HIDE DEF stops
      <4> QED BY <1>1, <1>2, <1>3, <1>4, <1>5, <1>6, <1>7, <1>9, <2>1, <3>2, <3>3, <3>5, <4>1, EndLists
              DEF sector
    <3> QED BY <3>4, <3>5
  <2> QED BY <2>6, <2>7
<1> QED BY <1>1, <1>5, <1>6, <1>7, <1>9, GoesOnListing

(* A search leaves the listing alone.                                      *)
LEMMA FindAlone ==
  ASSUME TreeOk, OpenInv, ListInv, FindSector
  PROVE  ListInv'
<1>1. /\ call.at = "find" /\ DOMAIN call = CallFields /\ ~call.listing
      /\ UNCHANGED <<tree, root16, listing, listed, lost>>
  BY DEF FindSector, OpenInv
<1>2. PICK c : c = call'
  OBVIOUS
<1>3. c.at # "list" /\ ~c.listing
  <2>1. ASSUME NEW well \in BOOLEAN, NEW result, Ends(well, result) PROVE c.at # "list" /\ ~c.listing
    BY <1>1, <1>2, <2>1, EndsAs
  <2>2. ASSUME NEW entry, Found(entry) PROVE c.at # "list" /\ ~c.listing
    <3>1. \/ \E well \in BOOLEAN : \E result : Ends(well, result)
          \/ c = [Resting EXCEPT !.at = "find", !.path = Tail(call.path), !.asked = call.asked,
                    !.in = entry.name]
      BY <1>2, <2>2 DEF Found
    <3>2. CASE c = [Resting EXCEPT !.at = "find", !.path = Tail(call.path), !.asked = call.asked,
                      !.in = entry.name]
      BY <3>2 DEF Resting
    <3> QED BY <2>1, <3>1, <3>2
  <2>3. ASSUME \/ c = [call EXCEPT !.sector = @ + 1]
               \/ c = [call EXCEPT !.cluster = @ + 1, !.sector = 1]
        PROVE  c.at # "list" /\ ~c.listing
    BY <1>1, <2>3 DEF CallFields
  <2>4. \/ \E well \in BOOLEAN : \E result : Ends(well, result)
        \/ \E entry : Found(entry)
        \/ c = [call EXCEPT !.sector = @ + 1]
        \/ c = [call EXCEPT !.cluster = @ + 1, !.sector = 1]
    BY <1>2 DEF FindSector
  <2> QED BY <2>1, <2>2, <2>3, <2>4
<1> QED BY <1>1, <1>2, <1>3, ListAlone

LEMMA NextLists ==
  ASSUME TreeOk, OpenInv, ListInv, [DirNext]_dirVars
  PROVE  ListInv'
<1>1. PICK c : c = call'
  OBVIOUS
<1>2. CASE openNextFile
  BY <1>2, OpensNext
<1>3. CASE ListSector
  BY <1>3, ListLists
<1>4. CASE rewindDirectory
  <2>1. PICK l : l = listing'
    OBVIOUS
  <2>2. PICK given : given = listed'
    OBVIOUS
  <2>3. /\ l = [offset |-> 0, cluster |-> 1] /\ given = <<>> /\ c.at = "rest" /\ ~c.listing
        /\ UNCHANGED <<tree, root16>>
    BY <1>1, <1>4, <2>1, <2>2, RestingFields DEF rewindDirectory
  <2>4. Listed(l, given) /\ ListsAt(l, c)
    BY <2>3, BeginsListing
  <2> QED BY <1>1, <2>1, <2>2, <2>3, <2>4, GoesOnListing
<1>5. CASE CannotRead
  <2>1. Ends(FALSE, "none") /\ UNCHANGED <<tree, root16, listing, listed, lost>>
    BY <1>5 DEF CannotRead
  <2>2. c.at = "rest" /\ ~c.well
    BY <1>1, <2>1, EndsAs DEF OpenInv
  <2> QED BY <1>1, <2>1, <2>2, ListAlone
<1>6. CASE FindSector
  BY <1>6, FindAlone
<1>7. ASSUME NEW path \in Paths, open(path) PROVE ListInv'
  <2>1. UNCHANGED <<tree, root16, listing, listed, lost>>
    BY <1>7 DEF open
  <2>2. c.at # "list" /\ ~c.listing
    <3>1. \/ c = [Resting EXCEPT !.result = "/"]
          \/ c = [Resting EXCEPT !.at = "find", !.path = path, !.asked = path]
      BY <1>1, <1>7 DEF open
    <3> QED BY <3>1 DEF Resting
  <2> QED BY <1>1, <2>1, <2>2, ListAlone
<1>8. CASE UNCHANGED dirVars
  <2>1. UNCHANGED <<tree, root16>> /\ listing' = listing /\ listed' = listed /\ lost' = lost /\ call' = call
    BY <1>8 DEF dirVars
  <2>2. PICK l : l = listing
    OBVIOUS
  <2>3. PICK given : given = listed
    OBVIOUS
  <2>4. ~lost' /\ ~IsFull("/") => Listed(l, given) /\ ListsAt(l, c)
    BY <1>1, <2>1, <2>2, <2>3 DEF ListInv
  <2> QED BY <1>1, <2>1, <2>2, <2>3, <2>4, GoesOnListing
<1> QED BY <1>2, <1>3, <1>4, <1>5, <1>6, <1>7, <1>8 DEF DirNext

LEMMA InitLists ==
  ASSUME DirInit, TreeOk PROVE ListInv
<1>1. PICK l : l = listing
  OBVIOUS
<1>2. PICK given : given = listed
  OBVIOUS
<1>3. PICK c : c = call
  OBVIOUS
<1>4. Listed(l, given) /\ ListsAt(l, c)
  BY <1>1, <1>2, <1>3, RestingFields, BeginsListing DEF DirInit
<1> QED BY <1>1, <1>2, <1>3, <1>4 DEF ListInv

LEMMA AlwaysLists == DirSpec => [](TreeOk /\ OpenInv /\ ListInv)
<1>1. DirInit => TreeOk /\ OpenInv /\ ListInv
  BY InitOpens, InitLists DEF DirInit, TreeOk
<1>2. TreeOk /\ OpenInv /\ ListInv /\ [DirNext]_dirVars => TreeOk' /\ OpenInv' /\ ListInv'
  BY NextOpens, NextLists
<1> QED BY <1>1, <1>2, PTL DEF DirSpec
-----------------------------------------------------------------------------
(* The last number up to which the entries are in use.                     *)
LEMMA LastInUse ==
  ASSUME NEW n \in Nat, NEW T, T \subseteq 0 .. n, T # {}
  PROVE  Max(T) \in T /\ \A x \in T : x <= Max(T)
<1> DEFINE U == {y \in 0 .. n : n - y \in T}
<1>1. U # {} /\ U \subseteq Nat
  <2>1. PICK x \in T : TRUE
    OBVIOUS
  <2>2. PICK w \in 0 .. n : n - w = x
    <3>1. x \in 0 .. n
      BY <2>1
    <3>2. n - x \in 0 .. n /\ n - (n - x) = x
      BY <3>1
    <3> QED BY <3>2
  <2>3. w \in U
    BY <2>1, <2>2
  <2> QED BY <2>3
<1>2. PICK y \in U : \A z \in U : y <= z
  <2> HIDE DEF U
  <2> QED BY <1>1, NatMin
<1>3. n - y \in T
  BY <1>2
<1>4. ASSUME NEW x \in T PROVE n - y >= x
  <2>1. x \in 0 .. n /\ n - (n - x) = x
    OBVIOUS
  <2>2. n - x \in U
    BY <2>1
  <2>3. y <= n - x /\ y \in 0 .. n
    BY <1>2, <2>2
  <2> QED BY <2>1, <2>3
<1>5. Max(T) \in T /\ \A x \in T : Max(T) >= x
  BY <1>3, <1>4 DEF Max
<1>6. Max(T) \in 0 .. n /\ \A x \in T : x \in 0 .. n
  BY <1>5
<1> QED BY <1>5, <1>6

(* What a listing has given is the beginning of what the directory has,    *)
(* and all of it once openNextFile has found nothing more.                 *)
LEMMA ListedFiles ==
  ASSUME TreeOk, ~IsFull("/"), NEW l, NEW given, NEW c, Listed(l, given), ListsAt(l, c)
  PROVE  /\ IsPrefix(given, Files("/"))
         /\ c.at = "rest" /\ c.listing /\ c.well /\ c.result = "none" => given = Files("/")
<1> DEFINE all == All("/")
           T == {k \in 0 .. Len(all) : InUse(all, k)}
           m == Max(T)
<1>1. all \in Seq(DirEntry) /\ Len(all) \in Nat /\ DOMAIN all = 1 .. Len(all)
  BY AllLength, RootThere
<1>2. l.offset \in 0 .. Len(all) /\ InUse(all, l.offset) /\ given = Given(all, l.offset)
  BY <1>1 DEF Listed
<1>3. l.offset \in T
  BY <1>2
<1>4. m \in T /\ \A x \in T : x <= m
  <2>1. T \subseteq 0 .. Len(all) /\ T # {}
    BY <1>3
  <2> HIDE DEF T
  <2> QED BY <1>1, <2>1, LastInUse
<1>5. Files("/") = Given(all, m)
  BY DEF Files
<1> HIDE DEF all, m
<1>6. m \in 0 .. Len(all) /\ InUse(all, m) /\ l.offset <= m
  BY <1>3, <1>4
<1>7. \A k \in 1 .. Len(all) : all[k].name \in STRING
  <2>1. \A k \in 1 .. Len(all) : all[k] \in DirEntry
    BY <1>1
  <2> QED BY <2>1 DEF DirEntry
<1>8. IsPrefix(given, Files("/"))
  BY <1>1, <1>2, <1>5, <1>6, <1>7, GivenIsPrefix
<1>9. ASSUME c.at = "rest", c.listing, c.well, c.result = "none" PROVE given = Files("/")
  <2>1. l.offset < Len(all) /\ all[l.offset + 1].kind = "end"
    BY <1>9 DEF ListsAt, all
  <2>2. ~(l.offset + 1 \in 1 .. m)
    BY <1>6, <2>1 DEF InUse
  <2>3. l.offset = m
    BY <1>2, <1>6, <2>2
  <2> QED BY <1>2, <1>5, <2>3
<1> QED BY <1>8, <1>9

(* A listing gives what the root directory has, each once and in order,    *)
(* and ends only after the last, in a directory of any number of clusters  *)
(* that is not full, until openNextFile has gone past entries that it does *)
(* not give into another sector of their cluster.                          *)
THEOREM ListingIsTheDirectory == DirSpec => []ListsEachOnce
<1>1. TreeOk /\ ListInv => ListsEachOnce
  <2> SUFFICES ASSUME TreeOk, ListInv, ~lost, ~IsFull("/")
               PROVE  /\ IsPrefix(listed, Files("/"))
                      /\ call.at = "rest" /\ call.listing /\ call.well /\ call.result = "none" =>
                           listed = Files("/")
    BY DEF ListsEachOnce
  <2>1. PICK l, given, c : /\ l = listing /\ given = listed /\ c = call
                           /\ Listed(l, given) /\ ListsAt(l, c)
    BY DEF ListInv
  <2> QED BY <2>1, ListedFiles
<1> QED BY <1>1, AlwaysLists, PTL
=============================================================================
