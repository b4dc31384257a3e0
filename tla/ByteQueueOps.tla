---------------------------- MODULE ByteQueueOps ----------------------------
(***************************************************************************)
(* The functions of byte_queue.c on a ByteQueue struct.  The struct is a   *)
(* record whose data array is a function on 0..DataSize-1; the pointers    *)
(* start and end are indices into it.  Functions that change the struct    *)
(* return the changed record, the others return their value.               *)
(*                                                                         *)
(* An operator whose name ends in _Mutated is a plausible bug in the       *)
(* operator that follows it; the model never uses it.                      *)
(***************************************************************************)
EXTENDS Integers

CONSTANTS DataSize,  \* cells of the array InitBQ is given
          Item       \* the bytes that are queued

ASSUME DataSizeAssumption == DataSize \in Nat \ {0}
ASSUME ItemAssumption == Item \subseteq Nat

Index == 0 .. DataSize - 1
LastIndex == DataSize - 1

ByteQueue == [data : [Index -> Item], start : Index, end : Index, count : Nat]

(* The array is not cleared: data is whatever the memory held. *)
InitBQ(data) == [data |-> data, start |-> 0, end |-> 0, count |-> 0]

IsFullBQ_Mutated(q) == q.end = q.start - 1

IsFullBQ(q) == IF q.end = LastIndex THEN q.start = 0 ELSE q.end = q.start - 1

IsEmptyBQ(q) == q.start = q.end

CountBQ(q) == q.count

Advance_Mutated(i) == i + 1

(* An index moves to the next cell and wraps after the last one. *)
Advance(i) == IF i # LastIndex THEN i + 1 ELSE 0

PeekByteBQ_Mutated(q) ==
  IF IsEmptyBQ(q) THEN 0 ELSE q.data[IF q.end = 0 THEN LastIndex ELSE q.end - 1]

PeekByteBQ(q) == IF IsEmptyBQ(q) THEN 0 ELSE q.data[q.start]

(* The struct GetByteBQ leaves behind; the byte it returns is PeekByteBQ.  *)
GetByteBQ(q) ==
  IF IsEmptyBQ(q)
  THEN q
  ELSE [q EXCEPT !.start = Advance(@), !.count = @ - 1]

(* PutByteBQ refuses when storing would make end meet start. *)
PutRefused(q) ==
  \/ q.end = LastIndex /\ q.start = 0
  \/ q.end # LastIndex /\ q.end = q.start - 1

PutByteBQ(q, item) ==
  IF PutRefused(q)
  THEN q
  ELSE [q EXCEPT !.data[q.end] = item, !.end = Advance(@), !.count = @ + 1]
=============================================================================
