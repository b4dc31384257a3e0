----------------------------- MODULE BipBuffer -----------------------------
(***************************************************************************)
(* One BipBuffer and its array, under every sequence of calls a producer   *)
(* and a consumer can make: the producer may reserve again before it has   *)
(* committed, write any byte of the block it holds, commit in parts, more  *)
(* than it reserved, or nothing; the consumer may decommit in between.     *)
(***************************************************************************)
EXTENDS BipBufferOps, Sequences

CONSTANTS Byte,     \* the bytes that are stored
          MaxSize   \* the largest size a call passes
ASSUME MaxSizeAssumption == MaxSize \in Nat

VARIABLES bip,      \* the object
          mem       \* the array pBuffer points to

vars == <<bip, mem>>

Cell == 0 .. BufLen - 1

Init ==
  /\ bip = Cleared
  /\ mem \in [Cell -> Byte]

ReserveCall(size) == bip' = Reserve(bip, size) /\ UNCHANGED mem

(* The producer stores a byte through the pointer Reserve returned. *)
WriteReserved(i, byte) ==
  /\ i < bip.szResrv
  /\ mem' = [mem EXCEPT ![bip.ixResrv + i] = byte]
  /\ UNCHANGED bip

CommitCall(size) == bip' = Commit(bip, size) /\ UNCHANGED mem

CommitPartialCall(size) == bip' = CommitPartial(bip, size) /\ UNCHANGED mem

DecommitCall(size) == bip' = DecommitBlock(bip, size) /\ UNCHANGED mem

ClearCall == bip' = Clear(bip) /\ UNCHANGED mem

Next ==
  \/ \E size \in 0 .. MaxSize :
       \/ ReserveCall(size)
       \/ CommitCall(size)
       \/ CommitPartialCall(size)
       \/ DecommitCall(size)
  \/ \E i \in Cell, byte \in Byte : WriteReserved(i, byte)
  \/ ClearCall

Spec == Init /\ [][Next]_vars
-----------------------------------------------------------------------------
(* Every index and size stays inside the array. *)
TypeOK == bip \in BipBuffer /\ mem \in [Cell -> Byte]

(* B lies before A, and A ends inside the array.  B holds data only while  *)
(* A does, so the oldest bytes are always found in A.                      *)
RegionsOrdered ==
  /\ bip.ixb = 0
  /\ bip.ixa + bip.sza <= BufLen
  /\ bip.szb > 0 => bip.szb <= bip.ixa /\ bip.sza > 0

(* A reservation that can still be committed lies inside the array, apart  *)
(* from the committed bytes, and adjoins the region it will be added to;   *)
(* so writing it destroys nothing, whatever was decommitted in between.    *)
ReservationApart ==
  LET r == bip.ixResrv  IN
  bip.szResrv > 0 =>
    \/ /\ bip.szb = 0
       /\ r = bip.ixa + bip.sza \/ bip.sza = 0
       /\ r + bip.szResrv <= BufLen
    \/ /\ bip.sza > 0
       /\ r = bip.szb
       /\ r + bip.szResrv <= bip.ixa

(* The bytes of a block of the array. *)
Bytes(ix, sz) == [k \in 1 .. sz |-> mem[ix + k - 1]]

Committed == Bytes(bip.ixa, bip.sza) \o Bytes(bip.ixb, bip.szb)

Stream == INSTANCE StagedFifo
          WITH stream <- Committed, staged <- Bytes(bip.ixResrv, bip.szResrv)

(* The bytes read are the bytes committed, in order, none lost, repeated   *)
(* or overwritten, whatever order the calls come in.                       *)
ImplementsStagedFifo == Stream!Spec
=============================================================================
