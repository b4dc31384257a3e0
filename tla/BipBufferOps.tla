---------------------------- MODULE BipBufferOps ----------------------------
(***************************************************************************)
(* The methods of class BipBuffer (bipbuffer.h): a circular buffer whose   *)
(* data and whose free space are always handed out as contiguous blocks.   *)
(* Region A holds the oldest bytes; when the space before A is the larger, *)
(* new bytes go to region B at the start of the array, and B becomes A     *)
(* once A is drained.  The object is a record of its seven fields but for  *)
(* buflen, which is the constant BufLen; the array is left to the modules  *)
(* that use these operators.                                               *)
(*                                                                         *)
(* An operator whose name ends in _Mutated is a plausible bug in the       *)
(* operator that follows it; the model never uses it.                      *)
(***************************************************************************)
EXTENDS Integers

CONSTANT BufLen   \* bytes in the array the constructor is given
ASSUME BufLenAssumption == BufLen \in Nat \ {0}

Offset == 0 .. BufLen

BipBuffer == [ixa : Offset, sza : Offset, ixb : Offset, szb : Offset,
              ixResrv : Offset, szResrv : Offset]

(* Both the constructor and Clear leave every region empty.                *)
Cleared == [ixa |-> 0, sza |-> 0, ixb |-> 0, szb |-> 0,
            ixResrv |-> 0, szResrv |-> 0]

Clear(b) == Cleared

GetSpaceAfterA(b) == BufLen - b.ixa - b.sza

GetBFreeSpace(b) == b.ixa - b.ixb - b.szb

Lesser(m, n) == IF m < n THEN m ELSE n

(* The block Reserve hands out, which is none when it returns NULL.  With  *)
(* B in use the space between B and A is all there is, otherwise it is the *)
(* larger of the spaces after and before A.                                *)
NoBlock == [granted |-> FALSE, ix |-> 0, sz |-> 0]
Block(ix, sz) == [granted |-> TRUE, ix |-> ix, sz |-> sz]

ReserveBlock_Mutated(b, size) ==
  IF GetSpaceAfterA(b) >= b.ixa
  THEN Block(b.ixa + b.sza, Lesser(size, GetSpaceAfterA(b)))
  ELSE Block(0, Lesser(size, b.ixa))

ReserveBlock(b, size) ==
  IF b.szb # 0
  THEN LET free == Lesser(size, GetBFreeSpace(b))
       IN  IF free = 0 THEN NoBlock ELSE Block(b.ixb + b.szb, free)
  ELSE IF GetSpaceAfterA(b) >= b.ixa
  THEN IF GetSpaceAfterA(b) = 0
       THEN NoBlock
       ELSE Block(b.ixa + b.sza, Lesser(size, GetSpaceAfterA(b)))
  ELSE IF b.ixa = 0 THEN NoBlock ELSE Block(0, Lesser(size, b.ixa))

(* A granted block replaces whatever was reserved before.                  *)
Reserve(b, size) ==
  LET block == ReserveBlock(b, size)
  IN  IF block.granted
      THEN [b EXCEPT !.ixResrv = block.ix, !.szResrv = block.sz]
      ELSE b

(* The first bytes of the reservation become data: they are the end of A   *)
(* when they adjoin it, and the end of B otherwise.                        *)
CommitPartial(b, size) ==
  LET n   == Lesser(size, b.szResrv)
      ixa == IF b.sza = 0 /\ b.szb = 0 THEN b.ixResrv ELSE b.ixa
      inA == b.ixResrv = ixa + b.sza
  IN  [b EXCEPT !.ixa     = ixa,
                !.sza     = IF inA THEN @ + n ELSE @,
                !.szb     = IF inA THEN @ ELSE @ + n,
                !.ixResrv = @ + n,
                !.szResrv = @ - n]

(* Commit also gives back what is left of the reservation.                 *)
Commit(b, size) ==
  [(IF size = 0 THEN b ELSE CommitPartial(b, size))
     EXCEPT !.ixResrv = 0, !.szResrv = 0]

DecommitBlock_Mutated(b, size) ==
  IF size >= b.sza
  THEN [b EXCEPT !.ixa = b.ixb, !.sza = b.szb, !.ixb = 0, !.szb = 0]
  ELSE [b EXCEPT !.sza = @ - size]

(* Removes bytes from A.  B takes A's place when A is used up; what size   *)
(* asks for beyond A is not removed from B.                                *)
DecommitBlock(b, size) ==
  IF size >= b.sza
  THEN [b EXCEPT !.ixa = b.ixb, !.sza = b.szb, !.ixb = 0, !.szb = 0]
  ELSE [b EXCEPT !.ixa = @ + size, !.sza = @ - size]

GetContiguousBlock(b) == IF b.sza = 0 THEN NoBlock ELSE Block(b.ixa, b.sza)

GetCommittedSize(b) == b.sza + b.szb
=============================================================================
