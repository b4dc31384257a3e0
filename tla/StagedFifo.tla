----------------------------- MODULE StagedFifo -----------------------------
(***************************************************************************)
(* What a BipBuffer promises: a first-in first-out stream of bytes that is *)
(* written in two phases.  A reservation stages some bytes, which their    *)
(* writer fills in; committing moves the first of them to the end of the   *)
(* stream and decommitting takes bytes off its front.  How many bytes a    *)
(* reservation stages and one decommit takes is up to the implementation.  *)
(***************************************************************************)
EXTENDS Integers, Sequences

CONSTANTS Byte, MaxSize   \* sizes a caller may ask for are in 0..MaxSize

VARIABLES stream,   \* the committed bytes, oldest first
          staged    \* the bytes of the current reservation

vars == <<stream, staged>>

Init == stream = <<>> /\ staged = <<>>

DropFirst(s, n) == SubSeq(s, n + 1, Len(s))

(* A reservation of at most size bytes replaces the one before, and its    *)
(* bytes are whatever the memory holds.  It may also be refused.           *)
Reserve(size) ==
  \E n \in 0 .. size :
    /\ staged' \in [1 .. n -> Byte]
    /\ UNCHANGED stream

(* A writer changes staged bytes only.                                     *)
Write ==
  /\ staged' \in [1 .. Len(staged) -> Byte]
  /\ UNCHANGED stream

CommitPartial(size) ==
  LET n == IF size < Len(staged) THEN size ELSE Len(staged)
  IN  /\ stream' = stream \o SubSeq(staged, 1, n)
      /\ staged' = DropFirst(staged, n)

Commit(size) ==
  LET n == IF size < Len(staged) THEN size ELSE Len(staged)
  IN  /\ stream' = stream \o SubSeq(staged, 1, n)
      /\ staged' = <<>>

(* A decommit takes at most size bytes off the front, and at least one if  *)
(* it asks for any and there are any.                                      *)
Decommit(size) ==
  /\ \E n \in 0 .. size :
       /\ n <= Len(stream)
       /\ size > 0 /\ stream # <<>> => n > 0
       /\ stream' = DropFirst(stream, n)
  /\ UNCHANGED staged

Clear == stream' = <<>> /\ staged' = <<>>

Next ==
  \/ \E size \in 0 .. MaxSize :
       Reserve(size) \/ CommitPartial(size) \/ Commit(size) \/ Decommit(size)
  \/ Write
  \/ Clear

Spec == Init /\ [][Next]_vars
=============================================================================
