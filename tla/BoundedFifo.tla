---------------------------- MODULE BoundedFifo ----------------------------
(***************************************************************************)
(* What a byte queue promises its callers: a first-in first-out queue that *)
(* holds at most Capacity items, refuses a Put exactly when it is full and *)
(* answers a Get on an empty queue with the filler value 0.                *)
(***************************************************************************)
EXTENDS Integers, Sequences

CONSTANTS Item,      \* the values that can be queued
          Capacity   \* how many of them fit

VARIABLES fifo,      \* the queued items, oldest first
          ret        \* what the last call returned

vars == <<fifo, ret>>

Init == fifo = <<>> /\ ret = 1

(* A full queue refuses the item and says so. *)
Put(item) ==
  \/ /\ Len(fifo) < Capacity
     /\ fifo' = Append(fifo, item)
     /\ ret' = 1
  \/ /\ Len(fifo) = Capacity
     /\ UNCHANGED fifo
     /\ ret' = 0

Get ==
  \/ /\ fifo # <<>>
     /\ ret' = Head(fifo)
     /\ fifo' = Tail(fifo)
  \/ /\ fifo = <<>>
     /\ ret' = 0
     /\ UNCHANGED fifo

Next == Get \/ \E item \in Item : Put(item)

Spec == Init /\ [][Next]_vars
=============================================================================
