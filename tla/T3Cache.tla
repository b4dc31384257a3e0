------------------------------ MODULE T3Cache -------------------------------
(***************************************************************************)
(* cache_t3.cpp: the sectors that the second SD library keeps.  The cache  *)
(* is the list of its entries, the one used last first; an SDCache object  *)
(* holds one of them by its number, or none.                               *)
(***************************************************************************)
EXTENDS Integers, SequencesExt

None == 0
NoSector == -1          \* the lba 0xFFFFFFFF of an entry never used

(* init, with SD_CACHE_SIZE entries. *)
EmptyCache(size) ==
  [k \in 1 .. size |-> [entry |-> k, lba |-> NoSector, users |-> 0, data |-> FALSE]]

(* The list with one place changed, and moved to the front. *)
ToFront(cache, k, changed) == <<changed>> \o RemoveAt(cache, k)

Placed(cache, lba) == {k \in DOMAIN cache : cache[k].lba = lba}

Unused_Mutated(cache) == DOMAIN cache

Unused(cache) == {k \in DOMAIN cache : cache[k].users = 0}

(* release, for an object that holds an entry or none. *)
Release(cache, item) ==
  [k \in DOMAIN cache |->
     IF cache[k].entry = item THEN [cache[k] EXCEPT !.users = @ - 1] ELSE cache[k]]

(* get, for an object that holds none: the entry of the sector, or the one *)
(* that nobody uses and was used longest ago, or nothing.                  *)
Get(cache, lba, allocate) ==
  IF Placed(cache, lba) # {}
  THEN LET k == Min(Placed(cache, lba))
       IN  [cache |-> ToFront(cache, k, [cache[k] EXCEPT !.users = @ + 1]), item |-> cache[k].entry]
  ELSE IF allocate /\ Unused(cache) # {}
  THEN LET k == Max(Unused(cache))
       IN  [cache |-> ToFront(cache, k, [cache[k] EXCEPT !.users = 1, !.lba = lba, !.data = FALSE]),
            item |-> cache[k].entry]
  ELSE [cache |-> cache, item |-> None]

Entry(cache, item) == cache[CHOOSE k \in DOMAIN cache : cache[k].entry = item]

(* The front entry has its sector read, if it has no data yet. *)
Filled(cache) == [cache EXCEPT ![1].data = TRUE]
=============================================================================
