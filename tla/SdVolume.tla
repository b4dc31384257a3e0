------------------------------ MODULE SdVolume ------------------------------
(***************************************************************************)
(* SdVolume: a FAT volume seen through its one-block cache.  An operator   *)
(* takes the volume v and returns it as the call leaves it:                *)
(*   disk    what the card holds, by block                                 *)
(*   writes  the disks that the writes of this call led through, in order  *)
(*   blk, buf, dirty, mirror   cacheBlockNumber_, cacheBuffer_,            *)
(*                             cacheDirty_, cacheMirrorBlock_              *)
(*   start   allocSearchStart_                                             *)
(*   ok      whether every call so far returned true; after a false one    *)
(*           nothing more is done                                          *)
(***************************************************************************)
EXTENDS Integers, Sequences, SequencesExt

CONSTANTS ClusterCount,     \* clusterCount_
          BlocksPerCluster, \* blocksPerCluster_
          BlockSize,        \* 512
          FatPerBlock,      \* FAT entries in a block, 256
          Names             \* the 8.3 names used on the card

ASSUME VolumeAssumption ==
  /\ ClusterCount \in Nat \ {0} /\ BlocksPerCluster \in Nat \ {0}
  /\ BlockSize \in Nat \ {0} /\ FatPerBlock \in Nat \ {0}

Free == 0
EOC == -1
Junk == <<>>                \* a byte that no file wrote
ClusterSize == BlocksPerCluster * BlockSize
Cluster == 2 .. ClusterCount + 1

FatBlock(c) == <<"fat", c \div FatPerBlock>>
MirrorBlock(block) == <<"mirror", block[2]>>
DirBlock == <<"dir", 0>>
BootBlock == <<"boot", 0>>
DataBlock(c, blockOfCluster) == <<"data", (c - 2) * BlocksPerCluster + blockOfCluster>>
NoBlock == <<"none", 0>>    \* 0XFFFFFFFF

FatBlocks == {FatBlock(c) : c \in Cluster}
Blocks == FatBlocks \cup {MirrorBlock(b) : b \in FatBlocks} \cup {DirBlock, BootBlock}
            \cup {DataBlock(c, i) : c \in Cluster, i \in 0 .. BlocksPerCluster - 1}

Deleted == [used |-> FALSE, first |-> Free, size |-> 0]
Formatted == [b \in Blocks |->
  CASE b[1] \in {"fat", "mirror"} -> [c \in Cluster |-> Free]
    [] b[1] = "dir" -> [n \in Names |-> Deleted]
    [] OTHER -> [i \in 0 .. BlockSize - 1 |-> Junk]]

(* The volume after SD.begin on a card that holds disk: the boot block is  *)
(* the last one read.                                                      *)
Mounted(disk) == [disk |-> disk, writes |-> <<>>, blk |-> BootBlock, buf |-> disk[BootBlock],
                  dirty |-> FALSE, mirror |-> NoBlock, start |-> 2, ok |-> TRUE]

Failed(v) == [v EXCEPT !.ok = FALSE]
-----------------------------------------------------------------------------
(* The card itself, which has only its Blocks: not NoBlock, and not what   *)
(* lies where a cluster number is no cluster's.                            *)
ReadBlock(v, block) == IF block \in Blocks THEN v ELSE Failed(v)

WriteBlock(v, block, content) ==
  LET disk == [v.disk EXCEPT ![block] = content]
  IN  IF ~v.ok \/ block \notin Blocks THEN Failed(v)
      ELSE [v EXCEPT !.disk = disk, !.writes = Append(@, disk)]

WriteMirror_Mutated(v) == v

(* The second FAT gets what was written to the first. *)
WriteMirror(v) == IF v.mirror = NoBlock THEN v ELSE WriteBlock(v, v.mirror, v.buf)

Clean(v) == IF v.ok THEN [v EXCEPT !.dirty = FALSE, !.mirror = NoBlock] ELSE v

CacheFlush(v) ==
  IF ~v.ok \/ ~v.dirty THEN v ELSE Clean(WriteMirror(WriteBlock(v, v.blk, v.buf)))

Load(v, block) ==
  IF v.ok /\ block \in Blocks THEN [v EXCEPT !.blk = block, !.buf = v.disk[block]]
  ELSE Failed(v)

CacheRawBlock_Mutated(v, block) ==
  IF ~v.ok \/ v.blk = block THEN v ELSE Load(v, block)

CacheRawBlock(v, block) ==
  IF ~v.ok \/ v.blk = block THEN v ELSE Load(CacheFlush(v), block)

(* An entry of the cached block, of a FAT or a directory, is changed.      *)
SetCached(v, i, value) ==
  IF v.ok THEN [v EXCEPT !.buf[i] = value, !.dirty = TRUE] ELSE v

(* A FAT entry, from the cache if its block is there. *)
FatEntry(v, c) == IF v.blk = FatBlock(c) THEN v.buf[c] ELSE v.disk[FatBlock(c)][c]

FatGet(v, c) == IF c \in Cluster THEN CacheRawBlock(v, FatBlock(c)) ELSE Failed(v)

FatPut(v, c, value) ==
  LET put == SetCached(FatGet(v, c), c, value)
  IN  IF put.ok THEN [put EXCEPT !.mirror = MirrorBlock(FatBlock(c))] ELSE put

(* The clusters allocContiguous(1, cur) looks at, one after the other.     *)
SearchFrom(v, cur) ==
  LET next == IF cur = 0 THEN v.start ELSE cur + 1
      begin == IF next \in Cluster THEN next ELSE 2
  IN  [i \in 1 .. ClusterCount |-> 2 + ((begin + i - 3) % ClusterCount)]

(* How many it looks at before the free one, and that one; 0 when the      *)
(* volume is full.                                                         *)
Tried(v, search) == SelectInSeq(search, LAMBDA c : FatEntry(v, c) = Free)
FoundCluster(v, cur) ==
  LET search == SearchFrom(v, cur)
  IN  IF Tried(v, search) = 0 THEN 0 ELSE search[Tried(v, search)]

Searched(v, search, n) == FoldLeft(FatGet, v, IF n = 0 THEN search ELSE SubSeq(search, 1, n))

Link(v, cur, c) == IF cur = 0 THEN v ELSE FatPut(v, cur, c)
NextStart(v, cur, c) == IF cur = 0 THEN [v EXCEPT !.start = c + 1] ELSE v

AllocCluster_Mutated(v, cur) ==
  LET seen == Searched(v, SearchFrom(v, cur), Tried(v, SearchFrom(v, cur)))
      c == FoundCluster(v, cur)
  IN  IF c = 0 THEN Failed(seen)
      ELSE NextStart(FatPut(Link(seen, cur, c), c, EOC), cur, c)

(* allocContiguous(1, cur): the cluster found ends a chain, and is linked  *)
(* behind cur unless it is the first of a new one.                         *)
AllocCluster(v, cur) ==
  LET seen == Searched(v, SearchFrom(v, cur), Tried(v, SearchFrom(v, cur)))
      c == FoundCluster(v, cur)
  IN  IF c = 0 THEN Failed(seen)
      ELSE NextStart(Link(FatPut(seen, c, EOC), cur, c), cur, c)

(* The clusters of the chain that begins with c, and what follows them: an *)
(* end mark in a sound volume.                                             *)
Chain(v, c) ==
  LET walk[i \in 0 .. ClusterCount] ==
        IF i = 0 THEN <<c>>
        ELSE LET path == walk[i - 1]
             IN  IF Last(path) \in Cluster THEN Append(path, FatEntry(v, Last(path))) ELSE path
  IN  walk[ClusterCount]

(* freeChain(c).  A chain that does not end with an end mark makes it fail *)
(* at the reserved entry it comes to.                                      *)
FreeChain(v, c) ==
  LET path == Chain(v, c)
      freed == FoldLeft(LAMBDA w, d : FatPut(w, d, Free),
                        [v EXCEPT !.start = 2], Front(path))
  IN  IF Last(path) = EOC THEN freed ELSE Failed(freed)
=============================================================================
