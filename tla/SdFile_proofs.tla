--------------------------- MODULE SdFile_proofs ----------------------------
(***************************************************************************)
(* The cache is honest and what is closed is durable, for every geometry   *)
(* of the volume, every set of files, any number of bytes and any number   *)
(* of power failures, each between any two writes of the card.             *)
(*                                                                         *)
(* The invariant is SdInv.  What a call keeps between its first and last   *)
(* operation is Good, of the volume, and FileOk, of the file as well; k    *)
(* stands for what is known of the call when it begins.                    *)
(***************************************************************************)
EXTENDS SdFile, WellFoundedInduction, SequenceTheorems, TLAPS

BlockFacts ==
  /\ DirBlock \in Blocks /\ BootBlock \in Blocks /\ NoBlock \notin Blocks
  /\ FatBlocks \subseteq Blocks
  /\ \A b \in FatBlocks : b[1] = "fat" /\ MirrorBlock(b) \in Blocks /\ MirrorBlock(b) # NoBlock
  /\ \A b : MirrorBlock(b)[1] = "mirror"
  /\ \A b, d \in FatBlocks : MirrorBlock(b) = MirrorBlock(d) => b = d
  /\ DirBlock[1] = "dir" /\ BootBlock[1] = "boot" /\ NoBlock[1] = "none"
  /\ \A c \in Cluster : FatBlock(c) \in FatBlocks
  /\ \A c, i : DataBlock(c, i)[1] = "data"

LEMMA BlocksAreTagged == BlockFacts
<1>1. DirBlock \in Blocks /\ BootBlock \in Blocks /\ FatBlocks \subseteq Blocks
  BY DEF Blocks
<1>2. DirBlock[1] = "dir" /\ BootBlock[1] = "boot" /\ NoBlock[1] = "none"
  BY DEF DirBlock, BootBlock, NoBlock
<1>3. ASSUME NEW b PROVE MirrorBlock(b)[1] = "mirror"
  BY DEF MirrorBlock
<1>4. ASSUME NEW c, NEW i PROVE DataBlock(c, i)[1] = "data"
  BY DEF DataBlock
<1>5. ASSUME NEW c PROVE FatBlock(c)[1] = "fat" /\ FatBlock(c) = <<"fat", FatBlock(c)[2]>>
  BY DEF FatBlock
<1>6. ASSUME NEW b \in FatBlocks PROVE b[1] = "fat" /\ b = <<"fat", b[2]>>
  BY <1>5 DEF FatBlocks
<1>7. ASSUME NEW b \in FatBlocks PROVE MirrorBlock(b) \in Blocks
  BY DEF Blocks
<1>8. ASSUME NEW b \in FatBlocks, NEW d \in FatBlocks, MirrorBlock(b) = MirrorBlock(d) PROVE b = d
  <2>1. b[2] = d[2]
    BY <1>8 DEF MirrorBlock
  <2> QED BY <1>6, <2>1
<1>9. NoBlock \notin Blocks
  <2>1. ASSUME NEW b \in Blocks PROVE b[1] # "none"
    BY <1>2, <1>3, <1>4, <1>6, "fat" # "none", "mirror" # "none" DEF Blocks
  <2> QED BY <1>2, <2>1
<1>10. \A c \in Cluster : FatBlock(c) \in FatBlocks
  BY DEF FatBlocks
<1>11. ASSUME NEW b \in FatBlocks PROVE MirrorBlock(b) # NoBlock
  BY <1>7, <1>9
<1> QED BY <1>1, <1>2, <1>3, <1>4, <1>6, <1>7, <1>8, <1>9, <1>10, <1>11 DEF BlockFacts
-----------------------------------------------------------------------------
VolumeFields == {"disk", "writes", "blk", "buf", "dirty", "mirror", "start", "ok"}

(* What the cache may be at any moment.  Only a block of a FAT has a mirror. *)
CacheShape(v) ==
  /\ DOMAIN v = VolumeFields
  /\ v.dirty \in BOOLEAN /\ v.ok \in BOOLEAN
  /\ v.blk[1] # "mirror"
  /\ v.mirror = IF v.dirty /\ v.blk \in FatBlocks THEN MirrorBlock(v.blk) ELSE NoBlock
  /\ ~v.dirty /\ v.blk # NoBlock => v.blk \in Blocks /\ v.buf = v.disk[v.blk]

(* The two disks that a flush of v leads through. *)
FirstFlushed(v) == [v.disk EXCEPT ![v.blk] = v.buf]
Flushed(v) ==
  IF v.blk \in FatBlocks THEN [FirstFlushed(v) EXCEPT ![MirrorBlock(v.blk)] = v.buf]
  ELSE FirstFlushed(v)

(* A cache that can never be flushed: it is to be written, and to nowhere. *)
Stuck(v) == v.dirty /\ v.blk \notin Blocks

(* A failed operation changes nothing else of the volume.                  *)
LEMMA FailedOnlyFails ==
  ASSUME NEW v, DOMAIN v = VolumeFields
  PROVE  LET w == Failed(v)
         IN  /\ DOMAIN w = VolumeFields /\ ~w.ok /\ w.ok \in BOOLEAN
             /\ w.disk = v.disk /\ w.writes = v.writes /\ w.blk = v.blk /\ w.buf = v.buf
             /\ w.dirty = v.dirty /\ w.mirror = v.mirror /\ w.start = v.start
BY DEF Failed, VolumeFields

(* w is v after content was written to block. *)
Written(w, v, block, content) ==
  /\ DOMAIN w = VolumeFields /\ w.ok
  /\ w.disk = [v.disk EXCEPT ![block] = content]
  /\ w.writes = Append(v.writes, [v.disk EXCEPT ![block] = content])
  /\ w.blk = v.blk /\ w.buf = v.buf
  /\ w.dirty = v.dirty /\ w.mirror = v.mirror /\ w.start = v.start

(* A write of a block of the card that does not fail.                      *)
LEMMA WriteBlockWrites ==
  ASSUME NEW v, NEW block, NEW content, DOMAIN v = VolumeFields, v.ok, block \in Blocks
  PROVE  Written(WriteBlock(v, block, content), v, block, content)
BY DEF WriteBlock, Written, VolumeFields

(* w is v with nothing to be written. *)
Cleaned(w, v) ==
  /\ DOMAIN w = VolumeFields /\ w.ok
  /\ w.disk = v.disk /\ w.writes = v.writes
  /\ w.blk = v.blk /\ w.buf = v.buf
  /\ w.dirty = FALSE /\ w.mirror = NoBlock /\ w.start = v.start

LEMMA CleanCleans ==
  ASSUME NEW v, DOMAIN v = VolumeFields, v.ok
  PROVE  Cleaned(Clean(v), v)
BY DEF Clean, Cleaned, VolumeFields

(* A flush writes a dirty cache only, and nothing after a failure.         *)
LEMMA FlushOfNothing ==
  ASSUME NEW v, ~v.ok \/ ~v.dirty
  PROVE  CacheFlush(v) = v
BY DEF CacheFlush

(* A dirty cache that holds no block of the card fails the flush and stays *)
(* dirty: cacheFlush clears the mark only after the write.                 *)
LEMMA FlushStuck ==
  ASSUME NEW v, CacheShape(v), v.ok, Stuck(v)
  PROVE  CacheFlush(v) = Failed(v)
<1>1. WriteBlock(v, v.blk, v.buf) = Failed(v)
  BY DEF WriteBlock, Stuck
<1>2. v.mirror = NoBlock
  BY BlocksAreTagged DEF CacheShape, Stuck, BlockFacts
<1>3. Failed(v).mirror = NoBlock /\ ~Failed(v).ok
  BY <1>2, FailedOnlyFails DEF CacheShape
<1> QED BY <1>1, <1>3 DEF CacheFlush, WriteMirror, Clean, Stuck

(* w is v after a flush that wrote. *)
FlushedTo(w, v) ==
  /\ DOMAIN w = VolumeFields /\ w.ok
  /\ w.disk = Flushed(v)
  /\ w.writes = IF v.blk \in FatBlocks
                THEN Append(Append(v.writes, FirstFlushed(v)), Flushed(v))
                ELSE Append(v.writes, Flushed(v))
  /\ w.blk = v.blk /\ w.buf = v.buf
  /\ w.dirty = FALSE /\ w.mirror = NoBlock /\ w.start = v.start

(* A flush writes the block, and its mirror if it is one of a FAT.         *)
LEMMA FlushWrites ==
  ASSUME NEW v, CacheShape(v), v.ok, v.dirty, v.blk \in Blocks
  PROVE  FlushedTo(CacheFlush(v), v)
<1> DEFINE w1 == WriteBlock(v, v.blk, v.buf)
           w2 == WriteMirror(w1)
<1>1. Written(w1, v, v.blk, v.buf)
  BY WriteBlockWrites DEF CacheShape
<1>2. CacheFlush(v) = Clean(w2)
  BY DEF CacheFlush
<1> HIDE DEF w1
<1>3. CASE v.blk \in FatBlocks
  <2>1. v.mirror = MirrorBlock(v.blk) /\ v.mirror \in Blocks /\ v.mirror # NoBlock
    BY <1>3, BlocksAreTagged DEF CacheShape, BlockFacts
  <2>2. w2 = WriteBlock(w1, MirrorBlock(v.blk), v.buf)
    BY <1>1, <2>1 DEF WriteMirror, Written
  <2>3. DOMAIN w1 = VolumeFields /\ w1.ok /\ MirrorBlock(v.blk) \in Blocks
    BY <1>1, <2>1 DEF Written
  <2>4. Written(w2, w1, MirrorBlock(v.blk), v.buf)
    BY <2>2, <2>3, WriteBlockWrites
  <2> HIDE DEF w2
  <2>5. Cleaned(Clean(w2), w2)
    BY <2>4, CleanCleans DEF Written
  <2> QED BY <1>1, <1>2, <1>3, <2>4, <2>5 DEF Written, Cleaned, FlushedTo, Flushed, FirstFlushed
<1>4. CASE v.blk \notin FatBlocks
  <2>1. w2 = w1
    BY <1>1, <1>4 DEF WriteMirror, CacheShape, Written
  <2> HIDE DEF w2
  <2>2. Cleaned(Clean(w2), w1)
    BY <1>1, <2>1, CleanCleans DEF Written
  <2> QED BY <1>1, <1>2, <1>4, <2>2 DEF Written, Cleaned, FlushedTo, Flushed, FirstFlushed
<1> QED BY <1>3, <1>4
-----------------------------------------------------------------------------
(* What the directory says: the cached block of it, or the card's.         *)
DirSeen(v) == IF v.blk = DirBlock THEN v.buf ELSE v.disk[DirBlock]

DirOk(dir, bound) ==
  /\ DOMAIN dir = Names
  /\ \A f \in Names : /\ dir[f].size \in Nat /\ dir[f].size >= bound[f]
                      /\ ~dir[f].used => dir[f].size = 0
DiskOk(disk, bound) == DOMAIN disk = Blocks /\ DirOk(disk[DirBlock], bound)
WritesOk(writes, bound) == \E S : writes \in Seq(S) /\ \A disk \in S : DiskOk(disk, bound)
Agree(disk) == \A b \in FatBlocks : disk[MirrorBlock(b)] = disk[b]

(* What no step of a call that leaves the directory alone destroys.  k is  *)
(* the call: the sizes that the directory must not go below, what it says, *)
(* whether both FATs agree, and whether the cache was stuck.               *)
Good(v, k) ==
  /\ CacheShape(v)
  /\ DiskOk(v.disk, k.bound) /\ WritesOk(v.writes, k.bound)
  /\ k.agree => Agree(v.disk)
  /\ DirSeen(v) = k.dir /\ DirOk(k.dir, k.bound)
  /\ k.stuck => Stuck(v)

LEMMA OneMoreWrite ==
  ASSUME NEW writes, NEW bound, NEW disk, WritesOk(writes, bound), DiskOk(disk, bound)
  PROVE  WritesOk(Append(writes, disk), bound)
<1>1. PICK S : writes \in Seq(S) /\ \A d \in S : DiskOk(d, bound)
  BY DEF WritesOk
<1> DEFINE T == S \cup {disk}
<1>2. writes \in Seq(T)
  BY <1>1
<1>3. Append(writes, disk) \in Seq(T)
  BY <1>2
<1>4. \A d \in T : DiskOk(d, bound)
  BY <1>1
<1> HIDE DEF T
<1> QED BY <1>3, <1>4 DEF WritesOk

LEMMA EveryWriteOk ==
  ASSUME NEW writes, NEW bound, WritesOk(writes, bound), NEW i \in 1 .. Len(writes)
  PROVE  DiskOk(writes[i], bound)
<1>1. PICK S : writes \in Seq(S) /\ \A d \in S : DiskOk(d, bound)
  BY DEF WritesOk
<1> QED BY <1>1

(* One lemma for each operation of the volume: what is good for a call     *)
(* remains so, whatever else the operation does.                           *)
LEMMA GoodFailed ==
  ASSUME NEW v, NEW k, Good(v, k)
  PROVE  Good(Failed(v), k)
BY FailedOnlyFails DEF Good, CacheShape, DirSeen, Stuck

LEMMA GoodFlush ==
  ASSUME NEW v, NEW k, Good(v, k)
  PROVE  Good(CacheFlush(v), k)
<1>1. CASE ~v.ok \/ ~v.dirty
  BY <1>1, FlushOfNothing
<1>2. CASE v.ok /\ v.dirty /\ v.blk \notin Blocks
  BY <1>2, FlushStuck, GoodFailed DEF Good, Stuck
<1>3. CASE v.ok /\ v.dirty /\ v.blk \in Blocks
  <2> DEFINE w == CacheFlush(v)
  <2>1. FlushedTo(w, v)
    BY <1>3, FlushWrites DEF Good
  <2> HIDE DEF w
  <2>2. CacheShape(v) /\ DiskOk(v.disk, k.bound) /\ DirOk(k.dir, k.bound) /\ DirSeen(v) = k.dir
    BY DEF Good
  <2>3. /\ DOMAIN FirstFlushed(v) = Blocks
        /\ FirstFlushed(v)[DirBlock] = k.dir
        /\ FirstFlushed(v)[v.blk] = v.buf
        /\ \A b \in Blocks : b # v.blk => FirstFlushed(v)[b] = v.disk[b]
    BY <1>3, <2>2, BlocksAreTagged DEF DiskOk, DirSeen, BlockFacts, FirstFlushed
  <2>4. v.blk[1] # "mirror" /\ DirBlock[1] # "mirror"
    BY <2>2, BlocksAreTagged DEF CacheShape, BlockFacts
  <2>5. /\ DOMAIN Flushed(v) = Blocks
        /\ Flushed(v)[DirBlock] = k.dir
        /\ Flushed(v)[v.blk] = v.buf
    BY <2>3, <2>4, BlocksAreTagged, <1>3 DEF BlockFacts, Flushed
  <2>6. k.agree => Agree(Flushed(v))
    <3> SUFFICES ASSUME k.agree, NEW b \in FatBlocks
                 PROVE  Flushed(v)[MirrorBlock(b)] = Flushed(v)[b]
      BY DEF Agree
    <3>1. v.disk[MirrorBlock(b)] = v.disk[b]
      BY DEF Good, Agree
    <3>2. /\ b \in Blocks /\ b[1] = "fat" /\ MirrorBlock(b) \in Blocks
          /\ MirrorBlock(b)[1] = "mirror"
      BY BlocksAreTagged DEF BlockFacts
    <3>3. CASE v.blk = b
      BY <3>2, <3>3, <2>3, <2>5 DEF Flushed
    <3>4. CASE v.blk # b
      <4>1. FirstFlushed(v)[MirrorBlock(b)] = FirstFlushed(v)[b]
        BY <3>1, <3>2, <3>4, <2>3, <2>4
      <4>2. v.blk \in FatBlocks => /\ MirrorBlock(v.blk) # b /\ MirrorBlock(v.blk) # MirrorBlock(b)
                                   /\ MirrorBlock(v.blk) \in Blocks
        BY <3>2, <3>4, BlocksAreTagged DEF BlockFacts
      <4> QED BY <4>1, <4>2, <2>3, <3>2 DEF Flushed
    <3> QED BY <3>3, <3>4
  <2>7. DiskOk(FirstFlushed(v), k.bound) /\ DiskOk(Flushed(v), k.bound)
    BY <2>2, <2>3, <2>5 DEF DiskOk
  <2>8. WritesOk(w.writes, k.bound)
    BY <2>1, <2>7, OneMoreWrite DEF Good, FlushedTo
  <2>9. CacheShape(w)
    BY <1>3, <2>1, <2>4, <2>5 DEF CacheShape, FlushedTo
  <2>10. DirSeen(w) = k.dir
    BY <2>1, <2>2, <2>5 DEF DirSeen, FlushedTo
  <2>11. ~k.stuck
    BY <1>3 DEF Good, Stuck
  <2> QED BY <2>1, <2>2, <2>6, <2>7, <2>8, <2>9, <2>10, <2>11 DEF Good, FlushedTo, w
<1> QED BY <1>1, <1>2, <1>3 DEF Good, CacheShape

(* When a flush succeeds.                                                  *)
LEMMA FlushOk ==
  ASSUME NEW v, CacheShape(v)
  PROVE  /\ CacheFlush(v).ok => v.ok /\ ~CacheFlush(v).dirty
         /\ v.ok /\ ~Stuck(v) => CacheFlush(v).ok
<1>1. CASE ~v.ok \/ ~v.dirty
  BY <1>1, FlushOfNothing
<1>2. CASE v.ok /\ v.dirty /\ v.blk \notin Blocks
  BY <1>2, FlushStuck, FailedOnlyFails DEF Stuck, CacheShape
<1>3. CASE v.ok /\ v.dirty /\ v.blk \in Blocks
  BY <1>3, FlushWrites DEF FlushedTo
<1> QED BY <1>1, <1>2, <1>3 DEF CacheShape

LEMMA GoodLoad ==
  ASSUME NEW v, NEW k, NEW block, Good(v, k), v.ok => ~v.dirty, block[1] # "mirror"
  PROVE  Good(Load(v, block), k)
<1> DEFINE w == Load(v, block)
<1>1. CASE v.ok /\ block \in Blocks
  <2>1. /\ DOMAIN w = VolumeFields /\ w.ok = v.ok /\ w.disk = v.disk /\ w.writes = v.writes
        /\ w.blk = block /\ w.buf = v.disk[block] /\ w.dirty = v.dirty /\ w.mirror = v.mirror
    BY <1>1 DEF Load, Good, CacheShape, VolumeFields
  <2> HIDE DEF w
  <2>2. CacheShape(w)
    BY <1>1, <2>1 DEF Good, CacheShape
  <2>3. DirSeen(w) = k.dir
    BY <1>1, <2>1, BlocksAreTagged DEF Good, CacheShape, DirSeen, BlockFacts
  <2>4. ~k.stuck
    BY <1>1 DEF Good, Stuck
  <2> QED BY <2>1, <2>2, <2>3, <2>4 DEF Good, w
<1>2. CASE ~(v.ok /\ block \in Blocks)
  BY <1>2, GoodFailed DEF Load
<1> QED BY <1>1, <1>2

LEMMA GoodCacheRawBlock ==
  ASSUME NEW v, NEW k, NEW block, Good(v, k), block[1] # "mirror"
  PROVE  Good(CacheRawBlock(v, block), k)
<1>1. Good(CacheFlush(v), k)
  BY GoodFlush
<1>2. CacheFlush(v).ok => ~CacheFlush(v).dirty
  BY FlushOk DEF Good
<1>3. Good(Load(CacheFlush(v), block), k)
  BY <1>1, <1>2, GoodLoad
<1> QED BY <1>3 DEF CacheRawBlock

(* When a block gets into the cache.                                       *)
LEMMA CacheRawBlockOk ==
  ASSUME NEW v, NEW block, CacheShape(v)
  PROVE  /\ CacheRawBlock(v, block).ok => v.ok /\ CacheRawBlock(v, block).blk = block
         /\ v.ok /\ ~Stuck(v) /\ block \in Blocks => CacheRawBlock(v, block).ok
<1> DEFINE u == CacheFlush(v)
<1>1. (u.ok => v.ok) /\ (v.ok /\ ~Stuck(v) => u.ok)
  BY FlushOk
<1>2. DOMAIN u = VolumeFields
  <2>1. CASE ~v.ok \/ ~v.dirty
    BY <2>1, FlushOfNothing DEF CacheShape
  <2>2. CASE v.ok /\ v.dirty /\ v.blk \notin Blocks
    BY <2>2, FlushStuck, FailedOnlyFails DEF Stuck, CacheShape
  <2>3. CASE v.ok /\ v.dirty /\ v.blk \in Blocks
    BY <2>3, FlushWrites DEF FlushedTo
  <2> QED BY <2>1, <2>2, <2>3 DEF CacheShape
<1> HIDE DEF u
<1>3. u.ok /\ block \in Blocks => Load(u, block).ok /\ Load(u, block).blk = block
  BY <1>2 DEF Load, VolumeFields
<1>4. ~(u.ok /\ block \in Blocks) => ~Load(u, block).ok
  BY <1>2, FailedOnlyFails DEF Load
<1> QED BY <1>1, <1>3, <1>4 DEF CacheRawBlock, u

LEMMA GoodFatGet ==
  ASSUME NEW v, NEW k, NEW c, Good(v, k)
  PROVE  /\ Good(FatGet(v, c), k)
         /\ FatGet(v, c).ok => v.ok /\ c \in Cluster /\ FatGet(v, c).blk = FatBlock(c)
<1>1. CASE c \in Cluster
  <2>1. FatBlock(c)[1] # "mirror"
    BY <1>1, BlocksAreTagged DEF BlockFacts
  <2> QED BY <1>1, <2>1, GoodCacheRawBlock, CacheRawBlockOk DEF FatGet, Good
<1>2. CASE c \notin Cluster
  BY <1>2, GoodFailed, FailedOnlyFails DEF FatGet, Good, CacheShape
<1> QED BY <1>1, <1>2

(* w is v with an entry of the cached block changed. *)
Changed(w, v, i, value) ==
  /\ DOMAIN w = VolumeFields /\ w.ok = v.ok /\ w.disk = v.disk /\ w.writes = v.writes
  /\ w.blk = v.blk /\ w.buf = [v.buf EXCEPT ![i] = value] /\ w.dirty = TRUE
  /\ w.mirror = v.mirror /\ w.start = v.start

LEMMA SetCachedChanges ==
  ASSUME NEW v, NEW i, NEW value, DOMAIN v = VolumeFields, v.ok
  PROVE  Changed(SetCached(v, i, value), v, i, value)
BY DEF SetCached, Changed, VolumeFields

(* fatPut is where a FAT block gets its mirror: both are written by the    *)
(* next flush, so the FATs agree once it is clean.                         *)
LEMMA GoodFatPut ==
  ASSUME NEW v, NEW k, NEW c, NEW value, Good(v, k)
  PROVE  Good(FatPut(v, c, value), k) /\ (FatPut(v, c, value).ok => v.ok)
<1> DEFINE u == FatGet(v, c)
           s == SetCached(u, c, value)
           w == FatPut(v, c, value)
<1>1. Good(u, k) /\ (u.ok => v.ok /\ c \in Cluster /\ u.blk = FatBlock(c))
  BY GoodFatGet
<1> HIDE DEF u
<1>2. CASE u.ok
  <2>1. Changed(s, u, c, value)
    BY <1>1, <1>2, SetCachedChanges DEF Good, CacheShape
  <2> HIDE DEF s
  <2>2. w = [s EXCEPT !.mirror = MirrorBlock(FatBlock(c))]
    BY <1>2, <2>1 DEF FatPut, Changed, s, u
  <2> HIDE DEF w
  <2>3. /\ DOMAIN w = VolumeFields /\ w.ok = u.ok /\ w.disk = u.disk /\ w.writes = u.writes
        /\ w.blk = u.blk /\ w.dirty = TRUE /\ w.mirror = MirrorBlock(u.blk)
    BY <1>1, <1>2, <2>1, <2>2 DEF Changed, VolumeFields
  <2>4. u.blk \in FatBlocks /\ u.blk \in Blocks /\ u.blk # DirBlock
    BY <1>1, <1>2, BlocksAreTagged DEF BlockFacts
  <2>5. CacheShape(w)
    BY <1>1, <2>3, <2>4 DEF CacheShape, Good
  <2>6. DirSeen(w) = k.dir
    BY <1>1, <2>3, <2>4 DEF Good, DirSeen
  <2>7. ~k.stuck
    BY <1>1, <2>4 DEF Good, Stuck
  <2>8. Good(w, k)
    BY <1>1, <2>3, <2>5, <2>6, <2>7 DEF Good
  <2> QED BY <1>1, <1>2, <2>8 DEF w
<1>3. CASE ~u.ok
  <2>1. w = u
    BY <1>3 DEF FatPut, SetCached, u
  <2> QED BY <1>1, <1>3, <2>1
<1> QED BY <1>2, <1>3
-----------------------------------------------------------------------------
(* The blocks of files are none of the volume's own.                       *)
LEMMA DataIsData ==
  ASSUME NEW block, block[1] = "data"
  PROVE  /\ block \notin FatBlocks /\ block # DirBlock /\ block # NoBlock
         /\ \A b \in FatBlocks : block # MirrorBlock(b)
BY BlocksAreTagged DEF BlockFacts

LEMMA GoodWriteBlock ==
  ASSUME NEW v, NEW k, NEW block, NEW content, Good(v, k), block[1] = "data", v.blk # block
  PROVE  Good(WriteBlock(v, block, content), k)
<1> DEFINE w == WriteBlock(v, block, content)
<1>1. CASE v.ok /\ block \in Blocks
  <2>1. Written(w, v, block, content)
    BY <1>1, WriteBlockWrites DEF Good, CacheShape
  <2> HIDE DEF w
  <2>2. block # DirBlock /\ block \notin FatBlocks /\ \A b \in FatBlocks : block # MirrorBlock(b)
    BY DataIsData
  <2>3. /\ DOMAIN w.disk = Blocks /\ w.disk[DirBlock] = v.disk[DirBlock]
        /\ \A b \in Blocks : b # block => w.disk[b] = v.disk[b]
    BY <2>1, <2>2, BlocksAreTagged DEF Written, Good, DiskOk, BlockFacts
  <2>4. DiskOk(w.disk, k.bound)
    BY <2>3 DEF Good, DiskOk
  <2>5. WritesOk(w.writes, k.bound)
    BY <2>1, <2>4, OneMoreWrite DEF Good, Written
  <2>6. k.agree => Agree(w.disk)
    BY <2>2, <2>3, BlocksAreTagged DEF Good, Agree, BlockFacts
  <2>7. CacheShape(w)
    BY <2>1, <2>3, <1>1 DEF CacheShape, Good, Written
  <2>8. DirSeen(w) = k.dir
    BY <2>1, <2>3 DEF DirSeen, Good, Written
  <2> QED BY <2>1, <2>4, <2>5, <2>6, <2>7, <2>8 DEF Good, Stuck, Written, w
<1>2. CASE ~(v.ok /\ block \in Blocks)
  BY <1>2, GoodFailed DEF WriteBlock
<1> QED BY <1>1, <1>2

(* A whole block of a file goes past the cache.  A cached copy is given    *)
(* up, and if that was dirty the cache is stuck from then on.              *)
LEMMA GoodWriteThrough ==
  ASSUME NEW v, NEW k, NEW block, NEW content, Good(v, k), block[1] = "data"
  PROVE  Good(WriteThrough(v, block, content), k)
<1>1. CASE v.blk = block
  <2> DEFINE u == [v EXCEPT !.blk = NoBlock]
  <2>1. /\ DOMAIN u = VolumeFields /\ u.ok = v.ok /\ u.disk = v.disk /\ u.writes = v.writes
        /\ u.blk = NoBlock /\ u.buf = v.buf /\ u.dirty = v.dirty /\ u.mirror = v.mirror
    BY DEF Good, CacheShape, VolumeFields
  <2> HIDE DEF u
  <2>2. block \notin FatBlocks /\ block # DirBlock /\ block # NoBlock
    BY DataIsData
  <2>3. NoBlock \notin Blocks /\ NoBlock[1] = "none" /\ NoBlock \notin FatBlocks /\ NoBlock # DirBlock
    BY BlocksAreTagged DEF BlockFacts
  <2>4. CacheShape(u)
    BY <1>1, <2>1, <2>2, <2>3 DEF CacheShape, Good
  <2>5. Good(u, k)
    BY <1>1, <2>1, <2>2, <2>3, <2>4 DEF Good, DirSeen, Stuck
  <2>6. Good(WriteBlock(u, block, content), k)
    BY <2>1, <2>2, <2>5, GoodWriteBlock
  <2> QED BY <1>1, <2>6 DEF WriteThrough, u
<1>2. CASE v.blk # block
  BY <1>2, GoodWriteBlock DEF WriteThrough
<1> QED BY <1>1, <1>2

(* w is v with the content of the cached block changed. *)
Dirtied(w, v) ==
  /\ DOMAIN w = VolumeFields /\ w.ok = v.ok /\ w.disk = v.disk /\ w.writes = v.writes
  /\ w.blk = v.blk /\ w.dirty = TRUE /\ w.mirror = v.mirror

LEMMA BufferedDirties ==
  ASSUME NEW v, NEW f, NEW pos, NEW n, DOMAIN v = VolumeFields, v.ok
  PROVE  Dirtied(Buffered(v, f, pos, n), v)
BY DEF Buffered, Dirtied, VolumeFields

LEMMA GoodBuffered ==
  ASSUME NEW v, NEW k, NEW f, NEW pos, NEW n, Good(v, k), v.ok => v.blk[1] = "data"
  PROVE  Good(Buffered(v, f, pos, n), k)
<1> DEFINE w == Buffered(v, f, pos, n)
<1>1. CASE v.ok
  <2>1. Dirtied(w, v)
    BY <1>1, BufferedDirties DEF Good, CacheShape
  <2> HIDE DEF w
  <2>2. v.blk \notin FatBlocks /\ v.blk # DirBlock
    BY <1>1, DataIsData
  <2>3. CacheShape(w)
    BY <2>1, <2>2 DEF CacheShape, Good, Dirtied
  <2> QED BY <2>1, <2>2, <2>3 DEF Good, Stuck, DirSeen, Dirtied, w
<1>2. CASE ~v.ok
  BY <1>2 DEF Buffered
<1> QED BY <1>1, <1>2

(* A new block of a file is not read: the cache must be clean before.      *)
LEMMA GoodNewBlock ==
  ASSUME NEW v, NEW k, NEW f, NEW pos, NEW n, NEW block,
         Good(v, k), v.ok => ~v.dirty, block[1] = "data"
  PROVE  Good(Buffered(NewBlock(v, block), f, pos, n), k)
<1> DEFINE u == NewBlock(v, block)
           w == Buffered(u, f, pos, n)
<1>1. CASE v.ok
  <2>1. /\ DOMAIN u = VolumeFields /\ u.ok = v.ok /\ u.disk = v.disk /\ u.writes = v.writes
        /\ u.blk = block /\ u.dirty = v.dirty /\ u.mirror = v.mirror
    BY <1>1 DEF NewBlock, Good, CacheShape, VolumeFields
  <2> HIDE DEF u
  <2>2. Dirtied(w, u)
    BY <1>1, <2>1, BufferedDirties
  <2> HIDE DEF w
  <2>3. block \notin FatBlocks /\ block # DirBlock /\ block # NoBlock
    BY DataIsData
  <2>4. CacheShape(w)
    BY <1>1, <2>1, <2>2, <2>3 DEF CacheShape, Good, Dirtied
  <2>5. ~k.stuck
    BY <1>1 DEF Good, Stuck
  <2>6. DirSeen(w) = k.dir
    BY <1>1, <2>1, <2>2, <2>3, BlocksAreTagged DEF Good, CacheShape, DirSeen, Dirtied, BlockFacts
  <2> QED BY <2>1, <2>2, <2>4, <2>5, <2>6 DEF Good, Dirtied, w, u
<1>2. CASE ~v.ok
  <2>1. u = v /\ w = v
    BY <1>2 DEF NewBlock, Buffered
  <2> QED BY <2>1
<1> QED BY <1>1, <1>2

LEMMA GoodPutInBlock ==
  ASSUME NEW v, NEW k, NEW h, NEW f, NEW n, NEW block, Good(v, k), block[1] = "data"
  PROVE  Good(PutInBlock(v, h, f, n, block), k)
<1>1. CASE n = BlockSize
  BY <1>1, GoodWriteThrough DEF PutInBlock
<1>2. CASE n # BlockSize /\ (Offset(h.pos) = 0 /\ h.pos >= h.size)
  <2>1. Good(CacheFlush(v), k) /\ (CacheFlush(v).ok => ~CacheFlush(v).dirty)
    BY GoodFlush, FlushOk DEF Good
  <2>2. Good(Buffered(NewBlock(CacheFlush(v), block), f, h.pos, n), k)
    BY <2>1, GoodNewBlock
  <2> QED BY <1>2, <2>2 DEF PutInBlock, CachedToWrite
<1>3. CASE n # BlockSize /\ ~(Offset(h.pos) = 0 /\ h.pos >= h.size)
  <2>1. Good(CacheRawBlock(v, block), k)
    BY GoodCacheRawBlock
  <2>2. CacheRawBlock(v, block).ok => CacheRawBlock(v, block).blk = block
    BY CacheRawBlockOk DEF Good
  <2>3. Good(Buffered(CacheRawBlock(v, block), f, h.pos, n), k)
    BY <2>1, <2>2, GoodBuffered
  <2> QED BY <1>3, <2>3 DEF PutInBlock, CachedToWrite
<1> QED BY <1>1, <1>2, <1>3
-----------------------------------------------------------------------------
(* The folds of the model, each with what it does in a step.  c says which *)
(* one it is, and for which file.                                          *)
Step(c, x, i) ==
  CASE c[1] = "get" -> FatGet(x, i)
    [] c[1] = "free" -> FatPut(x, i, Free)
    [] c[1] = "follow" -> FollowLink(x, i)
    [] c[1] = "write" -> IF ~x.v.ok \/ x.left = 0 THEN x ELSE WriteChunk(AtCluster(x), c[2])
    [] c[1] = "read" -> IF ~x.v.ok \/ x.left = 0 THEN x ELSE ReadChunk(ToRead(x))

(* The function that such a fold is defined by. *)
IsIter(c, base, s, D, g) ==
  g = [t \in SUBSET D |-> IF t = {} THEN base ELSE Step(c, g[t \ {Max(t)}], s[Max(t)])]

(* Natural numbers are well founded.                                       *)
LEMMA LeastNat ==
  ASSUME NEW T, T \subseteq Nat, T # {}
  PROVE  \E x \in T : \A y \in T : x <= y
<1>1. IsWellFoundedOn(OpToRel(<, Nat), Nat)
  BY NatLessThanWellFounded
<1>2. PICK x \in T : \A y \in T : ~(<<y, x>> \in OpToRel(<, Nat))
  BY <1>1, WFMin
<1>3. OpToRel(<, Nat) = {ss \in Nat \X Nat : ss[1] < ss[2]}
  BY DEF OpToRel
<1>4. ASSUME NEW y \in T PROVE x <= y
  <2>1. ~(<<y, x>> \in {ss \in Nat \X Nat : ss[1] < ss[2]})
    BY <1>2, <1>3
  <2>2. y \in Nat /\ x \in Nat
    OBVIOUS
  <2> QED BY <2>1, <2>2
<1> QED BY <1>4

(* A set of numbers up to n has a largest one.                             *)
LEMMA MaxIsLargest ==
  ASSUME NEW n \in Nat, NEW t, t \subseteq 1 .. n, t # {}
  PROVE  Max(t) \in t /\ \A i \in t : i <= Max(t)
<1> DEFINE T == {n - i : i \in t}
<1>1. T \subseteq Nat /\ T # {}
  <2>1. ASSUME NEW i \in t PROVE n - i \in Nat /\ n - i \in T
    <3>1. i \in 1 .. n
      OBVIOUS
    <3> QED BY <3>1
  <2> QED BY <2>1
<1>2. PICK d \in T : \A e \in T : d <= e
  BY <1>1, LeastNat
<1>3. PICK m \in t : d = n - m
  BY <1>2
<1>4. \A i \in t : m >= i
  <2> SUFFICES ASSUME NEW i \in t PROVE m >= i
    OBVIOUS
  <2>1. n - m <= n - i
    BY <1>2, <1>3
  <2>2. m \in Int /\ i \in Int
    OBVIOUS
  <2> QED BY <2>1, <2>2
<1>5. \E x \in t : \A y \in t : x >= y
  BY <1>4
<1>6. Max(t) \in t /\ \A y \in t : Max(t) >= y
  BY <1>5 DEF Max
<1>7. \A y \in t : y \in Int
  OBVIOUS
<1> QED BY <1>6, <1>7

(* A fold is defined by recursion over sets of indices.  The function so   *)
(* defined exists: there would be a least n without one.                   *)
LEMMA IterExists ==
  ASSUME NEW c, NEW base, NEW s, NEW n \in Nat
  PROVE  \E g : IsIter(c, base, s, 1 .. n, g)
<1> DEFINE T == {m \in Nat : ~ \E g : IsIter(c, base, s, 1 .. m, g)}
<1>1. CASE T = {}
  BY <1>1
<1>2. CASE T # {}
  <2>1. PICK m \in T : \A y \in T : m <= y
    BY <1>2, LeastNat
  <2>2. m \in Nat /\ ~ \E g : IsIter(c, base, s, 1 .. m, g)
    BY <2>1
  <2>3. CASE m = 0
    <3> DEFINE g == [t \in SUBSET (1 .. 0) |-> base]
               h == [t \in SUBSET (1 .. 0) |->
                       IF t = {} THEN base ELSE Step(c, g[t \ {Max(t)}], s[Max(t)])]
    <3>1. \A t \in SUBSET (1 .. 0) : t = {}
      OBVIOUS
    <3>2. g = h
      BY <3>1
    <3>3. IsIter(c, base, s, 1 .. 0, g)
      BY <3>2 DEF IsIter
    <3> QED BY <2>2, <2>3, <3>3
  <2>4. CASE m # 0
    <3>1. m - 1 \in Nat /\ m - 1 \notin T
      BY <2>1, <2>2, <2>4
    <3>2. PICK g : IsIter(c, base, s, 1 .. m - 1, g)
      BY <3>1
    <3> HIDE DEF T
    <3> DEFINE new == [t \in SUBSET (1 .. m) |->
                         IF m \in t THEN Step(c, g[t \ {m}], s[m]) ELSE g[t]]
               h == [t \in SUBSET (1 .. m) |->
                       IF t = {} THEN base ELSE Step(c, new[t \ {Max(t)}], s[Max(t)])]
    <3>3. ASSUME NEW t \in SUBSET (1 .. m) PROVE new[t] = h[t]
      <4>1. CASE m \in t
        <5>1. Max(t) = m
          <6>1. Max(t) \in t /\ \A i \in t : i <= Max(t)
            BY <4>1, <2>2, MaxIsLargest
          <6>2. Max(t) \in 1 .. m
            BY <6>1
          <6>3. m <= Max(t)
            BY <6>1, <4>1
          <6> QED BY <6>2, <6>3, <2>2
        <5>2. t \ {m} \in SUBSET (1 .. m) /\ m \notin t \ {m}
          OBVIOUS
        <5>3. new[t \ {m}] = g[t \ {m}]
          BY <5>2
        <5>4. t # {}
          BY <4>1
        <5>5. h[t] = Step(c, new[t \ {m}], s[m])
          <6> HIDE DEF new
          <6> QED BY <5>1, <5>4
        <5>6. new[t] = Step(c, g[t \ {m}], s[m])
          BY <4>1
        <5> HIDE DEF new, h
        <5> QED BY <5>3, <5>5, <5>6
      <4>2. CASE m \notin t
        <5>1. t \in SUBSET (1 .. m - 1)
          BY <4>2, <2>2
        <5>2. g[t] = IF t = {} THEN base ELSE Step(c, g[t \ {Max(t)}], s[Max(t)])
          BY <3>2, <5>1 DEF IsIter
        <5>3. t \ {Max(t)} \in SUBSET (1 .. m) /\ m \notin t \ {Max(t)}
          BY <4>2
        <5>4. new[t \ {Max(t)}] = g[t \ {Max(t)}]
          BY <5>3
        <5>5. new[t] = g[t]
          BY <4>2
        <5>6. h[t] = IF t = {} THEN base ELSE Step(c, new[t \ {Max(t)}], s[Max(t)])
          <6> HIDE DEF new
          <6> QED OBVIOUS
        <5> HIDE DEF new, h
        <5> QED BY <5>2, <5>4, <5>5, <5>6
      <4> QED BY <4>1, <4>2
    <3>4. new = h
      <4>1. new = [t \in SUBSET (1 .. m) |-> new[t]] /\ h = [t \in SUBSET (1 .. m) |-> h[t]]
        OBVIOUS
      <4> HIDE DEF new, h
      <4> QED BY <3>3, <4>1
    <3>5. IsIter(c, base, s, 1 .. m, new)
      <4> HIDE DEF new
      <4> QED BY <3>4 DEF IsIter
    <3> HIDE DEF new
    <3> QED BY <2>2, <3>5
  <2> QED BY <2>3, <2>4
<1> QED BY <1>1, <1>2

(* So it runs through its steps, one after the other.                      *)
LEMMA IterIsItsSteps ==
  ASSUME NEW c, NEW base, NEW s, NEW n \in Nat, NEW g, IsIter(c, base, s, 1 .. n, g)
  PROVE  \E x : /\ x[0] = base /\ \A i \in 1 .. n : x[i] = Step(c, x[i - 1], s[i])
                /\ g[1 .. n] = x[n]
<1> DEFINE x == [i \in 0 .. n |-> g[1 .. i]]
<1>3. x[0] = base
  <2>1. 1 .. 0 = {}
    OBVIOUS
  <2>2. g[{}] = base
    BY DEF IsIter
  <2> QED BY <2>1, <2>2
<1>4. ASSUME NEW i \in 1 .. n PROVE x[i] = Step(c, x[i - 1], s[i])
  <2>1. 1 .. i \in SUBSET (1 .. n) /\ 1 .. i # {} /\ i \in Nat
    OBVIOUS
  <2>2. Max(1 .. i) = i
    <3>1. Max(1 .. i) \in 1 .. i /\ \A j \in 1 .. i : j <= Max(1 .. i)
      BY <2>1, MaxIsLargest
    <3>2. i <= Max(1 .. i)
      BY <3>1, <2>1
    <3> QED BY <3>1, <3>2, <2>1
  <2>3. (1 .. i) \ {i} = 1 .. (i - 1)
    BY <2>1
  <2>4. g[1 .. i] = Step(c, g[(1 .. i) \ {Max(1 .. i)}], s[Max(1 .. i)])
    BY <2>1 DEF IsIter
  <2>5. g[1 .. i] = Step(c, g[1 .. (i - 1)], s[i])
    BY <2>2, <2>3, <2>4
  <2>6. x[i] = g[1 .. i] /\ x[i - 1] = g[1 .. (i - 1)]
    OBVIOUS
  <2> QED BY <2>5, <2>6
<1>5. x[n] = g[1 .. n]
  OBVIOUS
<1> HIDE DEF x
<1> QED BY <1>3, <1>4, <1>5
-----------------------------------------------------------------------------
HandleFields == {"type", "first", "cur", "pos", "size", "write", "dirty"}

(* What no step of a call changes of its handle k.h: a write alone, while  *)
(* k.grows, can make it dirty.                                             *)
HandleOk(h, k) ==
  /\ DOMAIN h = HandleFields
  /\ h.type = k.h.type /\ h.size = k.h.size
  /\ h.pos \in Int /\ h.dirty \in BOOLEAN
  /\ k.h.dirty => h.dirty
  /\ k.grows \/ h.dirty = k.h.dirty

FileOk(x, k) ==
  /\ "v" \in DOMAIN x /\ "h" \in DOMAIN x
  /\ Good(x.v, k) /\ HandleOk(x.h, k)

LoopOk(x, k) == FileOk(x, k) /\ "left" \in DOMAIN x /\ x.left \in Int

Kept(c, k, x) ==
  CASE c[1] \in {"get", "free"} -> Good(x, k)
    [] c[1] = "follow" -> FileOk(x, k)
    [] OTHER -> LoopOk(x, k)

(* What each step keeps, the whole fold keeps.                             *)
LEMMA FoldKeeps ==
  ASSUME NEW c, NEW k, NEW base, NEW s, NEW n \in Int, DOMAIN s = 1 .. n, NEW g,
         IsIter(c, base, s, DOMAIN s, g), Kept(c, k, base),
         \A x : \A i \in 1 .. n : Kept(c, k, x) => Kept(c, k, Step(c, x, s[i]))
  PROVE  Kept(c, k, g[DOMAIN s])
<1>0. PICK m \in Nat : 1 .. n = 1 .. m
  <2>1. CASE n \in Nat
    BY <2>1
  <2>2. CASE n \notin Nat
    <3>1. 1 .. n = 1 .. 0
      BY <2>2
    <3> QED BY <3>1
  <2> QED BY <2>1, <2>2
<1>1. PICK x : /\ x[0] = base /\ \A i \in 1 .. m : x[i] = Step(c, x[i - 1], s[i])
               /\ g[1 .. m] = x[m]
  BY <1>0, IterIsItsSteps
<1> DEFINE T == {i \in Nat : i <= m /\ ~Kept(c, k, x[i])}
<1>2. CASE T = {}
  BY <1>0, <1>1, <1>2
<1>3. CASE T # {}
  <2>1. PICK i \in T : \A j \in T : i <= j
    BY <1>3, LeastNat
  <2>2. i \in Nat /\ i <= m /\ ~Kept(c, k, x[i])
    BY <2>1
  <2>3. i # 0
    BY <1>1, <2>2
  <2>4. i - 1 \in Nat /\ i - 1 <= m /\ i - 1 \notin T /\ i \in 1 .. m
    BY <2>1, <2>2, <2>3
  <2>5. Kept(c, k, x[i - 1])
    BY <2>4
  <2> HIDE DEF T
  <2> QED BY <1>0, <1>1, <2>2, <2>4, <2>5
<1> QED BY <1>2, <1>3

(* FoldLeft's function for each of the folds: it exists, so that the one   *)
(* chosen is one.                                                          *)
LEMMA IterThere ==
  ASSUME NEW c, NEW base, NEW s, NEW n \in Int, DOMAIN s = 1 .. n
  PROVE  \E g : IsIter(c, base, s, DOMAIN s, g)
<1>1. CASE n \in Nat
  BY <1>1, IterExists
<1>2. CASE n \notin Nat
  <2>1. 1 .. n = 1 .. 0
    BY <1>2
  <2> QED BY <2>1, IterExists
<1> QED BY <1>1, <1>2

GetIter(base, s, g) ==
  g = [t \in SUBSET DOMAIN s |-> IF t = {} THEN base ELSE FatGet(g[t \ {Max(t)}], s[Max(t)])]

(* FoldLeft of FatGet is its function's value, and so for the others       *)
(* below.                                                                  *)
LEMMA GetFold ==
  ASSUME NEW v, NEW s, NEW n \in Int, DOMAIN s = 1 .. n
  PROVE  \E g : IsIter(<<"get", 0>>, v, s, DOMAIN s, g) /\ FoldLeft(FatGet, v, s) = g[DOMAIN s]
<1> DEFINE c == <<"get", 0>>
           g == CHOOSE g : GetIter(v, s, g)
<1>1. FoldLeft(FatGet, v, s) = g[DOMAIN s]
  BY DEF FoldLeft, MapThenFoldSet, GetIter
<1>2. \A x, i : Step(c, x, i) = FatGet(x, i)
  BY DEF Step
<1>3. ASSUME NEW d PROVE GetIter(v, s, d) <=> IsIter(c, v, s, DOMAIN s, d)
  <2> HIDE DEF c
  <2> QED BY <1>2 DEF GetIter, IsIter
<1>4. \E d : GetIter(v, s, d)
  <2> HIDE DEF c
  <2> QED BY <1>3, IterThere
<1>5. GetIter(v, s, g)
  BY <1>4
<1> HIDE DEF g
<1> QED BY <1>1, <1>3, <1>5

(* The search for a free cluster, at every length, and at every result of  *)
(* it.                                                                     *)
LEMMA GoodSearched ==
  ASSUME NEW v, NEW k, NEW search, NEW n \in Int, NEW m \in Int, Good(v, k),
         search = [i \in 1 .. m |-> search[i]], n <= m
  PROVE  Good(Searched(v, search, n), k)
<1> DEFINE s == IF n = 0 THEN search ELSE SubSeq(search, 1, n)
<1>1. PICK j \in Int : DOMAIN s = 1 .. j
  OBVIOUS
<1> HIDE DEF s
<1> DEFINE c == <<"get", 0>>
<1>2. PICK g : IsIter(c, v, s, DOMAIN s, g) /\ FoldLeft(FatGet, v, s) = g[DOMAIN s]
  BY <1>1, GetFold
<1>3. ASSUME NEW x, NEW i, Kept(c, k, x) PROVE Kept(c, k, Step(c, x, s[i]))
  BY <1>3, GoodFatGet DEF Kept, Step
<1>4. Kept(c, k, v)
  BY DEF Kept
<1>5. Kept(c, k, g[DOMAIN s])
  <2> HIDE DEF c
  <2> QED BY <1>1, <1>2, <1>3, <1>4, FoldKeeps
<1> QED BY <1>2, <1>5 DEF Kept, Searched, s

LEMMA GoodNextStart ==
  ASSUME NEW v, NEW k, NEW cur, NEW c, Good(v, k)
  PROVE  Good(NextStart(v, cur, c), k)
<1> DEFINE w == NextStart(v, cur, c)
<1>1. /\ DOMAIN w = VolumeFields /\ w.ok = v.ok /\ w.disk = v.disk /\ w.writes = v.writes
      /\ w.blk = v.blk /\ w.buf = v.buf /\ w.dirty = v.dirty /\ w.mirror = v.mirror
  BY DEF NextStart, Good, CacheShape, VolumeFields
<1> HIDE DEF w
<1>2. Good(w, k)
  BY <1>1 DEF Good, CacheShape, DirSeen, Stuck
<1> QED BY <1>2 DEF w

LEMMA GoodAllocCluster ==
  ASSUME NEW v, NEW k, NEW cur, Good(v, k)
  PROVE  Good(AllocCluster(v, cur), k)
<1> DEFINE search == SearchFrom(v, cur)
           n == Tried(v, search)
           seen == Searched(v, search, n)
           c == FoundCluster(v, cur)
<1>1. /\ search = [i \in 1 .. ClusterCount |-> search[i]]
      /\ ClusterCount \in Nat /\ DOMAIN search = 1 .. ClusterCount
  BY VolumeAssumption DEF SearchFrom
<1>2. n \in Int /\ n <= ClusterCount
  <2> HIDE DEF search
  <2>1. Len(search) = ClusterCount
    BY <1>1
  <2> DEFINE I == {i \in 1 .. Len(search) : FatEntry(v, search[i]) = Free}
  <2>2. n = IF I # {} THEN Min(I) ELSE 0
    BY DEF Tried, SelectInSeq
  <2>3. CASE I # {}
    <3>1. I \subseteq Nat
      BY <2>1, <1>1
    <3>2. \E x \in I : \A y \in I : x <= y
      BY <2>3, <3>1, LeastNat
    <3>3. Min(I) \in I
      BY <3>2 DEF Min
    <3> QED BY <2>1, <2>2, <2>3, <3>3, <1>1
  <2>4. CASE I = {}
    BY <2>2, <2>4, <1>1
  <2> QED BY <2>3, <2>4
<1>3. Good(seen, k)
  <2> HIDE DEF search, n
  <2> QED BY <1>1, <1>2, GoodSearched
<1> HIDE DEF search, n, seen, c
<1>4. AllocCluster(v, cur) = IF c = 0 THEN Failed(seen)
                             ELSE NextStart(Link(FatPut(seen, c, EOC), cur, c), cur, c)
  BY DEF AllocCluster, c, search, n, seen
<1>5. CASE c = 0
  BY <1>3, <1>4, <1>5, GoodFailed
<1>6. CASE c # 0
  <2>1. Good(FatPut(seen, c, EOC), k)
    BY <1>3, GoodFatPut
  <2>2. Good(Link(FatPut(seen, c, EOC), cur, c), k)
    BY <2>1, GoodFatPut DEF Link
  <2> QED BY <1>4, <1>6, <2>2, GoodNextStart
<1> QED BY <1>5, <1>6

(* The function that Chain is defined by.                                  *)
IsWalk(v, c, n, walk) ==
  walk = [i \in 0 .. n |->
            IF i = 0 THEN <<c>>
            ELSE IF Last(walk[i - 1]) \in Cluster
                 THEN Append(walk[i - 1], FatEntry(v, Last(walk[i - 1]))) ELSE walk[i - 1]]

(* Chain is a recursive function as well, which exists likewise: its       *)
(* values are sequences that are not empty.                                *)
LEMMA ChainIsLast ==
  ASSUME NEW v, NEW c
  PROVE  Chain(v, c) = (CHOOSE walk : IsWalk(v, c, ClusterCount, walk))[ClusterCount]
BY DEF Chain, IsWalk

LEMMA WalkExists ==
  ASSUME NEW v, NEW c, NEW n \in Nat
  PROVE  \E walk : IsWalk(v, c, n, walk)
<1> DEFINE T == {m \in Nat : ~ \E walk : IsWalk(v, c, m, walk)}
           Next1(path) == IF Last(path) \in Cluster THEN Append(path, FatEntry(v, Last(path))) ELSE path
<1>1. CASE T = {}
  BY <1>1
<1>2. CASE T # {}
  <2>1. PICK m \in T : \A y \in T : m <= y
    BY <1>2, LeastNat
  <2>2. m \in Nat /\ ~ \E walk : IsWalk(v, c, m, walk)
    BY <2>1
  <2>3. CASE m = 0
    <3> DEFINE walk == [i \in 0 .. 0 |-> <<c>>]
               table == [i \in 0 .. 0 |-> IF i = 0 THEN <<c>> ELSE Next1(walk[i - 1])]
    <3>1. walk = table
      OBVIOUS
    <3>2. IsWalk(v, c, 0, walk)
      BY <3>1 DEF IsWalk
    <3> QED BY <2>2, <2>3, <3>2
  <2>4. CASE m # 0
    <3>1. m - 1 \in Nat /\ m - 1 \notin T
      BY <2>1, <2>2, <2>4
    <3>2. PICK walk : IsWalk(v, c, m - 1, walk)
      BY <3>1
    <3> HIDE DEF T
    <3> DEFINE new == [i \in 0 .. m |-> IF i = m THEN Next1(walk[m - 1]) ELSE walk[i]]
               table == [i \in 0 .. m |-> IF i = 0 THEN <<c>> ELSE Next1(new[i - 1])]
    <3>3. ASSUME NEW i \in 0 .. m PROVE new[i] = table[i]
      <4> HIDE DEF Next1
      <4>1. CASE i = m
        <5>1. i # 0 /\ i - 1 \in 0 .. m /\ i - 1 # m /\ new[i - 1] = walk[m - 1]
          BY <2>2, <2>4, <4>1
        <5> QED BY <4>1, <5>1
      <4>2. CASE i # m
        <5>1. i \in 0 .. m - 1
          BY <2>2, <4>2
        <5>2. walk[i] = IF i = 0 THEN <<c>> ELSE Next1(walk[i - 1])
          BY <3>2, <5>1 DEF IsWalk, Next1
        <5>3. i # 0 => i - 1 \in 0 .. m /\ i - 1 # m /\ new[i - 1] = walk[i - 1]
          BY <2>2, <5>1
        <5> QED BY <4>2, <5>2, <5>3
      <4> QED BY <4>1, <4>2
    <3>4. new = table
      <4> HIDE DEF Next1
      <4>1. new = [i \in 0 .. m |-> new[i]] /\ table = [i \in 0 .. m |-> table[i]]
        OBVIOUS
      <4> HIDE DEF new, table
      <4> QED BY <3>3, <4>1
    <3>5. IsWalk(v, c, m, new)
      <4> HIDE DEF new
      <4> QED BY <3>4 DEF IsWalk
    <3> HIDE DEF new
    <3> QED BY <2>2, <3>5
  <2> QED BY <2>3, <2>4
<1> QED BY <1>1, <1>2

LEMMA ChainIsSeq ==
  ASSUME NEW v, NEW c
  PROVE  \E S : Chain(v, c) \in Seq(S) /\ Chain(v, c) # <<>>
<1> DEFINE walk == CHOOSE walk : IsWalk(v, c, ClusterCount, walk)
           S == {c} \cup {FatEntry(v, d) : d \in Cluster}
           T == {i \in Nat : i <= ClusterCount /\ ~(walk[i] \in Seq(S) /\ walk[i] # <<>>)}
<1>0. ClusterCount \in Nat
  BY VolumeAssumption
<1>1. IsWalk(v, c, ClusterCount, walk)
  <2>1. \E w : IsWalk(v, c, ClusterCount, w)
    BY <1>0, WalkExists
  <2> QED BY <2>1
<1>2. Chain(v, c) = walk[ClusterCount]
  BY ChainIsLast
<1> HIDE DEF walk
<1>3. CASE T = {}
  <2>1. ClusterCount \notin T
    BY <1>3
  <2>2. walk[ClusterCount] \in Seq(S) /\ walk[ClusterCount] # <<>>
    BY <1>0, <2>1
  <2> HIDE DEF S, T
  <2> QED BY <1>2, <2>2
<1>4. CASE T # {}
  <2>1. PICK i \in T : \A j \in T : i <= j
    BY <1>4, LeastNat
  <2>2. i \in Nat /\ i <= ClusterCount /\ ~(walk[i] \in Seq(S) /\ walk[i] # <<>>)
    BY <2>1
  <2>3. CASE i = 0
    <3>1. walk[0] = <<c>>
      BY <1>0, <1>1 DEF IsWalk
    <3>2. c \in S
      OBVIOUS
    <3> HIDE DEF S, T
    <3> QED BY <2>2, <2>3, <3>1, <3>2
  <2>4. CASE i # 0
    <3>1. i - 1 \in Nat /\ i - 1 <= ClusterCount /\ i - 1 \notin T /\ i \in 0 .. ClusterCount
      BY <2>1, <2>2, <2>4, <1>0
    <3>2. walk[i - 1] \in Seq(S) /\ walk[i - 1] # <<>>
      BY <3>1
    <3>3. walk[i] = IF Last(walk[i - 1]) \in Cluster
                    THEN Append(walk[i - 1], FatEntry(v, Last(walk[i - 1]))) ELSE walk[i - 1]
      BY <1>1, <2>4, <3>1 DEF IsWalk
    <3>4. Last(walk[i - 1]) \in Cluster => FatEntry(v, Last(walk[i - 1])) \in S
      OBVIOUS
    <3> HIDE DEF S, T
    <3> QED BY <2>2, <3>2, <3>3, <3>4
  <2> QED BY <2>3, <2>4
<1> QED BY <1>3, <1>4

FreeIter(base, s, g) ==
  g = [t \in SUBSET DOMAIN s |->
         IF t = {} THEN base ELSE FatPut(g[t \ {Max(t)}], s[Max(t)], Free)]

LEMMA FreeFold ==
  ASSUME NEW v, NEW s, NEW n \in Int, DOMAIN s = 1 .. n
  PROVE  \E g : /\ IsIter(<<"free", 0>>, v, s, DOMAIN s, g)
                /\ FoldLeft(LAMBDA w, d : FatPut(w, d, Free), v, s) = g[DOMAIN s]
<1> DEFINE c == <<"free", 0>>
           g == CHOOSE g : FreeIter(v, s, g)
<1>1. FoldLeft(LAMBDA w, d : FatPut(w, d, Free), v, s) = g[DOMAIN s]
  BY DEF FoldLeft, MapThenFoldSet, FreeIter
<1>2. \A x, i : Step(c, x, i) = FatPut(x, i, Free)
  BY DEF Step
<1>3. ASSUME NEW d PROVE FreeIter(v, s, d) <=> IsIter(c, v, s, DOMAIN s, d)
  <2> HIDE DEF c
  <2> QED BY <1>2 DEF FreeIter, IsIter
<1>4. \E d : FreeIter(v, s, d)
  <2> HIDE DEF c
  <2> QED BY <1>3, IterThere
<1>5. FreeIter(v, s, g)
  BY <1>4
<1> HIDE DEF g
<1> QED BY <1>1, <1>3, <1>5

(* Freeing a chain of clusters, however long.                              *)
LEMMA GoodFreeChain ==
  ASSUME NEW v, NEW k, NEW e, Good(v, k)
  PROVE  Good(FreeChain(v, e), k)
<1> DEFINE s == Front(Chain(v, e))
           c == <<"free", 0>>
           base == [v EXCEPT !.start = 2]
           freed == FoldLeft(LAMBDA w, d : FatPut(w, d, Free), base, s)
<1>1. PICK j \in Int : DOMAIN s = 1 .. j
  <2>1. PICK S : Chain(v, e) \in Seq(S) /\ Chain(v, e) # <<>>
    BY ChainIsSeq
  <2> QED BY <2>1 DEF Front
<1>2. Good(base, k)
  <2>1. /\ DOMAIN base = VolumeFields /\ base.ok = v.ok /\ base.disk = v.disk
        /\ base.writes = v.writes /\ base.blk = v.blk /\ base.buf = v.buf
        /\ base.dirty = v.dirty /\ base.mirror = v.mirror
    BY DEF Good, CacheShape, VolumeFields
  <2> HIDE DEF base
  <2> QED BY <2>1 DEF Good, CacheShape, DirSeen, Stuck
<1>3. FreeChain(v, e) = IF Last(Chain(v, e)) = EOC THEN freed ELSE Failed(freed)
  BY DEF FreeChain
<1> HIDE DEF s, base
<1>4. PICK g : /\ IsIter(c, base, s, DOMAIN s, g) /\ freed = g[DOMAIN s]
  BY <1>1, FreeFold
<1>5. ASSUME NEW x, NEW i, Kept(c, k, x) PROVE Kept(c, k, Step(c, x, s[i]))
  BY <1>5, GoodFatPut DEF Kept, Step
<1>6. Kept(c, k, base)
  BY <1>2 DEF Kept
<1>7. Kept(c, k, g[DOMAIN s])
  <2> HIDE DEF c, freed
  <2> QED BY <1>1, <1>4, <1>5, <1>6, FoldKeeps
<1>8. Good(freed, k)
  BY <1>4, <1>7 DEF Kept
<1> HIDE DEF freed
<1> QED BY <1>3, <1>8, GoodFailed
-----------------------------------------------------------------------------
(* x with another volume, or another cluster, is as it was otherwise.      *)
LEMMA OtherVolume ==
  ASSUME NEW x, NEW k, NEW w, FileOk(x, k), Good(w, k)
  PROVE  /\ FileOk([x EXCEPT !.v = w], k)
         /\ [x EXCEPT !.v = w].v = w /\ [x EXCEPT !.v = w].h = x.h
         /\ LoopOk(x, k) => LoopOk([x EXCEPT !.v = w], k)
BY DEF FileOk, LoopOk

LEMMA OtherCluster ==
  ASSUME NEW x, NEW k, NEW c, FileOk(x, k)
  PROVE  /\ FileOk([x EXCEPT !.h.cur = c], k)
         /\ [x EXCEPT !.h.cur = c].v = x.v
         /\ LoopOk(x, k) => LoopOk([x EXCEPT !.h.cur = c], k)
<1> DEFINE y == [x EXCEPT !.h.cur = c]
<1>1. /\ DOMAIN y = DOMAIN x /\ y.v = x.v /\ y.h = [x.h EXCEPT !.cur = c]
      /\ "left" \in DOMAIN x => y.left = x.left
  BY DEF FileOk
<1> HIDE DEF y
<1>2. HandleOk([x.h EXCEPT !.cur = c], k)
  BY DEF FileOk, HandleOk, HandleFields
<1>3. FileOk(y, k) /\ (LoopOk(x, k) => LoopOk(y, k)) /\ y.v = x.v
  BY <1>1, <1>2 DEF FileOk, LoopOk
<1> QED BY <1>3 DEF y

LEMMA OtherPosition ==
  ASSUME NEW x, NEW k, NEW pos \in Int, FileOk(x, k)
  PROVE  /\ FileOk([x EXCEPT !.h.pos = pos], k)
         /\ [x EXCEPT !.h.pos = pos].v = x.v
<1> DEFINE y == [x EXCEPT !.h.pos = pos]
<1>1. DOMAIN y = DOMAIN x /\ y.v = x.v /\ y.h = [x.h EXCEPT !.pos = pos]
  BY DEF FileOk
<1> HIDE DEF y
<1>2. HandleOk([x.h EXCEPT !.pos = pos], k)
  BY DEF FileOk, HandleOk, HandleFields
<1>3. FileOk(y, k) /\ y.v = x.v
  BY <1>1, <1>2 DEF FileOk
<1> QED BY <1>3 DEF y

(* One lemma for each step of SdFile: the volume stays good and the handle *)
(* remains one.                                                            *)
LEMMA OkFollowLink ==
  ASSUME NEW x, NEW k, NEW i, FileOk(x, k)
  PROVE  FileOk(FollowLink(x, i), k) /\ (LoopOk(x, k) => LoopOk(FollowLink(x, i), k))
<1> DEFINE w == FatGet(x.v, x.h.cur)
           y == [x EXCEPT !.v = w]
<1>1. Good(w, k)
  BY GoodFatGet DEF FileOk
<1> HIDE DEF w
<1>2. FileOk(y, k) /\ (LoopOk(x, k) => LoopOk(y, k)) /\ y.h = x.h
  BY <1>1, OtherVolume
<1>3. [x EXCEPT !.v = w, !.h.cur = FatEntry(w, @)] = [y EXCEPT !.h.cur = FatEntry(w, x.h.cur)]
  BY DEF FileOk
<1>4. FollowLink(x, i) = IF w.ok THEN [y EXCEPT !.h.cur = FatEntry(w, x.h.cur)] ELSE y
  BY <1>3 DEF FollowLink, Followed, w
<1> HIDE DEF y
<1> QED BY <1>2, <1>4, OtherCluster

FollowIter(base, s, g) ==
  g = [t \in SUBSET DOMAIN s |-> IF t = {} THEN base ELSE FollowLink(g[t \ {Max(t)}], s[Max(t)])]

LEMMA FollowFold ==
  ASSUME NEW x, NEW s, NEW n \in Int, DOMAIN s = 1 .. n
  PROVE  \E g : /\ IsIter(<<"follow", 0>>, x, s, DOMAIN s, g)
                /\ FoldLeft(FollowLink, x, s) = g[DOMAIN s]
<1> DEFINE c == <<"follow", 0>>
           g == CHOOSE g : FollowIter(x, s, g)
<1>1. FoldLeft(FollowLink, x, s) = g[DOMAIN s]
  BY DEF FoldLeft, MapThenFoldSet, FollowIter
<1>2. \A y, i : Step(c, y, i) = FollowLink(y, i)
  BY DEF Step
<1>3. ASSUME NEW d PROVE FollowIter(x, s, d) <=> IsIter(c, x, s, DOMAIN s, d)
  <2> HIDE DEF c
  <2> QED BY <1>2 DEF FollowIter, IsIter
<1>4. \E d : FollowIter(x, s, d)
  <2> HIDE DEF c
  <2> QED BY <1>3, IterThere
<1>5. FollowIter(x, s, g)
  BY <1>4
<1> HIDE DEF g
<1> QED BY <1>1, <1>3, <1>5

LEMMA OkSoughtFrom ==
  ASSUME NEW x, NEW k, NEW links \in Int, NEW pos \in Int, FileOk(x, k)
  PROVE  FileOk(SoughtFrom(x, links, pos), k)
<1> DEFINE s == [i \in 1 .. links |-> i]
           c == <<"follow", 0>>
           there == FoldLeft(FollowLink, x, s)
<1>1. DOMAIN s = 1 .. links
  OBVIOUS
<1>2. SoughtFrom(x, links, pos) = IF there.v.ok THEN [there EXCEPT !.h.pos = pos] ELSE there
  BY DEF SoughtFrom
<1> HIDE DEF s
<1>3. PICK g : IsIter(c, x, s, DOMAIN s, g) /\ there = g[DOMAIN s]
  BY <1>1, FollowFold
<1>4. ASSUME NEW y, NEW i, Kept(c, k, y) PROVE Kept(c, k, Step(c, y, s[i]))
  BY <1>4, OkFollowLink DEF Kept, Step
<1>5. Kept(c, k, x)
  BY DEF Kept
<1>6. Kept(c, k, g[DOMAIN s])
  <2> HIDE DEF c, there
  <2> QED BY <1>1, <1>3, <1>4, <1>5, FoldKeeps
<1>7. FileOk(there, k)
  BY <1>3, <1>6 DEF Kept
<1> HIDE DEF there
<1> QED BY <1>2, <1>7, OtherPosition

LEMMA ClusterIndexIsInt ==
  ASSUME NEW pos \in Int
  PROVE  ClusterIndex(pos) \in Int
<1>1. ClusterSize \in Nat /\ ClusterSize > 0
  <2>1. \A a, b \in Nat : a > 0 /\ b > 0 => a * b \in Nat /\ a * b > 0
    OBVIOUS
  <2> QED BY <2>1, VolumeAssumption DEF ClusterSize
<1> HIDE DEF ClusterSize
<1> QED BY <1>1 DEF ClusterIndex

LEMMA OkSeekInFile ==
  ASSUME NEW x, NEW k, NEW pos \in Int, FileOk(x, k)
  PROVE  FileOk(SeekInFile(x, pos), k)
<1>0. x.h.pos \in Int
  BY DEF FileOk, HandleOk
<1>1. CASE pos = 0
  <2> DEFINE y == [x EXCEPT !.h.pos = 0]
  <2>1. FileOk(y, k)
    BY OtherPosition
  <2>2. [x EXCEPT !.h.pos = 0, !.h.cur = 0] = [y EXCEPT !.h.cur = 0]
    BY DEF FileOk
  <2> HIDE DEF y
  <2> QED BY <1>1, <2>1, <2>2, OtherCluster DEF SeekInFile
<1>2. CASE pos # 0 /\ FromFirst(x.h, pos)
  <2>1. FileOk([x EXCEPT !.h.cur = x.h.first], k)
    BY OtherCluster
  <2>2. FileOk(SoughtFrom([x EXCEPT !.h.cur = x.h.first], ClusterIndex(pos), pos), k)
    BY <2>1, OkSoughtFrom, ClusterIndexIsInt
  <2> QED BY <1>2, <2>2 DEF SeekInFile
<1>3. CASE pos # 0 /\ ~FromFirst(x.h, pos)
  <2>1. ClusterIndex(pos) - ClusterIndex(x.h.pos) \in Int
    BY <1>0, ClusterIndexIsInt
  <2>2. FileOk(SoughtFrom(x, ClusterIndex(pos) - ClusterIndex(x.h.pos), pos), k)
    BY <2>1, OkSoughtFrom
  <2> QED BY <1>3, <2>2 DEF SeekInFile
<1> QED BY <1>1, <1>2, <1>3
-----------------------------------------------------------------------------
LEMMA OkChained ==
  ASSUME NEW x, NEW k, NEW c, LoopOk(x, k), k.grows
  PROVE  LoopOk(Chained(x, c), k)
<1> DEFINE y == [x EXCEPT !.h.cur = c, !.h.first = IF @ = 0 THEN c ELSE @,
                          !.h.dirty = @ \/ x.h.first = 0]
           h == [x.h EXCEPT !.cur = c, !.first = IF @ = 0 THEN c ELSE @,
                            !.dirty = @ \/ x.h.first = 0]
<1>1. DOMAIN y = DOMAIN x /\ y.v = x.v /\ y.h = h /\ y.left = x.left
  BY DEF LoopOk, FileOk, HandleOk, HandleFields
<1>2. /\ DOMAIN h = HandleFields /\ h.type = x.h.type /\ h.size = x.h.size /\ h.pos = x.h.pos
      /\ h.dirty = (x.h.dirty \/ x.h.first = 0)
  BY DEF LoopOk, FileOk, HandleOk, HandleFields
<1> HIDE DEF y, h
<1>3. HandleOk(h, k)
  BY <1>2 DEF LoopOk, FileOk, HandleOk
<1>4. LoopOk(y, k)
  BY <1>1, <1>3 DEF LoopOk, FileOk
<1> QED BY <1>4 DEF Chained, y

(* A new cluster is chained while a file grows.                            *)
LEMMA OkAddCluster ==
  ASSUME NEW x, NEW k, LoopOk(x, k), k.grows
  PROVE  LoopOk(AddCluster(x), k)
<1>1. Good(AllocCluster(x.v, x.h.cur), k)
  BY GoodAllocCluster DEF LoopOk, FileOk
<1>2. LoopOk([x EXCEPT !.v = AllocCluster(x.v, x.h.cur)], k)
  BY <1>1, OtherVolume DEF LoopOk
<1> QED BY <1>2, OkChained DEF AddCluster

LEMMA OkNextCluster ==
  ASSUME NEW x, NEW k, LoopOk(x, k), k.grows
  PROVE  LoopOk(NextCluster(x), k)
<1>1. CASE x.h.cur # 0
  <2> DEFINE y == [x EXCEPT !.v = FatGet(x.v, x.h.cur)]
             next == FatEntry(x.v, x.h.cur)
  <2>1. LoopOk(y, k)
    BY GoodFatGet, OtherVolume DEF LoopOk, FileOk
  <2> HIDE DEF y, next
  <2>2. LoopOk(LinkedOrNew(y, next), k)
    BY <2>1, OkAddCluster, OtherCluster DEF LinkedOrNew, LoopOk
  <2> QED BY <1>1, <2>2 DEF NextCluster, y, next
<1>2. CASE x.h.cur = 0
  BY <1>2, OkAddCluster, OtherCluster DEF NextCluster, LoopOk
<1> QED BY <1>1, <1>2

LEMMA ChunkIsInt ==
  ASSUME NEW pos \in Int, NEW left \in Int
  PROVE  Smaller(BlockSize - Offset(pos), left) \in Int
<1>1. Offset(pos) \in Int
  BY VolumeAssumption DEF Offset
<1> QED BY <1>1, VolumeAssumption DEF Smaller

LEMMA OkMoved ==
  ASSUME NEW x, NEW k, NEW n \in Int, LoopOk(x, k)
  PROVE  LoopOk(Moved(x, n), k)
<1> DEFINE y == [x EXCEPT !.h.pos = @ + n, !.left = @ - n]
           h == [x.h EXCEPT !.pos = @ + n]
<1>1. DOMAIN y = DOMAIN x /\ y.v = x.v /\ y.h = h /\ y.left = x.left - n
  BY DEF LoopOk, FileOk
<1>2. /\ DOMAIN h = HandleFields /\ h.type = x.h.type /\ h.size = x.h.size
      /\ h.pos = x.h.pos + n /\ h.dirty = x.h.dirty
  BY DEF LoopOk, FileOk, HandleOk, HandleFields
<1> HIDE DEF y, h
<1>3. HandleOk(h, k)
  BY <1>2 DEF LoopOk, FileOk, HandleOk
<1>4. LoopOk(y, k)
  BY <1>1, <1>3 DEF LoopOk, FileOk
<1> QED BY <1>4 DEF Moved, y

LEMMA OkWriteChunk ==
  ASSUME NEW x, NEW k, NEW f, LoopOk(x, k)
  PROVE  LoopOk(WriteChunk(x, f), k)
<1> DEFINE n == Smaller(BlockSize - Offset(x.h.pos), x.left)
           block == DataBlock(x.h.cur, BlockOfCluster(x.h.pos))
           w == PutInBlock(x.v, x.h, f, n, block)
<1>1. n \in Int
  BY ChunkIsInt DEF LoopOk, FileOk, HandleOk
<1>2. block[1] = "data"
  BY BlocksAreTagged DEF BlockFacts
<1>3. WriteChunk(x, f) = IF ~x.v.ok THEN x ELSE Moved([x EXCEPT !.v = w], n)
  BY DEF WriteChunk, PutChunk
<1> HIDE DEF n, block
<1>4. Good(w, k)
  BY <1>2, GoodPutInBlock DEF LoopOk, FileOk
<1> HIDE DEF w
<1>5. LoopOk([x EXCEPT !.v = w], k)
  BY <1>4, OtherVolume DEF LoopOk
<1> QED BY <1>1, <1>3, <1>5, OkMoved

(* One round of the loop of write.                                         *)
WriteStep(x, f) == IF ~x.v.ok \/ x.left = 0 THEN x ELSE WriteChunk(AtCluster(x), f)

LEMMA OkWriteStep ==
  ASSUME NEW x, NEW k, NEW f, LoopOk(x, k), k.grows
  PROVE  LoopOk(WriteStep(x, f), k)
<1>1. LoopOk(AtCluster(x), k)
  BY OkNextCluster DEF AtCluster
<1> QED BY <1>1, OkWriteChunk DEF WriteStep

WriteIter(base, f, s, g) ==
  g = [t \in SUBSET DOMAIN s |->
         IF t = {} THEN base
         ELSE IF ~(g[t \ {Max(t)}]).v.ok \/ (g[t \ {Max(t)}]).left = 0 THEN g[t \ {Max(t)}]
              ELSE WriteChunk(AtCluster(g[t \ {Max(t)}]), f)]

WriteFolded(x, f, s) ==
  FoldLeft(LAMBDA y, i : IF ~y.v.ok \/ y.left = 0 THEN y ELSE WriteChunk(AtCluster(y), f), x, s)

LEMMA WriteFold ==
  ASSUME NEW x, NEW f, NEW s, NEW n \in Int, DOMAIN s = 1 .. n
  PROVE  \E g : IsIter(<<"write", f>>, x, s, DOMAIN s, g) /\ WriteFolded(x, f, s) = g[DOMAIN s]
<1> DEFINE c == <<"write", f>>
           g == CHOOSE g : WriteIter(x, f, s, g)
<1>1. WriteFolded(x, f, s) = g[DOMAIN s]
  BY DEF WriteFolded, FoldLeft, MapThenFoldSet, WriteIter
<1>2. \A y, i : Step(c, y, i) = IF ~y.v.ok \/ y.left = 0 THEN y ELSE WriteChunk(AtCluster(y), f)
  BY DEF Step
<1>3. ASSUME NEW d PROVE WriteIter(x, f, s, d) <=> IsIter(c, x, s, DOMAIN s, d)
  <2> HIDE DEF c
  <2> QED BY <1>2 DEF WriteIter, IsIter
<1>4. \E d : WriteIter(x, f, s, d)
  <2> HIDE DEF c
  <2> QED BY <1>3, IterThere
<1>5. WriteIter(x, f, s, g)
  BY <1>4
<1> HIDE DEF g
<1> QED BY <1>1, <1>3, <1>5

(* What the loop of write ends with.                                       *)
WriteLoop(v, h, f, n) == WriteFolded([v |-> v, h |-> h, left |-> n], f, [i \in 1 .. n |-> i])

(* The loop of write, for any number of bytes.                             *)
LEMMA OkWriteLoop ==
  ASSUME NEW v, NEW h, NEW f, NEW k, NEW n \in Int, Good(v, k), HandleOk(h, k), k.grows
  PROVE  LoopOk(WriteLoop(v, h, f, n), k)
<1> DEFINE s == [i \in 1 .. n |-> i]
           c == <<"write", f>>
           base == [v |-> v, h |-> h, left |-> n]
<1>1. DOMAIN s = 1 .. n
  OBVIOUS
<1>2. LoopOk(base, k)
  BY DEF LoopOk, FileOk
<1>3. PICK g : IsIter(c, base, s, DOMAIN s, g) /\ WriteLoop(v, h, f, n) = g[DOMAIN s]
  <2>1. WriteLoop(v, h, f, n) = WriteFolded(base, f, s)
    BY DEF WriteLoop
  <2> HIDE DEF base, s
  <2>2. \E g : IsIter(c, base, s, DOMAIN s, g) /\ WriteFolded(base, f, s) = g[DOMAIN s]
    BY <1>1, WriteFold
  <2> HIDE DEF c
  <2> QED BY <2>1, <2>2
<1> HIDE DEF s, base
<1>4. ASSUME NEW y, NEW i, Kept(c, k, y) PROVE Kept(c, k, Step(c, y, s[i]))
  <2>1. Step(c, y, s[i]) = WriteStep(y, f)
    BY DEF Step, WriteStep
  <2> QED BY <1>4, <2>1, OkWriteStep DEF Kept
<1>5. Kept(c, k, base)
  BY <1>2 DEF Kept
<1>6. Kept(c, k, g[DOMAIN s])
  <2> HIDE DEF c
  <2> QED BY <1>1, <1>3, <1>4, <1>5, FoldKeeps
<1> QED BY <1>3, <1>6 DEF Kept
-----------------------------------------------------------------------------
LEMMA OkGot ==
  ASSUME NEW x, NEW k, NEW w, NEW content, NEW n \in Int, LoopOk(x, k), Good(w, k)
  PROVE  LoopOk(Got(x, w, content, n), k)
<1>1. CASE ~w.ok
  BY <1>1, OtherVolume DEF Got, LoopOk
<1>2. CASE w.ok
  <2> DEFINE h == [x.h EXCEPT !.pos = @ + n]
             bytes == x.got \o [i \in 1 .. n |-> content[Offset(x.h.pos) + i - 1]]
             y == [v |-> w, h |-> h, left |-> x.left - n, got |-> bytes]
  <2>1. /\ DOMAIN h = HandleFields /\ h.type = x.h.type /\ h.size = x.h.size
        /\ h.pos = x.h.pos + n /\ h.dirty = x.h.dirty
    BY DEF LoopOk, FileOk, HandleOk, HandleFields
  <2> HIDE DEF h, bytes
  <2>2. HandleOk(h, k)
    BY <2>1 DEF LoopOk, FileOk, HandleOk
  <2>3. LoopOk(y, k)
    BY <2>2 DEF LoopOk, FileOk
  <2> HIDE DEF y
  <2> QED BY <1>2, <2>3 DEF Got, y, h, bytes
<1> QED BY <1>1, <1>2

LEMMA OkReadChunk ==
  ASSUME NEW x, NEW k, LoopOk(x, k)
  PROVE  LoopOk(ReadChunk(x), k)
<1> DEFINE n == Smaller(BlockSize - Offset(x.h.pos), x.left)
           block == DataBlock(x.h.cur, BlockOfCluster(x.h.pos))
<1>1. n \in Int
  BY ChunkIsInt DEF LoopOk, FileOk, HandleOk
<1>2. block[1] = "data"
  BY BlocksAreTagged DEF BlockFacts
<1> HIDE DEF n, block
<1>3. Good(ReadBlock(x.v, block), k)
  BY GoodFailed DEF LoopOk, FileOk, ReadBlock
<1>4. Good(CacheRawBlock(x.v, block), k)
  BY <1>2, GoodCacheRawBlock DEF LoopOk, FileOk
<1>5. LoopOk(Got(x, ReadBlock(x.v, block), x.v.disk[block], n), k)
  BY <1>1, <1>3, OkGot
<1>6. LoopOk(GotCached(x, CacheRawBlock(x.v, block), n), k)
  BY <1>1, <1>4, OkGot DEF GotCached
<1>7. ReadChunk(x) = GotFromBlock(x, block, n)
  BY DEF ReadChunk, n, block
<1> QED BY <1>5, <1>6, <1>7 DEF GotFromBlock

(* One round of the loop of read.                                          *)
ReadStep(x) == IF ~x.v.ok \/ x.left = 0 THEN x ELSE ReadChunk(ToRead(x))

LEMMA OkReadStep ==
  ASSUME NEW x, NEW k, LoopOk(x, k)
  PROVE  LoopOk(ReadStep(x), k)
<1>1. LoopOk(ToRead(x), k)
  BY OkFollowLink, OtherCluster DEF ToRead, LoopOk
<1> QED BY <1>1, OkReadChunk DEF ReadStep

ReadIter(base, s, g) ==
  g = [t \in SUBSET DOMAIN s |->
         IF t = {} THEN base
         ELSE IF ~(g[t \ {Max(t)}]).v.ok \/ (g[t \ {Max(t)}]).left = 0 THEN g[t \ {Max(t)}]
              ELSE ReadChunk(ToRead(g[t \ {Max(t)}]))]

LEMMA ReadFold ==
  ASSUME NEW x, NEW s, NEW n \in Int, DOMAIN s = 1 .. n
  PROVE  \E g : /\ IsIter(<<"read", 0>>, x, s, DOMAIN s, g)
                /\ FoldLeft(LAMBDA y, i : IF ~y.v.ok \/ y.left = 0 THEN y
                                          ELSE ReadChunk(ToRead(y)), x, s) = g[DOMAIN s]
<1> DEFINE c == <<"read", 0>>
           g == CHOOSE g : ReadIter(x, s, g)
<1>1. FoldLeft(LAMBDA y, i : IF ~y.v.ok \/ y.left = 0 THEN y
                             ELSE ReadChunk(ToRead(y)), x, s) = g[DOMAIN s]
  BY DEF FoldLeft, MapThenFoldSet, ReadIter
<1>2. \A y, i : Step(c, y, i) = IF ~y.v.ok \/ y.left = 0 THEN y ELSE ReadChunk(ToRead(y))
  BY DEF Step
<1>3. ASSUME NEW d PROVE ReadIter(x, s, d) <=> IsIter(c, x, s, DOMAIN s, d)
  <2> HIDE DEF c
  <2> QED BY <1>2 DEF ReadIter, IsIter
<1>4. \E d : ReadIter(x, s, d)
  <2> HIDE DEF c
  <2> QED BY <1>3, IterThere
<1>5. ReadIter(x, s, g)
  BY <1>4
<1> HIDE DEF g
<1> QED BY <1>1, <1>3, <1>5

(* The loop of read, for any number of bytes.                              *)
LEMMA OkReadFile ==
  ASSUME NEW v, NEW h, NEW k, NEW n \in Int, Good(v, k), HandleOk(h, k), h.size \in Int
  PROVE  LoopOk(ReadFile(v, h, n), k)
<1> DEFINE s == [i \in 1 .. n |-> i]
           c == <<"read", 0>>
           base == [v |-> v, h |-> h, left |-> ToBeRead(h, n), got |-> <<>>]
<1>1. DOMAIN s = 1 .. n
  OBVIOUS
<1>2. LoopOk(base, k)
  <2>1. ToBeRead(h, n) \in Int
    BY DEF ToBeRead, Smaller, HandleOk
  <2> QED BY <2>1 DEF LoopOk, FileOk
<1> HIDE DEF s, base
<1>3. PICK g : IsIter(c, base, s, DOMAIN s, g) /\ ReadFile(v, h, n) = g[DOMAIN s]
  BY <1>1, ReadFold DEF ReadFile, s, base
<1>4. ASSUME NEW y, NEW i, Kept(c, k, y) PROVE Kept(c, k, Step(c, y, s[i]))
  <2>1. Step(c, y, s[i]) = ReadStep(y)
    BY DEF Step, ReadStep
  <2> QED BY <1>4, <2>1, OkReadStep DEF Kept
<1>5. Kept(c, k, base)
  BY <1>2 DEF Kept
<1>6. Kept(c, k, g[DOMAIN s])
  <2> HIDE DEF c
  <2> QED BY <1>1, <1>3, <1>4, <1>5, FoldKeeps
<1> QED BY <1>3, <1>6 DEF Kept

LEMMA OkBackByOne ==
  ASSUME NEW x, NEW k, LoopOk(x, k)
  PROVE  FileOk(BackByOne(x), k)
<1>1. x.h.pos - 1 \in Int
  BY DEF LoopOk, FileOk, HandleOk
<1> QED BY <1>1, OkSeekInFile DEF BackByOne, LoopOk
-----------------------------------------------------------------------------
(* What two calls must have in common for their volumes to be the same.    *)
SameCall(k, j) == k.bound = j.bound /\ k.agree = j.agree /\ k.stuck = j.stuck

(* The entry of f in the cached directory becomes e, which is no shorter   *)
(* than what is durable of f.                                              *)
LEMMA SetEntry ==
  ASSUME NEW d, NEW k, NEW j, NEW f \in Names, NEW e, Good(d, k), d.ok, d.blk = DirBlock,
         e.size \in Nat, e.size >= k.bound[f], ~e.used => e.size = 0,
         SameCall(k, j), j.dir = [k.dir EXCEPT ![f] = e]
  PROVE  LET w == SetCached(d, f, e)
         IN  Good(w, j) /\ w.ok /\ w.dirty /\ w.blk = DirBlock
<1> DEFINE w == SetCached(d, f, e)
<1>1. Changed(w, d, f, e)
  BY SetCachedChanges DEF Good, CacheShape
<1> HIDE DEF w
<1>2. DirBlock \in Blocks /\ DirBlock \notin FatBlocks
  BY BlocksAreTagged DEF BlockFacts
<1>3. CacheShape(w)
  BY <1>1, <1>2 DEF Changed, CacheShape, Good
<1>4. DirSeen(w) = j.dir
  BY <1>1 DEF Changed, DirSeen, Good
<1>5. DirOk(j.dir, j.bound)
  BY DEF Good, DirOk, SameCall
<1>6. ~j.stuck
  BY <1>2 DEF Good, Stuck, SameCall
<1>7. DiskOk(w.disk, j.bound) /\ WritesOk(w.writes, j.bound) /\ (j.agree => Agree(w.disk))
  BY <1>1 DEF Changed, Good, SameCall
<1>8. Good(w, j) /\ w.ok /\ w.dirty /\ w.blk = DirBlock
  BY <1>1, <1>3, <1>4, <1>5, <1>6, <1>7 DEF Good, Changed
<1> QED BY <1>8 DEF w

LEMMA FlushKeepsBlock ==
  ASSUME NEW v, CacheShape(v), v.ok, ~Stuck(v)
  PROVE  LET w == CacheFlush(v) IN w.ok /\ w.blk = v.blk /\ w.buf = v.buf /\ ~w.dirty
<1>1. CASE ~v.dirty
  BY <1>1, FlushOfNothing DEF CacheShape
<1>2. CASE v.dirty /\ v.blk \in Blocks
  BY <1>2, FlushWrites DEF FlushedTo
<1> QED BY <1>1, <1>2 DEF Stuck, CacheShape

(* The entry of f becomes e, on the card as well.                          *)
LEMMA SetEntryAndFlush ==
  ASSUME NEW d, NEW k, NEW j, NEW f \in Names, NEW e, Good(d, k), d.ok, d.blk = DirBlock,
         e.size \in Nat, e.size >= k.bound[f], ~e.used => e.size = 0,
         SameCall(k, j), j.dir = [k.dir EXCEPT ![f] = e]
  PROVE  LET w == CacheFlush(SetCached(d, f, e))
         IN  Good(w, j) /\ w.ok /\ w.blk = DirBlock /\ w.buf = j.dir /\ ~Stuck(w)
<1> DEFINE u == SetCached(d, f, e)
<1>1. Good(u, j) /\ u.ok /\ u.dirty /\ u.blk = DirBlock
  BY SetEntry
<1> HIDE DEF u
<1>2. ~Stuck(u) /\ u.buf = j.dir
  BY <1>1, BlocksAreTagged DEF Stuck, BlockFacts, Good, DirSeen
<1>3. Good(CacheFlush(u), j)
  BY <1>1, GoodFlush
<1>4. CacheFlush(u).ok /\ CacheFlush(u).blk = u.blk /\ CacheFlush(u).buf = u.buf /\ ~CacheFlush(u).dirty
  BY <1>1, <1>2, FlushKeepsBlock DEF Good
<1> HIDE DEF u
<1>5. LET w == CacheFlush(u) IN Good(w, j) /\ w.ok /\ w.blk = DirBlock /\ w.buf = j.dir /\ ~Stuck(w)
  BY <1>1, <1>2, <1>3, <1>4 DEF Stuck
<1> QED BY <1>5 DEF u

(* Calls that have these in common and see the same directory.             *)
LEMMA SameGood ==
  ASSUME NEW v, NEW k, NEW j, Good(v, k), SameCall(k, j), j.dir = k.dir
  PROVE  Good(v, j)
BY DEF Good, SameCall

(* The directory comes into the cache unless the cache is stuck.           *)
LEMMA DirLoads ==
  ASSUME NEW v, NEW k, Good(v, k)
  PROVE  LET d == CacheRawBlock(v, DirBlock)
         IN  /\ Good(d, k)
             /\ d.ok => v.ok /\ d.blk = DirBlock /\ d.buf = k.dir
             /\ v.ok /\ ~d.ok => Stuck(v)
<1> DEFINE d == CacheRawBlock(v, DirBlock)
<1>1. DirBlock \in Blocks /\ DirBlock[1] # "mirror"
  BY BlocksAreTagged DEF BlockFacts
<1>2. Good(d, k)
  BY <1>1, GoodCacheRawBlock
<1>3. /\ d.ok => v.ok /\ d.blk = DirBlock
      /\ v.ok /\ ~Stuck(v) => d.ok
  BY <1>1, CacheRawBlockOk DEF Good
<1> HIDE DEF d
<1>4. d.ok => d.buf = k.dir
  BY <1>2, <1>3 DEF Good, DirSeen
<1>5. Good(d, k) /\ (d.ok => v.ok /\ d.blk = DirBlock /\ d.buf = k.dir) /\ (v.ok /\ ~d.ok => Stuck(v))
  BY <1>2, <1>3, <1>4
<1> QED BY <1>5 DEF d
-----------------------------------------------------------------------------
HandleShape(h) == DOMAIN h = HandleFields /\ h.size \in Nat /\ h.pos \in Int /\ h.dirty \in BOOLEAN

(* What write has accepted of a file is within the size that its handle    *)
(* will write to the directory, or that the directory has already.         *)
Covered(v, f, h, a) ==
  IF h.type = "normal" THEN a <= h.size /\ (~h.dirty => h.size = DirSeen(v)[f].size)
  ELSE a <= DirSeen(v)[f].size

FileInv(v, f, h, a, d) ==
  HandleShape(h) /\ a \in Nat /\ d \in Nat /\ d <= a /\ (Stuck(v) \/ Covered(v, f, h, a))

VolumeInv(v, d, n) ==
  /\ CacheShape(v) /\ v.ok /\ v.writes = <<>>
  /\ DiskOk(v.disk, d) /\ DirOk(DirSeen(v), d)
  /\ n = 0 => Agree(v.disk)

SdInv ==
  /\ failures \in Nat /\ VolumeInv(vol, durable, failures)
  /\ DOMAIN handle = Names /\ DOMAIN acked = Names /\ DOMAIN durable = Names
  /\ \A f \in Names : FileInv(vol, f, handle[f], acked[f], durable[f])

(* k is a call of a method of f.                                           *)
CallOf(k, f, h, grows) ==
  /\ k.bound = durable /\ k.dir = DirSeen(vol)
  /\ k.agree <=> failures = 0
  /\ k.stuck <=> Stuck(vol)
  /\ k.h = h /\ k.grows = grows

(* There is such a call, and the invariant is what it begins with.         *)
LEMMA EveryCall ==
  ASSUME NEW f, NEW h, NEW grows \in BOOLEAN
  PROVE  \E k : CallOf(k, f, h, grows)
<1> DEFINE k == [bound |-> durable, dir |-> DirSeen(vol), agree |-> failures = 0,
                 stuck |-> Stuck(vol), h |-> h, grows |-> grows]
<1>1. CallOf(k, f, h, grows)
  BY DEF CallOf
<1> HIDE DEF k
<1> QED BY <1>1

LEMMA CallBegins ==
  ASSUME SdInv, NEW f, NEW h, NEW k, NEW grows, CallOf(k, f, h, grows)
  PROVE  Good(vol, k)
<1>1. WritesOk(<<>>, durable)
  <2> DEFINE S == {}
  <2>1. <<>> \in Seq(S) /\ \A disk \in S : DiskOk(disk, durable)
    OBVIOUS
  <2> HIDE DEF S
  <2> QED BY <2>1 DEF WritesOk
<1> QED BY <1>1 DEF SdInv, VolumeInv, CallOf, Good

LEMMA HandleBegins ==
  ASSUME NEW h, NEW k, HandleShape(h), k.h = h
  PROVE  HandleOk(h, k)
BY DEF HandleShape, HandleOk

(* The volume that a call leaves behind.                                   *)
Returned(v) == [v EXCEPT !.writes = <<>>, !.ok = TRUE]

(* Between calls: nothing is left of the writes of the last one.           *)
LEMMA ReturnedVolume ==
  ASSUME NEW v, NEW k, Good(v, k)
  PROVE  LET w == Returned(v)
         IN  /\ CacheShape(w) /\ w.ok /\ w.writes = <<>>
             /\ DiskOk(w.disk, k.bound) /\ DirOk(k.dir, k.bound) /\ DirSeen(w) = k.dir
             /\ k.agree => Agree(w.disk)
             /\ Stuck(w) <=> Stuck(v)
             /\ k.stuck => Stuck(w)
<1> DEFINE w == Returned(v)
<1>1. /\ DOMAIN w = VolumeFields /\ w.ok = TRUE /\ w.writes = <<>> /\ w.disk = v.disk
      /\ w.blk = v.blk /\ w.buf = v.buf /\ w.dirty = v.dirty /\ w.mirror = v.mirror
  BY DEF Returned, Good, CacheShape, VolumeFields
<1> HIDE DEF w
<1>2. /\ CacheShape(w) /\ w.ok /\ w.writes = <<>>
      /\ DiskOk(w.disk, k.bound) /\ DirOk(k.dir, k.bound) /\ DirSeen(w) = k.dir
      /\ k.agree => Agree(w.disk)
      /\ Stuck(w) <=> Stuck(v)
      /\ k.stuck => Stuck(w)
  BY <1>1 DEF Good, CacheShape, DirSeen, Stuck
<1> QED BY <1>2 DEF w
-----------------------------------------------------------------------------
(* The invariant holds of a formatted card.                                *)
LEMMA InitKeeps ==
  ASSUME Init PROVE SdInv
<1>1. /\ DOMAIN Formatted = Blocks
      /\ Formatted[DirBlock] = [n \in Names |-> Deleted]
      /\ \A b \in FatBlocks : Formatted[MirrorBlock(b)] = Formatted[b]
  BY BlocksAreTagged DEF Formatted, BlockFacts
<1>2. /\ DOMAIN vol = VolumeFields /\ vol.ok /\ vol.ok \in BOOLEAN /\ vol.writes = <<>>
      /\ vol.disk = Formatted /\ vol.blk = BootBlock /\ vol.buf = Formatted[BootBlock]
      /\ ~vol.dirty /\ vol.dirty \in BOOLEAN /\ vol.mirror = NoBlock
  BY DEF Init, Mounted, VolumeFields
<1>3. CacheShape(vol) /\ BootBlock # DirBlock
  BY <1>2, BlocksAreTagged DEF CacheShape, BlockFacts
<1>4. durable = [f \in Names |-> 0] /\ acked = [f \in Names |-> 0] /\ handle = [f \in Names |-> Closed]
      /\ failures = 0
  BY DEF Init
<1>5. /\ DOMAIN [n \in Names |-> Deleted] = Names
      /\ \A f \in Names : [n \in Names |-> Deleted][f].size = 0
  BY DEF Deleted
<1>6. DirOk(Formatted[DirBlock], durable)
  BY <1>1, <1>4, <1>5 DEF DirOk
<1>7. DirSeen(vol) = Formatted[DirBlock]
  BY <1>2, <1>3 DEF DirSeen
<1>8. VolumeInv(vol, durable, failures)
  BY <1>1, <1>2, <1>3, <1>6, <1>7 DEF VolumeInv, DiskOk, Agree
<1>9. HandleShape(Closed) /\ Closed.type = "closed"
  BY DEF HandleShape, Closed, HandleFields
<1>10. ASSUME NEW f \in Names PROVE FileInv(vol, f, handle[f], acked[f], durable[f])
  <2>1. handle[f] = Closed /\ acked[f] = 0 /\ durable[f] = 0 /\ DirSeen(vol)[f].size = 0
    BY <1>1, <1>4, <1>5, <1>7
  <2> QED BY <1>9, <2>1 DEF FileInv, Covered
<1> QED BY <1>4, <1>8, <1>10 DEF SdInv

(* SD.begin after the power has failed: what the invariant says of every   *)
(* disk that the writes led through is enough.                             *)
LEMMA RestartKeeps ==
  ASSUME SdInv, NEW disk, PowerFails(disk), DiskOk(disk, durable'), DOMAIN durable' = Names,
         \A f \in Names : durable'[f] \in Nat
  PROVE  SdInv'
<1>1. vol' = Mounted(disk) /\ handle' = [f \in Names |-> Closed]
      /\ acked' = [f \in Names |-> Entry(disk, f).size] /\ failures' = failures + 1
  BY DEF PowerFails, RestartWith
<1>2. failures' \in Nat /\ failures' # 0
  BY <1>1 DEF SdInv
<1> DEFINE v == Mounted(disk)
<1>3. /\ DOMAIN v = VolumeFields /\ v.ok /\ v.ok \in BOOLEAN /\ v.writes = <<>>
      /\ v.disk = disk /\ v.blk = BootBlock /\ v.buf = disk[BootBlock]
      /\ ~v.dirty /\ v.dirty \in BOOLEAN /\ v.mirror = NoBlock
  BY DEF Mounted, VolumeFields
<1> HIDE DEF v
<1>4. CacheShape(v) /\ BootBlock # DirBlock
  BY <1>3, BlocksAreTagged DEF CacheShape, BlockFacts
<1>5. DirSeen(v) = disk[DirBlock]
  BY <1>3, <1>4 DEF DirSeen
<1>6. VolumeInv(v, durable', failures')
  BY <1>2, <1>3, <1>4, <1>5 DEF VolumeInv, DiskOk
<1>7. HandleShape(Closed) /\ Closed.type = "closed"
  BY DEF HandleShape, Closed, HandleFields
<1>8. ASSUME NEW f \in Names PROVE FileInv(v, f, handle'[f], acked'[f], durable'[f])
  <2>1. handle'[f] = Closed /\ acked'[f] = disk[DirBlock][f].size
    BY <1>1 DEF Entry
  <2>2. disk[DirBlock][f].size \in Nat /\ disk[DirBlock][f].size >= durable'[f] /\ durable'[f] \in Nat
    BY DEF DiskOk, DirOk
  <2> QED BY <1>5, <1>7, <2>1, <2>2 DEF FileInv, Covered
<1>9. DOMAIN handle' = Names /\ DOMAIN acked' = Names
  BY <1>1
<1> QED BY <1>1, <1>2, <1>6, <1>8, <1>9 DEF SdInv, v

(* The power fails after any of the writes of a call.                      *)
LEMMA InterruptedKeeps ==
  ASSUME SdInv, NEW v, NEW k, Good(v, k), k.bound = durable, Interrupted(v)
  PROVE  SdInv'
<1>1. PICK i \in 1 .. Len(v.writes) : PowerFails(v.writes[i])
  BY DEF Interrupted
<1>2. DiskOk(v.writes[i], durable)
  BY EveryWriteOk DEF Good
<1>3. durable' = durable
  BY DEF Interrupted
<1>4. DOMAIN durable = Names /\ \A f \in Names : durable[f] \in Nat
  BY DEF SdInv, FileInv
<1> QED BY <1>1, <1>2, <1>3, <1>4, RestartKeeps

(* What a call has to leave of its file and its volume.                    *)
LEMMA ReturnKeeps ==
  ASSUME SdInv, NEW f \in Names, NEW x, NEW k, Good(x.v, k), Returns(x, f),
         failures = 0 => k.agree, Stuck(vol) => k.stuck,
         DiskOk(x.v.disk, durable'), DirOk(k.dir, durable'),
         \A g \in Names \ {f} : /\ k.dir[g] = DirSeen(vol)[g]
                                /\ durable'[g] = durable[g] /\ acked'[g] = acked[g],
         DOMAIN durable' = Names, DOMAIN acked' = Names,
         FileInv(Returned(x.v), f, x.h, acked'[f], durable'[f])
  PROVE  SdInv'
<1> DEFINE w == Returned(x.v)
<1>1. vol' = w /\ handle' = [handle EXCEPT ![f] = x.h] /\ failures' = failures
  BY DEF Returns, Returned
<1>2. /\ CacheShape(w) /\ w.ok /\ w.writes = <<>>
      /\ DirSeen(w) = k.dir
      /\ k.agree => Agree(w.disk)
      /\ k.stuck => Stuck(w)
  BY ReturnedVolume
<1>3. w.disk = x.v.disk
  BY DEF Returned, Good, CacheShape, VolumeFields
<1>4. FileInv(w, f, x.h, acked'[f], durable'[f])
  OBVIOUS
<1> HIDE DEF w
<1>5. VolumeInv(vol', durable', failures')
  BY <1>1, <1>2, <1>3 DEF VolumeInv
<1>6. ASSUME NEW g \in Names PROVE FileInv(vol', g, handle'[g], acked'[g], durable'[g])
  <2>1. CASE g = f
    <3>1. handle'[f] = x.h
      BY <1>1 DEF SdInv
    <3> QED BY <1>1, <1>4, <2>1, <3>1
  <2>2. CASE g # f
    <3>1. handle'[g] = handle[g] /\ acked'[g] = acked[g] /\ durable'[g] = durable[g]
      BY <1>1, <2>2 DEF SdInv
    <3>2. k.dir[g] = DirSeen(vol)[g]
      BY <2>2
    <3>3. FileInv(vol, g, handle[g], acked[g], durable[g])
      BY DEF SdInv
    <3>4. Stuck(vol) => Stuck(w)
      BY <1>2
    <3>5. Covered(vol, g, handle[g], acked[g]) => Covered(w, g, handle[g], acked[g])
      BY <1>2, <3>2 DEF Covered
    <3> QED BY <1>1, <3>1, <3>3, <3>4, <3>5 DEF FileInv
  <2> QED BY <2>1, <2>2
<1>7. DOMAIN handle' = Names
  BY <1>1 DEF SdInv
<1> QED BY <1>1, <1>5, <1>6, <1>7 DEF SdInv

(* read, peek and seek: only the cache and the position change.            *)
LEMMA QuietKeeps ==
  ASSUME SdInv, NEW f \in Names, NEW x, NEW k, CallOf(k, f, handle[f], FALSE), FileOk(x, k),
         handle[f].type = "normal", Only(x, f)
  PROVE  SdInv'
<1>1. CASE Interrupted(x.v)
  BY <1>1, InterruptedKeeps DEF FileOk, CallOf
<1>2. CASE Returns(x, f) /\ UNCHANGED <<acked, durable>>
  <2>1. Good(x.v, k)
    BY DEF FileOk
  <2>2. DiskOk(x.v.disk, durable') /\ DirOk(k.dir, durable')
    BY <1>2, <2>1 DEF Good, CallOf
  <2>3. /\ DirSeen(Returned(x.v)) = k.dir
        /\ Stuck(vol) => Stuck(Returned(x.v))
    BY <2>1, ReturnedVolume DEF CallOf
  <2>4. /\ x.h.type = handle[f].type /\ x.h.size = handle[f].size
        /\ x.h.pos \in Int /\ x.h.dirty = handle[f].dirty /\ DOMAIN x.h = HandleFields
    BY DEF FileOk, HandleOk, CallOf
  <2>5. FileInv(vol, f, handle[f], acked[f], durable[f])
    BY DEF SdInv
  <2>6. FileInv(Returned(x.v), f, x.h, acked'[f], durable'[f])
    BY <1>2, <2>3, <2>4, <2>5 DEF FileInv, HandleShape, Covered, CallOf
  <2>7. /\ DOMAIN durable' = Names /\ DOMAIN acked' = Names
        /\ failures = 0 => k.agree
        /\ Stuck(vol) => k.stuck
        /\ \A g \in Names \ {f} : /\ k.dir[g] = DirSeen(vol)[g]
                                  /\ durable'[g] = durable[g] /\ acked'[g] = acked[g]
    BY <1>2 DEF SdInv, CallOf
  <2> QED BY <1>2, <2>1, <2>2, <2>6, <2>7, ReturnKeeps
<1> QED BY <1>1, <1>2 DEF Only
-----------------------------------------------------------------------------
LEMMA ReadKeeps ==
  ASSUME SdInv, NEW f \in Names, NEW n \in ReadSizes, Read(f, n)
  PROVE  SdInv'
<1>1. PICK k : CallOf(k, f, handle[f], FALSE)
  BY EveryCall
<1>2. Good(vol, k) /\ HandleOk(handle[f], k) /\ handle[f].size \in Int /\ n \in Int
  BY <1>1, CallBegins, HandleBegins, FileAssumption DEF SdInv, FileInv, HandleShape, CallOf
<1>3. FileOk(ReadFile(vol, handle[f], n), k)
  BY <1>2, OkReadFile DEF LoopOk
<1> QED BY <1>1, <1>3, QuietKeeps DEF Read

LEMMA PeekKeeps ==
  ASSUME SdInv, NEW f \in Names, Peek(f)
  PROVE  SdInv'
<1>1. PICK k : CallOf(k, f, handle[f], FALSE)
  BY EveryCall
<1>2. Good(vol, k) /\ HandleOk(handle[f], k) /\ handle[f].size \in Int
  BY <1>1, CallBegins, HandleBegins DEF SdInv, FileInv, HandleShape, CallOf
<1>3. FileOk(BackByOne(ReadFile(vol, handle[f], 1)), k)
  BY <1>2, OkReadFile, OkBackByOne
<1> QED BY <1>1, <1>3, QuietKeeps DEF Peek

LEMMA SeekKeeps ==
  ASSUME SdInv, NEW f \in Names, NEW pos \in SeekTo, Seek(f, pos)
  PROVE  SdInv'
<1>1. PICK k : CallOf(k, f, handle[f], FALSE)
  BY EveryCall
<1>2. Good(vol, k) /\ HandleOk(handle[f], k) /\ pos \in Int
  BY <1>1, CallBegins, HandleBegins, FileAssumption DEF SdInv, FileInv, CallOf
<1> DEFINE x == [v |-> vol, h |-> handle[f]]
<1>3. FileOk(x, k)
  BY <1>2 DEF FileOk
<1>4. FileOk(SeekInFile(x, pos), k)
  <2> HIDE DEF x
  <2> QED BY <1>2, <1>3, OkSeekInFile
<1> QED BY <1>1, <1>4, QuietKeeps DEF Seek

(* write accepts bytes up to the size that the handle then has, and the    *)
(* handle is dirty if that grew.                                           *)
LEMMA WriteKeeps ==
  ASSUME SdInv, NEW f \in Names, NEW n \in WriteSizes, Write(f, n)
  PROVE  SdInv'
<1>1. PICK k : CallOf(k, f, handle[f], TRUE)
  BY EveryCall
<1>2. Good(vol, k) /\ HandleOk(handle[f], k) /\ n \in Int /\ k.grows
  BY <1>1, CallBegins, HandleBegins, FileAssumption DEF SdInv, FileInv, CallOf
<1> DEFINE y == WriteLoop(vol, handle[f], f, n)
           x == Grown(y)
<1>3. LoopOk(y, k)
  BY <1>2, OkWriteLoop
<1>4. x = WriteFile(vol, handle[f], f, n)
  BY DEF WriteFile, WriteLoop, WriteFolded
<1>5. handle[f].type = "normal"
  BY DEF Write
<1>6. \/ /\ Returns(x, f)
         /\ acked' = [acked EXCEPT ![f] = IF x.v.ok THEN Larger(@, x.h.pos) ELSE @]
         /\ UNCHANGED durable
      \/ Interrupted(x.v)
  BY <1>4 DEF Write
<1> HIDE DEF y
<1>7. /\ "v" \in DOMAIN y /\ "h" \in DOMAIN y /\ Good(y.v, k)
      /\ DOMAIN y.h = HandleFields /\ y.h.type = "normal" /\ y.h.size = handle[f].size
      /\ y.h.pos \in Int /\ y.h.dirty \in BOOLEAN
      /\ handle[f].dirty => y.h.dirty
  BY <1>1, <1>3, <1>5 DEF LoopOk, FileOk, HandleOk, CallOf
<1>8. FileInv(vol, f, handle[f], acked[f], durable[f])
  BY DEF SdInv
<1>9. handle[f].size \in Nat /\ handle[f].dirty \in BOOLEAN
  BY <1>8 DEF FileInv, HandleShape
<1>10. /\ x.v = y.v /\ DOMAIN x.h = HandleFields /\ x.h.type = "normal" /\ x.h.pos = y.h.pos
       /\ \/ /\ y.v.ok /\ y.h.pos > handle[f].size /\ x.h.size = y.h.pos /\ x.h.dirty = TRUE
          \/ /\ ~(y.v.ok /\ y.h.pos > handle[f].size)
             /\ x.h.size = handle[f].size /\ x.h.dirty = y.h.dirty
  <2>1. CASE y.v.ok /\ y.h.pos > y.h.size
    <3> DEFINE h == [y.h EXCEPT !.size = y.h.pos, !.dirty = TRUE]
    <3>1. x = [y EXCEPT !.h.size = y.h.pos, !.h.dirty = TRUE]
      BY <2>1 DEF Grown
    <3>2. x.v = y.v /\ x.h = h
      BY <1>7, <3>1
    <3>3. DOMAIN h = HandleFields /\ h.type = "normal" /\ h.pos = y.h.pos /\ h.size = y.h.pos /\ h.dirty = TRUE
      BY <1>7 DEF HandleFields
    <3> HIDE DEF x, h
    <3> QED BY <1>7, <2>1, <3>2, <3>3
  <2>2. CASE ~(y.v.ok /\ y.h.pos > y.h.size)
    <3>1. x = y
      BY <2>2 DEF Grown
    <3> QED BY <1>7, <2>2, <3>1
  <2> QED BY <2>1, <2>2
<1> HIDE DEF x
<1>11. CASE Interrupted(x.v)
  BY <1>1, <1>7, <1>10, <1>11, InterruptedKeeps DEF CallOf
<1>12. CASE /\ Returns(x, f)
            /\ acked' = [acked EXCEPT ![f] = IF x.v.ok THEN Larger(@, x.h.pos) ELSE @]
            /\ UNCHANGED durable
  <2>1. Good(x.v, k)
    BY <1>7, <1>10
  <2>2. DiskOk(x.v.disk, durable') /\ DirOk(k.dir, durable')
    BY <1>1, <1>12, <2>1 DEF Good, CallOf
  <2>3. /\ DirSeen(Returned(x.v)) = k.dir
        /\ Stuck(vol) => Stuck(Returned(x.v))
    BY <1>1, <2>1, ReturnedVolume DEF CallOf
  <2>4. HandleShape(x.h)
    <3>1. x.h.size \in Nat
      BY <1>7, <1>9, <1>10
    <3>2. x.h.dirty \in BOOLEAN
      BY <1>7, <1>10
    <3> QED BY <1>7, <1>10, <3>1, <3>2 DEF HandleShape
  <2>5. acked'[f] = IF x.v.ok THEN Larger(acked[f], x.h.pos) ELSE acked[f]
    BY <1>12 DEF SdInv
  <2>6. acked'[f] \in Nat /\ acked'[f] >= acked[f] /\ durable'[f] = durable[f]
    BY <1>7, <1>8, <1>10, <1>12, <2>5 DEF FileInv, Larger
  <2>7. Covered(vol, f, handle[f], acked[f]) => Covered(Returned(x.v), f, x.h, acked'[f])
    <3> SUFFICES ASSUME Covered(vol, f, handle[f], acked[f])
                 PROVE  Covered(Returned(x.v), f, x.h, acked'[f])
      OBVIOUS
    <3>1. acked[f] <= handle[f].size /\ (~handle[f].dirty => handle[f].size = DirSeen(vol)[f].size)
      BY <1>5 DEF Covered
    <3>2. acked[f] \in Nat
      BY <1>8 DEF FileInv
    <3>3. acked'[f] <= x.h.size
      BY <1>7, <1>9, <1>10, <2>5, <3>1, <3>2 DEF Larger
    <3>4. ~x.h.dirty => x.h.size = DirSeen(Returned(x.v))[f].size
      BY <1>1, <1>7, <1>9, <1>10, <2>3, <3>1 DEF CallOf
    <3> QED BY <1>10, <3>3, <3>4 DEF Covered
  <2>8. FileInv(Returned(x.v), f, x.h, acked'[f], durable'[f])
    BY <1>8, <2>3, <2>4, <2>6, <2>7 DEF FileInv
  <2>9. /\ DOMAIN durable' = Names /\ DOMAIN acked' = Names
        /\ failures = 0 => k.agree
        /\ Stuck(vol) => k.stuck
        /\ \A g \in Names \ {f} : /\ k.dir[g] = DirSeen(vol)[g]
                                  /\ durable'[g] = durable[g] /\ acked'[g] = acked[g]
    BY <1>1, <1>12 DEF SdInv, CallOf
  <2> QED BY <1>12, <2>1, <2>2, <2>8, <2>9, ReturnKeeps
<1> QED BY <1>6, <1>11, <1>12
-----------------------------------------------------------------------------
(* j is the call k with another directory and another handle.              *)
Continues(j, k, dir, h) == SameCall(k, j) /\ j.dir = dir /\ j.h = h /\ j.grows = FALSE

LEMMA OtherDir ==
  ASSUME NEW k, NEW dir, NEW h
  PROVE  \E j : Continues(j, k, dir, h)
<1> DEFINE j == [bound |-> k.bound, agree |-> k.agree, stuck |-> k.stuck, dir |-> dir,
                 h |-> h, grows |-> FALSE]
<1>1. Continues(j, k, dir, h)
  BY DEF Continues, SameCall
<1> HIDE DEF j
<1> QED BY <1>1

(* The entry that a dirty handle writes, and the directory after it.       *)
EntryOf(h) == [used |-> TRUE, first |-> h.first, size |-> h.size]
SyncedDir(dir, h, f) == IF h.dirty THEN [dir EXCEPT ![f] = EntryOf(h)] ELSE dir

(* sync writes the size of a dirty handle to the directory.  If it cannot, *)
(* the cache is stuck or has been, and the directory is as it was.         *)
LEMMA SyncWrites ==
  ASSUME NEW v, NEW k, NEW j, NEW f \in Names, NEW h, Good(v, k), h.size \in Nat,
         h.dirty \in BOOLEAN, h.dirty /\ ~k.stuck => h.size >= k.bound[f],
         SameCall(k, j), j.dir = SyncedDir(k.dir, h, f)
  PROVE  LET w == Sync(v, h, f)
         IN  /\ w.ok => Good(w, j) /\ ~w.dirty /\ SyncEntry(v, h, f).ok
             /\ ~w.ok => Good(w, k)
             /\ v.ok /\ ~w.ok => Stuck(v)
             /\ ~v.ok => w = v
<1> DEFINE w == Sync(v, h, f)
           d == CacheRawBlock(v, DirBlock)
<1>1. /\ Good(d, k)
      /\ d.ok => v.ok /\ d.blk = DirBlock /\ d.buf = k.dir
      /\ v.ok /\ ~d.ok => Stuck(v)
  BY DirLoads
<1>2. ~v.ok => d = v
  BY DEF CacheRawBlock
<1>3. CASE h.dirty /\ d.ok
  <2>1. ~k.stuck
    BY <1>1, <1>3, BlocksAreTagged DEF Good, Stuck, BlockFacts
  <2>2. EntryOf(h).size = h.size /\ EntryOf(h).used
    BY DEF EntryOf
  <2>3. w = CacheFlush(SetCached(d, f, EntryOf(h))) /\ SyncEntry(v, h, f) = SetCached(d, f, EntryOf(h))
    BY <1>3 DEF Sync, SyncEntry, PutEntry, EntryOf
  <2>4. j.dir = [k.dir EXCEPT ![f] = EntryOf(h)]
    BY <1>3 DEF SyncedDir
  <2> HIDE DEF d
  <2>5. Good(w, j) /\ w.ok
    BY <1>1, <1>3, <2>1, <2>2, <2>3, <2>4, SetEntryAndFlush
  <2>6. SetCached(d, f, EntryOf(h)).ok /\ Good(SetCached(d, f, EntryOf(h)), j)
    BY <1>1, <1>3, <2>1, <2>2, <2>4, SetEntry
  <2>7. ~w.dirty
    BY <2>3, <2>5, <2>6, FlushOk DEF Good
  <2> HIDE DEF w
  <2>8. /\ w.ok => Good(w, j) /\ ~w.dirty /\ SyncEntry(v, h, f).ok
        /\ w.ok /\ v.ok
    BY <1>1, <1>3, <2>3, <2>5, <2>6, <2>7
  <2> QED BY <2>8 DEF w
<1>4. CASE h.dirty /\ ~d.ok
  <2>1. SyncEntry(v, h, f) = d
    BY <1>4 DEF SyncEntry, PutEntry, SetCached
  <2>2. w = d
    BY <1>4, <2>1, FlushOfNothing DEF Sync
  <2> QED BY <1>1, <1>2, <1>4, <2>2
<1>5. CASE ~h.dirty
  <2>1. SyncEntry(v, h, f) = v /\ w = CacheFlush(v)
    BY <1>5 DEF Sync, SyncEntry
  <2>2. /\ CacheFlush(v).ok => v.ok /\ ~CacheFlush(v).dirty
        /\ v.ok /\ ~Stuck(v) => CacheFlush(v).ok
    BY FlushOk DEF Good
  <2>3. Good(CacheFlush(v), k)
    BY GoodFlush
  <2>4. Good(CacheFlush(v), j)
    BY <1>5, <2>3, SameGood DEF SyncedDir
  <2>5. ~v.ok => CacheFlush(v) = v
    BY FlushOfNothing
  <2> QED BY <2>1, <2>2, <2>3, <2>4, <2>5
<1> QED BY <1>3, <1>4, <1>5

(* A closed handle is a clean one.                                         *)
LEMMA ClosedShape == HandleShape(Closed) /\ Closed.type = "closed" /\ ~Closed.dirty
BY DEF HandleShape, Closed, HandleFields

(* After flush or close all that write accepted is durable: the handle was *)
(* dirty and its size has been written, or it was clean and the directory  *)
(* had the size already.                                                   *)
LEMMA SyncingKeeps ==
  ASSUME SdInv, NEW f \in Names, NEW x, handle[f].type = "normal",
         x.v = Sync(vol, handle[f], f),
         x.h = Synced(vol, handle[f], f).h \/ x.h = Closed, Syncing(x, f)
  PROVE  SdInv'
<1> DEFINE h == handle[f]
           w == Sync(vol, h, f)
<1>1. PICK k : CallOf(k, f, h, FALSE)
  BY EveryCall
<1>2. PICK j : SameCall(k, j) /\ j.dir = SyncedDir(k.dir, h, f)
  <2>1. \E j : Continues(j, k, SyncedDir(k.dir, h, f), h)
    BY OtherDir
  <2> QED BY <2>1 DEF Continues
<1>3. Good(vol, k)
  BY <1>1, CallBegins
<1>4. FileInv(vol, f, h, acked[f], durable[f]) /\ vol.ok
  BY DEF SdInv, VolumeInv
<1>5. HandleShape(h) /\ acked[f] \in Nat /\ durable[f] \in Nat /\ durable[f] <= acked[f]
  BY <1>4 DEF FileInv
<1>6. ~Stuck(vol) => acked[f] <= h.size /\ (~h.dirty => h.size = DirSeen(vol)[f].size)
  BY <1>4 DEF FileInv, Covered
<1>7. h.size \in Nat /\ h.dirty \in BOOLEAN /\ (h.dirty /\ ~k.stuck => h.size >= k.bound[f])
  BY <1>1, <1>5, <1>6 DEF HandleShape, CallOf
<1> HIDE DEF h
<1>8. /\ w.ok => Good(w, j) /\ ~w.dirty /\ SyncEntry(vol, h, f).ok
      /\ ~w.ok => Good(w, k)
      /\ ~w.ok => Stuck(vol)
  BY <1>2, <1>3, <1>4, <1>7, SyncWrites
<1>9. x.v = w /\ (x.h = [h EXCEPT !.dirty = h.dirty /\ ~SyncEntry(vol, h, f).ok] \/ x.h = Closed)
  BY DEF h, Synced
<1> HIDE DEF w
<1>10. HandleShape(x.h)
  <2>1. HandleShape([h EXCEPT !.dirty = h.dirty /\ ~SyncEntry(vol, h, f).ok])
    BY <1>5 DEF HandleShape, HandleFields
  <2> QED BY <1>9, <2>1, ClosedShape
<1>11. CASE Interrupted(x.v)
  <2>1. j.bound = durable /\ k.bound = durable
    BY <1>1, <1>2 DEF CallOf, SameCall
  <2> QED BY <1>8, <1>9, <1>11, <2>1, InterruptedKeeps
<1>12. CASE /\ Returns(x, f) /\ ~x.v.ok /\ durable' = durable /\ acked' = acked
  <2>1. Good(x.v, k) /\ Stuck(vol)
    BY <1>8, <1>9, <1>12
  <2>2. Stuck(Returned(x.v))
    BY <1>1, <2>1, ReturnedVolume DEF CallOf
  <2>3. FileInv(Returned(x.v), f, x.h, acked'[f], durable'[f])
    BY <1>5, <1>10, <1>12, <2>2 DEF FileInv
  <2>4. DiskOk(x.v.disk, durable') /\ DirOk(k.dir, durable')
    BY <1>1, <1>12, <2>1 DEF Good, CallOf
  <2>5. /\ DOMAIN durable' = Names /\ DOMAIN acked' = Names
        /\ failures = 0 => k.agree
        /\ Stuck(vol) => k.stuck
        /\ \A g \in Names \ {f} : /\ k.dir[g] = DirSeen(vol)[g]
                                  /\ durable'[g] = durable[g] /\ acked'[g] = acked[g]
    BY <1>1, <1>12 DEF SdInv, CallOf
  <2> QED BY <1>12, <2>1, <2>3, <2>4, <2>5, ReturnKeeps
<1>13. CASE Returns(x, f) /\ x.v.ok /\ durable' = [durable EXCEPT ![f] = acked[f]] /\ acked' = acked
  <2>1. Good(w, j) /\ ~w.dirty /\ SyncEntry(vol, h, f).ok
    BY <1>8, <1>9, <1>13
  <2>2. ~j.stuck
    BY <2>1 DEF Good, Stuck
  <2>3. ~Stuck(vol) /\ (j.agree <=> failures = 0) /\ k.dir = DirSeen(vol) /\ j.bound = durable
    BY <1>1, <1>2, <2>2 DEF CallOf, SameCall
  <2>4. acked[f] <= h.size /\ (~h.dirty => h.size = k.dir[f].size)
    BY <1>6, <2>3
  <2>5. DOMAIN k.dir = Names
    BY <1>3 DEF Good, DirOk
  <2>6. j.dir[f].size = h.size /\ \A g \in Names \ {f} : j.dir[g] = k.dir[g]
    BY <1>2, <1>7, <2>4, <2>5 DEF SyncedDir, EntryOf
  <2>7. /\ DOMAIN durable' = Names /\ durable'[f] = acked[f]
        /\ \A g \in Names \ {f} : durable'[g] = durable[g]
    BY <1>13 DEF SdInv
  <2>8. DirOk(j.dir, durable')
    BY <1>5, <1>7, <2>1, <2>3, <2>4, <2>6, <2>7 DEF Good, DirOk
  <2>9. w.disk[DirBlock] = j.dir
    BY <2>1, BlocksAreTagged DEF Good, CacheShape, DirSeen, BlockFacts
  <2>10. DiskOk(w.disk, durable')
    BY <2>1, <2>8, <2>9 DEF Good, DiskOk
  <2>11. DirSeen(Returned(w)) = j.dir
    BY <2>1, ReturnedVolume
  <2>12. x.h.type = "normal" => x.h.size = h.size
    BY <1>5, <1>9, ClosedShape DEF HandleShape, HandleFields
  <2>13. Covered(Returned(w), f, x.h, acked[f])
    BY <2>4, <2>6, <2>11, <2>12 DEF Covered
  <2>14. FileInv(Returned(w), f, x.h, acked'[f], durable'[f])
    BY <1>5, <1>10, <1>13, <2>7, <2>13 DEF FileInv
  <2>15. DOMAIN acked' = Names /\ \A g \in Names \ {f} : acked'[g] = acked[g]
    BY <1>13 DEF SdInv
  <2>16. Good(x.v, j) /\ DiskOk(x.v.disk, durable') /\ FileInv(Returned(x.v), f, x.h, acked'[f], durable'[f])
    BY <1>9, <2>1, <2>10, <2>14
  <2>17. /\ failures = 0 => j.agree
         /\ Stuck(vol) => j.stuck
         /\ \A g \in Names \ {f} : /\ j.dir[g] = DirSeen(vol)[g]
                                   /\ durable'[g] = durable[g] /\ acked'[g] = acked[g]
    BY <2>3, <2>6, <2>7, <2>15
  <2> QED BY <1>13, <2>7, <2>8, <2>15, <2>16, <2>17, ReturnKeeps
<1> QED BY <1>11, <1>12, <1>13 DEF Syncing

LEMMA FlushKeeps ==
  ASSUME SdInv, NEW f \in Names, Flush(f)
  PROVE  SdInv'
<1> DEFINE x == Synced(vol, handle[f], f)
<1>1. handle[f].type = "normal" /\ Syncing(x, f)
  BY DEF Flush
<1>2. x.v = Sync(vol, handle[f], f)
  BY DEF Synced
<1> HIDE DEF x
<1>3. x.h = Synced(vol, handle[f], f).h
  BY DEF x
<1> QED BY <1>1, <1>2, <1>3, SyncingKeeps

LEMMA CloseKeeps ==
  ASSUME SdInv, NEW f \in Names, Close(f)
  PROVE  SdInv'
<1> DEFINE x == [Synced(vol, handle[f], f) EXCEPT !.h = Closed]
<1>1. handle[f].type = "normal" /\ Syncing(x, f)
  BY DEF Close
<1>2. x.v = Sync(vol, handle[f], f) /\ x.h = Closed
  BY DEF Synced
<1> HIDE DEF x
<1> QED BY <1>1, <1>2, SyncingKeeps
-----------------------------------------------------------------------------
NewEntry == [used |-> TRUE, first |-> Free, size |-> 0]

(* Opening finds the entry of f or makes an empty one.                     *)
LEMMA FindOrCreateOk ==
  ASSUME NEW d, NEW k, NEW j, NEW f \in Names, Good(d, k), d.ok, d.blk = DirBlock,
         SameCall(k, j), j.dir = IF k.dir[f].used THEN k.dir ELSE [k.dir EXCEPT ![f] = NewEntry]
  PROVE  LET m == FindOrCreate(d, f)
         IN  Good(m, j) /\ m.blk = DirBlock /\ m.buf = j.dir
<1>1. d.buf = k.dir
  BY DEF Good, DirSeen
<1>2. CASE k.dir[f].used
  <2>1. FindOrCreate(d, f) = d
    BY <1>1, <1>2 DEF FindOrCreate
  <2>2. Good(d, j)
    BY <1>2, SameGood
  <2> QED BY <1>1, <1>2, <2>1, <2>2
<1>3. CASE ~k.dir[f].used
  <2>1. FindOrCreate(d, f) = CacheFlush(SetCached(d, f, NewEntry))
    BY <1>1, <1>3 DEF FindOrCreate, NewEntry
  <2>2. NewEntry.size = 0 /\ NewEntry.used
    BY DEF NewEntry
  <2>3. 0 >= k.bound[f]
    BY <1>3 DEF Good, DirOk
  <2>4. LET m == CacheFlush(SetCached(d, f, NewEntry)) IN Good(m, j) /\ m.blk = DirBlock /\ m.buf = j.dir
    BY <1>3, <2>2, <2>3, SetEntryAndFlush
  <2> QED BY <2>1, <2>4
<1> QED BY <1>2, <1>3

LEMMA OpenedHandle ==
  ASSUME NEW e, NEW write, e.size \in Nat
  PROVE  LET h == OpenCachedEntry(e, write)
         IN  HandleShape(h) /\ h.type = "normal" /\ h.size = e.size /\ ~h.dirty
BY DEF OpenCachedEntry, HandleShape, Closed, HandleFields

(* An opened file has the size that the directory says.                    *)
LEMMA OpenKeeps ==
  ASSUME SdInv, NEW f \in Names, NEW write \in BOOLEAN, Open(f, write)
  PROVE  SdInv'
<1> DEFINE d == CacheRawBlock(vol, DirBlock)
           x == OpenFile(vol, f, write)
<1>1. PICK k : CallOf(k, f, handle[f], FALSE)
  BY EveryCall
<1>2. Good(vol, k)
  BY <1>1, CallBegins
<1>3. FileInv(vol, f, handle[f], acked[f], durable[f]) /\ vol.ok
  BY DEF SdInv, VolumeInv
<1>4. handle[f].type # "normal"
  BY DEF Open
<1>5. /\ Good(d, k)
      /\ d.ok => d.blk = DirBlock /\ d.buf = k.dir
      /\ ~d.ok => Stuck(vol)
  BY <1>2, <1>3, DirLoads
<1>6. (Returns(x, f) /\ UNCHANGED <<acked, durable>>) \/ Interrupted(x.v)
  BY DEF Open
<1>7. x = OpenInRoot(d, f, write)
  BY DEF OpenFile
<1> HIDE DEF d, x
<1>8. /\ DOMAIN durable = Names /\ DOMAIN acked = Names
      /\ acked[f] \in Nat /\ durable[f] \in Nat /\ durable[f] <= acked[f]
  BY <1>3 DEF SdInv, FileInv
<1>9. CASE ~d.ok
  <2>1. x.v = d /\ x.h = Closed
    BY <1>7, <1>9 DEF OpenInRoot
  <2>2. CASE Interrupted(x.v)
    BY <1>1, <1>5, <2>1, <2>2, InterruptedKeeps DEF CallOf
  <2>3. CASE Returns(x, f) /\ UNCHANGED <<acked, durable>>
    <3>1. Stuck(Returned(d))
      BY <1>1, <1>5, <1>9, ReturnedVolume DEF CallOf
    <3>2. FileInv(Returned(x.v), f, x.h, acked'[f], durable'[f])
      BY <1>8, <2>1, <2>3, <3>1, ClosedShape DEF FileInv
    <3>3. Good(x.v, k) /\ DiskOk(x.v.disk, durable') /\ DirOk(k.dir, durable')
      BY <1>1, <1>5, <2>1, <2>3 DEF Good, CallOf
    <3>4. /\ DOMAIN durable' = Names /\ DOMAIN acked' = Names
          /\ failures = 0 => k.agree
          /\ Stuck(vol) => k.stuck
          /\ \A g \in Names \ {f} : /\ k.dir[g] = DirSeen(vol)[g]
                                    /\ durable'[g] = durable[g] /\ acked'[g] = acked[g]
      BY <1>1, <1>8, <2>3 DEF CallOf
    <3> QED BY <2>3, <3>2, <3>3, <3>4, ReturnKeeps
  <2> QED BY <1>6, <2>2, <2>3
<1>10. CASE d.ok
  <2> DEFINE dir == IF k.dir[f].used THEN k.dir ELSE [k.dir EXCEPT ![f] = NewEntry]
             h == OpenCachedEntry(dir[f], write)
             m == FindOrCreate(d, f)
             x0 == [v |-> CacheFlush(m), h |-> h]
  <2>1. \E j : Continues(j, k, dir, h)
    <3> HIDE DEF dir, h
    <3> QED BY OtherDir
  <2>2. PICK j : SameCall(k, j) /\ j.dir = dir /\ j.h = h
    <3> HIDE DEF dir, h
    <3> QED BY <2>1 DEF Continues
  <2>3. /\ DOMAIN dir = Names /\ dir[f].size = k.dir[f].size /\ dir[f].size \in Nat
        /\ \A g \in Names \ {f} : dir[g] = k.dir[g]
    BY <1>2 DEF Good, DirOk, NewEntry
  <2>4. Good(m, j) /\ m.blk = DirBlock /\ m.buf = dir
    <3> HIDE DEF m
    <3>1. LET mm == FindOrCreate(d, f) IN Good(mm, j) /\ mm.blk = DirBlock /\ mm.buf = j.dir
      BY <1>5, <1>10, <2>2, FindOrCreateOk
    <3> QED BY <2>2, <3>1 DEF m
  <2>5. HandleShape(h) /\ h.type = "normal" /\ h.size = dir[f].size /\ ~h.dirty
    <3> HIDE DEF dir
    <3> QED BY <2>3, OpenedHandle
  <2>6. x = IF write THEN SeekInFile(x0, x0.h.size) ELSE x0
    BY <1>7, <1>10, <2>4 DEF OpenInRoot, SDOpen
  <2> HIDE DEF dir, h, m
  <2>7. Good(CacheFlush(m), j)
    BY <2>4, GoodFlush
  <2>8. FileOk(x0, j) /\ x0.h.size \in Int
    BY <2>2, <2>5, <2>7, HandleBegins DEF FileOk, HandleShape
  <2> HIDE DEF x0
  <2>9. FileOk(x, j)
    BY <2>6, <2>8, OkSeekInFile
  <2>10. Good(x.v, j)
    BY <2>9 DEF FileOk
  <2>11. j.bound = durable
    BY <1>1, <2>2 DEF SameCall, CallOf
  <2>12. CASE Interrupted(x.v)
    BY <2>10, <2>11, <2>12, InterruptedKeeps
  <2>13. CASE Returns(x, f) /\ UNCHANGED <<acked, durable>>
    <3>1. ~k.stuck
      BY <1>5, <1>10, BlocksAreTagged DEF Good, Stuck, BlockFacts
    <3>2. ~Stuck(vol) /\ k.dir = DirSeen(vol) /\ (k.agree <=> failures = 0)
      BY <1>1, <3>1 DEF CallOf
    <3>3. acked[f] <= k.dir[f].size
      BY <1>3, <1>4, <3>2 DEF FileInv, Covered
    <3>4. DirSeen(Returned(x.v)) = dir
      BY <2>2, <2>10, ReturnedVolume
    <3>5. HandleShape(x.h) /\ x.h.size = dir[f].size
      BY <2>2, <2>3, <2>5, <2>9 DEF FileOk, HandleOk, HandleShape
    <3>6. FileInv(Returned(x.v), f, x.h, acked'[f], durable'[f])
      BY <1>8, <2>3, <2>13, <3>3, <3>4, <3>5 DEF FileInv, Covered
    <3>7. DiskOk(x.v.disk, durable') /\ DirOk(j.dir, durable')
      BY <2>10, <2>11, <2>13 DEF Good
    <3>8. /\ DOMAIN durable' = Names /\ DOMAIN acked' = Names
          /\ failures = 0 => j.agree
          /\ Stuck(vol) => j.stuck
          /\ \A g \in Names \ {f} : /\ j.dir[g] = DirSeen(vol)[g]
                                    /\ durable'[g] = durable[g] /\ acked'[g] = acked[g]
      BY <1>8, <2>2, <2>3, <2>13, <3>2 DEF SameCall
    <3> QED BY <2>10, <2>13, <3>6, <3>7, <3>8, ReturnKeeps
  <2> QED BY <1>6, <2>12, <2>13
<1> QED BY <1>9, <1>10
-----------------------------------------------------------------------------
(* A lower bound for the sizes of the directory is one as well.            *)
LEMMA LowerBound ==
  ASSUME NEW v, NEW k, NEW j, Good(v, k), j.dir = k.dir, j.agree = k.agree, j.stuck = k.stuck,
         \A f \in Names : k.bound[f] \in Nat /\ j.bound[f] \in Nat /\ j.bound[f] <= k.bound[f]
  PROVE  Good(v, j)
<1>1. ASSUME NEW dir, DirOk(dir, k.bound) PROVE DirOk(dir, j.bound)
  BY <1>1 DEF DirOk
<1>2. ASSUME NEW disk, DiskOk(disk, k.bound) PROVE DiskOk(disk, j.bound)
  BY <1>1, <1>2 DEF DiskOk
<1>3. WritesOk(v.writes, j.bound)
  <2>1. PICK S : v.writes \in Seq(S) /\ \A disk \in S : DiskOk(disk, k.bound)
    BY DEF Good, WritesOk
  <2> QED BY <1>2, <2>1 DEF WritesOk
<1> QED BY <1>1, <1>2, <1>3 DEF Good

(* A handle of size 0 that truncate(0) makes dirty.                        *)
Cut == [Closed EXCEPT !.dirty = TRUE]

(* truncate(0) frees the chain and then writes an empty entry.             *)
LEMMA TruncateWrites ==
  ASSUME NEW d, NEW k, NEW k0, NEW f \in Names, Good(d, k), d.ok, d.blk = DirBlock,
         NEW j, SameCall(k0, j), k0.bound[f] = 0, k0.dir = k.dir, Good(d, k0),
         j.dir = IF k.dir[f].size = 0 THEN k.dir ELSE [k.dir EXCEPT ![f] = EntryOf(Cut)]
  PROVE  LET t == Truncated(d, k.dir[f], f)
         IN  /\ t.ok => Good(t, j) /\ ~Stuck(t)
             /\ ~t.ok => Good(t, k) /\ Good(t, k0)
<1> DEFINE t == Truncated(d, k.dir[f], f)
<1>1. CASE k.dir[f].size = 0
  <2>1. t = d
    BY <1>1 DEF Truncated
  <2>2. Good(d, j)
    BY <1>1, SameGood
  <2>3. ~Stuck(d)
    BY BlocksAreTagged DEF Stuck, BlockFacts
  <2> QED BY <2>1, <2>2, <2>3
<1>2. CASE k.dir[f].size # 0
  <2> DEFINE v == FreeChain(d, k.dir[f].first)
             u == CacheRawBlock(v, DirBlock)
  <2>1. t = Sync(v, Cut, f)
    BY <1>2 DEF Truncated, Cut
  <2>2. Good(v, k) /\ Good(v, k0)
    BY GoodFreeChain
  <2>3. Cut.size = 0 /\ Cut.dirty = TRUE
    BY DEF Cut, Closed
  <2> HIDE DEF v, t
  <2>4. j.dir = SyncedDir(k0.dir, Cut, f)
    BY <1>2, <2>3 DEF SyncedDir
  <2>5. Cut.dirty \in BOOLEAN /\ Cut.size \in Nat /\ Cut.size >= k0.bound[f]
    <3>1. Cut.dirty \in BOOLEAN
      BY <2>3
    <3>2. Cut.size \in Nat
      BY <2>3
    <3>3. Cut.size >= k0.bound[f]
      BY <2>3
    <3> QED BY <3>1, <3>2, <3>3
  <2>6. LET w == Sync(v, Cut, f)
        IN  /\ w.ok => Good(w, j) /\ ~w.dirty /\ SyncEntry(v, Cut, f).ok
            /\ ~w.ok => Good(w, k0)
    BY <2>2, <2>4, <2>5, SyncWrites
  <2>7. Good(u, k) /\ Good(u, k0) /\ (u.ok => u.blk = DirBlock)
    BY <2>2, DirLoads
  <2>8. CASE u.ok
    <3>1. EntryOf(Cut).size = 0 /\ EntryOf(Cut).used /\ j.dir = [k0.dir EXCEPT ![f] = EntryOf(Cut)]
      BY <2>3, <2>4 DEF EntryOf, SyncedDir
    <3>2. Sync(v, Cut, f) = CacheFlush(SetCached(u, f, EntryOf(Cut)))
      BY <2>3 DEF Sync, SyncEntry, PutEntry, EntryOf
    <3> HIDE DEF u
    <3> DEFINE e == EntryOf(Cut)
    <3>3. e.size \in Nat /\ e.size >= k0.bound[f] /\ (~e.used => e.size = 0)
      <4>1. e.size >= k0.bound[f]
        BY <3>1
      <4> QED BY <3>1, <4>1
    <3>4. j.dir = [k0.dir EXCEPT ![f] = e]
      BY <3>1
    <3> HIDE DEF e
    <3>5. LET w == CacheFlush(SetCached(u, f, e)) IN w.ok
      BY <2>7, <2>8, <3>3, <3>4, SetEntryAndFlush
    <3> QED BY <2>1, <2>6, <3>2, <3>5 DEF Stuck, t, e
  <2>9. CASE ~u.ok
    <3>1. SyncEntry(v, Cut, f) = u
      BY <2>3, <2>9 DEF SyncEntry, PutEntry, SetCached
    <3>2. Sync(v, Cut, f) = u
      BY <2>9, <3>1, FlushOfNothing DEF Sync
    <3> QED BY <2>1, <2>7, <2>9, <3>2 DEF t
  <2> QED BY <2>8, <2>9
<1> QED BY <1>1, <1>2

(* The entry is cut.                                                       *)
LEMMA RemoveWrites ==
  ASSUME NEW t, NEW j, NEW i, NEW f \in Names, Good(t, j), t.ok, ~Stuck(t), j.bound[f] = 0,
         SameCall(j, i), i.dir = [j.dir EXCEPT ![f] = Deleted]
  PROVE  LET w == RemoveEntry(t, f) IN w.ok /\ Good(w, i)
<1> DEFINE r == CacheRawBlock(t, DirBlock)
<1>1. Good(r, j) /\ r.ok /\ r.blk = DirBlock
  BY DirLoads
<1>2. Deleted.size = 0
  BY DEF Deleted
<1>3. RemoveEntry(t, f) = CacheFlush(SetCached(r, f, Deleted))
  BY DEF RemoveEntry
<1> HIDE DEF r
<1>4. LET w == CacheFlush(SetCached(r, f, Deleted)) IN w.ok /\ Good(w, i)
  BY <1>1, <1>2, SetEntryAndFlush
<1> QED BY <1>3, <1>4

LEMMA RemoveOfFailed ==
  ASSUME NEW t, NEW f, ~t.ok
  PROVE  RemoveEntry(t, f) = t
BY DEF RemoveEntry, CacheRawBlock, SetCached, CacheFlush

(* A removal that fails has left the directory alone; another one has cut  *)
(* the file's entry and no other.                                          *)
LEMMA RemoveFileWrites ==
  ASSUME NEW v, NEW k, NEW k0, NEW f \in Names, Good(v, k), Good(v, k0), v.ok,
         k0.bound[f] = 0, k0.dir = k.dir
  PROVE  LET w == RemoveFile(v, f)
         IN  /\ w.ok => \E i : /\ Good(w, i) /\ SameCall(k0, i) /\ i.dir[f].size = 0
                               /\ \A g \in Names \ {f} : i.dir[g] = k.dir[g]
             /\ ~w.ok => Good(w, k) /\ Good(w, k0)
<1> DEFINE d == CacheRawBlock(v, DirBlock)
           w == RemoveFile(v, f)
<1>1. Good(d, k) /\ Good(d, k0) /\ (d.ok => d.blk = DirBlock /\ d.buf = k.dir)
  BY DirLoads
<1>2. w = RemoveFrom(d, f)
  BY DEF RemoveFile
<1> HIDE DEF d, w
<1>3. CASE ~d.ok
  <2>1. w = d
    BY <1>2, <1>3 DEF RemoveFrom
  <2> QED BY <1>1, <1>3, <2>1 DEF w
<1>4. CASE d.ok
  <2> DEFINE t == Truncated(d, k.dir[f], f)
             cut == IF k.dir[f].size = 0 THEN k.dir ELSE [k.dir EXCEPT ![f] = EntryOf(Cut)]
             gone == [cut EXCEPT ![f] = Deleted]
  <2>1. w = RemoveEntry(t, f)
    BY <1>1, <1>2, <1>4 DEF RemoveFrom
  <2>2. PICK j : SameCall(k0, j) /\ j.dir = cut
    <3> HIDE DEF cut
    <3>1. \E j : Continues(j, k0, cut, Closed)
      BY OtherDir
    <3> QED BY <3>1 DEF Continues
  <2>3. PICK i : SameCall(j, i) /\ i.dir = gone
    <3> HIDE DEF gone
    <3>1. \E i : Continues(i, j, gone, Closed)
      BY OtherDir
    <3> QED BY <3>1 DEF Continues
  <2>4. /\ t.ok => Good(t, j) /\ ~Stuck(t)
        /\ ~t.ok => Good(t, k) /\ Good(t, k0)
    <3> HIDE DEF t
    <3>1. LET tt == Truncated(d, k.dir[f], f)
          IN  /\ tt.ok => Good(tt, j) /\ ~Stuck(tt)
              /\ ~tt.ok => Good(tt, k) /\ Good(tt, k0)
      BY <1>1, <1>4, <2>2, TruncateWrites
    <3> QED BY <3>1 DEF t
  <2>5. DOMAIN k.dir = Names
    BY <1>1 DEF Good, DirOk
  <2>6. gone[f].size = 0 /\ \A g \in Names \ {f} : gone[g] = k.dir[g]
    BY <2>5 DEF Deleted
  <2> HIDE DEF t, cut, gone
  <2>7. CASE t.ok
    <3>1. j.bound[f] = 0 /\ i.dir = [j.dir EXCEPT ![f] = Deleted] /\ SameCall(k0, i)
      BY <2>2, <2>3 DEF SameCall, gone
    <3>2. LET ww == RemoveEntry(t, f) IN ww.ok /\ Good(ww, i)
      BY <2>3, <2>4, <2>7, <3>1, RemoveWrites
    <3>3. w.ok /\ Good(w, i)
      BY <2>1, <3>2
    <3>4. \E ii : /\ Good(w, ii) /\ SameCall(k0, ii) /\ ii.dir[f].size = 0
                  /\ \A g \in Names \ {f} : ii.dir[g] = k.dir[g]
      BY <2>3, <2>6, <3>1, <3>3
    <3> QED BY <3>3, <3>4 DEF w
  <2>8. CASE ~t.ok
    <3>1. w = t
      BY <2>1, <2>8, RemoveOfFailed
    <3> QED BY <2>4, <2>8, <3>1 DEF w
  <2> QED BY <2>7, <2>8
<1> QED BY <1>3, <1>4

(* A removal, also one in which the power fails: of the other files        *)
(* nothing is lost.                                                        *)
LEMMA RemoveKeeps ==
  ASSUME SdInv, NEW f \in Names, SDRemove(f)
  PROVE  SdInv'
<1> DEFINE w == RemoveFile(vol, f)
           bound0 == [durable EXCEPT ![f] = 0]
<1>1. PICK k : CallOf(k, f, handle[f], FALSE)
  BY EveryCall
<1>2. Good(vol, k)
  BY <1>1, CallBegins
<1>3. FileInv(vol, f, handle[f], acked[f], durable[f]) /\ vol.ok
  BY DEF SdInv, VolumeInv
<1>4. handle[f].type # "normal"
  BY DEF SDRemove
<1>5. \/ /\ Returns([v |-> w, h |-> Closed], f)
         /\ acked' = IF w.ok THEN [acked EXCEPT ![f] = 0] ELSE acked
         /\ durable' = IF w.ok THEN [durable EXCEPT ![f] = 0] ELSE durable
      \/ \E i \in 1 .. Len(w.writes) : PowerFails(w.writes[i]) /\ durable' = bound0
  BY DEF SDRemove
<1>6. /\ DOMAIN durable = Names /\ DOMAIN acked = Names
      /\ acked[f] \in Nat /\ durable[f] \in Nat /\ durable[f] <= acked[f]
      /\ \A g \in Names : durable[g] \in Nat
  BY <1>3 DEF SdInv, FileInv
<1>7. /\ DOMAIN bound0 = Names /\ bound0[f] = 0
      /\ \A g \in Names : bound0[g] \in Nat /\ bound0[g] <= durable[g]
      /\ \A g \in Names \ {f} : bound0[g] = durable[g]
  BY <1>6
<1> HIDE DEF w, bound0
<1>8. PICK k0 : /\ k0.bound = bound0 /\ k0.dir = k.dir
                /\ k0.agree = k.agree /\ k0.stuck = k.stuck
  <2> DEFINE j == [bound |-> bound0, dir |-> k.dir, agree |-> k.agree, stuck |-> k.stuck]
  <2>1. j.bound = bound0 /\ j.dir = k.dir /\ j.agree = k.agree /\ j.stuck = k.stuck
    OBVIOUS
  <2> HIDE DEF j
  <2> QED BY <2>1
<1>9. Good(vol, k0)
  BY <1>1, <1>2, <1>6, <1>7, <1>8, LowerBound DEF CallOf
<1>10. /\ w.ok => \E i : /\ Good(w, i) /\ SameCall(k0, i) /\ i.dir[f].size = 0
                         /\ \A g \in Names \ {f} : i.dir[g] = k.dir[g]
       /\ ~w.ok => Good(w, k) /\ Good(w, k0)
  <2>1. k0.bound[f] = 0
    BY <1>7, <1>8
  <2> QED BY <1>2, <1>3, <1>8, <1>9, <2>1, RemoveFileWrites DEF w
<1>11. CASE \E i \in 1 .. Len(w.writes) : PowerFails(w.writes[i]) /\ durable' = bound0
  <2>1. PICK i \in 1 .. Len(w.writes) : PowerFails(w.writes[i]) /\ durable' = bound0
    BY <1>11
  <2>2. WritesOk(w.writes, bound0)
    BY <1>8, <1>10 DEF Good, SameCall
  <2>3. DiskOk(w.writes[i], bound0)
    BY <2>2, EveryWriteOk
  <2> QED BY <1>7, <2>1, <2>3, RestartKeeps
<1> DEFINE x == [v |-> w, h |-> Closed]
<1>12. x.v = w /\ x.h = Closed
  OBVIOUS
<1> HIDE DEF x
<1>13. CASE Returns(x, f) /\ w.ok /\ acked' = [acked EXCEPT ![f] = 0] /\ durable' = bound0
  <2>1. PICK i : /\ Good(w, i) /\ SameCall(k0, i) /\ i.dir[f].size = 0
                 /\ \A g \in Names \ {f} : i.dir[g] = k.dir[g]
    BY <1>10, <1>13
  <2>2. acked'[f] = 0 /\ durable'[f] = 0 /\ DOMAIN acked' = Names /\ DOMAIN durable' = Names
        /\ \A g \in Names \ {f} : acked'[g] = acked[g] /\ durable'[g] = durable[g]
    BY <1>6, <1>7, <1>13
  <2>3. DirSeen(Returned(w)) = i.dir
    BY <2>1, ReturnedVolume
  <2>4. FileInv(Returned(x.v), f, x.h, acked'[f], durable'[f])
    BY <1>12, <2>1, <2>2, <2>3, ClosedShape DEF FileInv, Covered
  <2>5. Good(x.v, i) /\ DiskOk(x.v.disk, durable') /\ DirOk(i.dir, durable')
    BY <1>8, <1>12, <1>13, <2>1 DEF Good, SameCall
  <2>6. /\ failures = 0 => i.agree
        /\ Stuck(vol) => i.stuck
        /\ \A g \in Names \ {f} : /\ i.dir[g] = DirSeen(vol)[g]
                                  /\ durable'[g] = durable[g] /\ acked'[g] = acked[g]
    BY <1>1, <1>8, <2>1, <2>2 DEF SameCall, CallOf
  <2> QED BY <1>13, <2>2, <2>4, <2>5, <2>6, ReturnKeeps
<1>14. CASE Returns(x, f) /\ ~w.ok /\ acked' = acked /\ durable' = durable
  <2>1. Good(w, k)
    BY <1>10, <1>14
  <2>2. DirSeen(Returned(w)) = DirSeen(vol) /\ (Stuck(vol) => Stuck(Returned(w)))
    BY <1>1, <2>1, ReturnedVolume DEF CallOf
  <2>3. FileInv(Returned(x.v), f, x.h, acked'[f], durable'[f])
    BY <1>3, <1>4, <1>12, <1>14, <2>2, ClosedShape DEF FileInv, Covered
  <2>4. Good(x.v, k) /\ DiskOk(x.v.disk, durable') /\ DirOk(k.dir, durable')
    BY <1>1, <1>12, <1>14, <2>1 DEF Good, CallOf
  <2>5. /\ DOMAIN durable' = Names /\ DOMAIN acked' = Names
        /\ failures = 0 => k.agree
        /\ Stuck(vol) => k.stuck
        /\ \A g \in Names \ {f} : /\ k.dir[g] = DirSeen(vol)[g]
                                  /\ durable'[g] = durable[g] /\ acked'[g] = acked[g]
    BY <1>1, <1>6, <1>14 DEF CallOf
  <2> QED BY <1>14, <2>3, <2>4, <2>5, ReturnKeeps
<1> QED BY <1>5, <1>11, <1>13, <1>14 DEF x, bound0

(* The power fails between calls.                                          *)
LEMMA BetweenCallsKeeps ==
  ASSUME SdInv, BetweenCalls
  PROVE  SdInv'
<1>1. PowerFails(vol.disk) /\ durable' = durable
  BY DEF BetweenCalls
<1>2. DiskOk(vol.disk, durable) /\ DOMAIN durable = Names /\ \A f \in Names : durable[f] \in Nat
  BY DEF SdInv, VolumeInv, FileInv
<1> QED BY <1>1, <1>2, RestartKeeps

(* The invariant is inductive.                                             *)
LEMMA StepKeeps ==
  ASSUME SdInv, [Next]_vars
  PROVE  SdInv'
<1>1. CASE BetweenCalls
  BY <1>1, BetweenCallsKeeps
<1>2. ASSUME NEW f \in Names, NEW write \in BOOLEAN, Open(f, write) PROVE SdInv'
  BY <1>2, OpenKeeps
<1>3. ASSUME NEW f \in Names, NEW n \in WriteSizes, Write(f, n) PROVE SdInv'
  BY <1>3, WriteKeeps
<1>4. ASSUME NEW f \in Names, NEW n \in ReadSizes, Read(f, n) PROVE SdInv'
  BY <1>4, ReadKeeps
<1>5. ASSUME NEW f \in Names, NEW pos \in SeekTo, Seek(f, pos) PROVE SdInv'
  BY <1>5, SeekKeeps
<1>6. ASSUME NEW f \in Names, Peek(f) PROVE SdInv'
  BY <1>6, PeekKeeps
<1>7. ASSUME NEW f \in Names, Flush(f) PROVE SdInv'
  BY <1>7, FlushKeeps
<1>8. ASSUME NEW f \in Names, Close(f) PROVE SdInv'
  BY <1>8, CloseKeeps
<1>9. ASSUME NEW f \in Names, SDRemove(f) PROVE SdInv'
  BY <1>9, RemoveKeeps
<1>10. CASE UNCHANGED vars
  BY <1>10 DEF SdInv, vars
<1> QED BY <1>1, <1>2, <1>3, <1>4, <1>5, <1>6, <1>7, <1>8, <1>9, <1>10 DEF Next

(* What every call of File and SD keeps, with the power failing between    *)
(* any two of its writes: the card is at every write one on which each     *)
(* file has at least its durable size, the cache says the same unless it   *)
(* is to be written, and what write has accepted of an open file is within *)
(* the size that its handle or the directory has.                          *)
THEOREM LibraryInvariant == Spec => []SdInv
<1>1. Init => SdInv
  BY InitKeeps
<1>2. SdInv /\ [Next]_vars => SdInv'
  BY StepKeeps
<1> QED BY <1>1, <1>2, PTL DEF Spec

(* CacheHonest for every card and every use of it: cacheFlush and          *)
(* cacheRawBlock never leave the cache clean with another content than the *)
(* card's, and without power failures the two FATs agree then.             *)
THEOREM CacheIsHonest == Spec => []CacheHonest
<1>1. SdInv => CacheHonest
  BY DEF SdInv, VolumeInv, CacheShape, Agree, CacheHonest
<1> QED BY <1>1, LibraryInvariant, PTL

(* ClosedIsDurable for every card, any number of files, bytes and power    *)
(* failures: sync (SdFile.cpp) has the size on the card before close       *)
(* returns, and nothing but a removal makes it less.                       *)
THEOREM ClosedSurvives == Spec => []ClosedIsDurable
<1>1. SdInv => ClosedIsDurable
  BY DEF SdInv, VolumeInv, DiskOk, DirOk, ClosedIsDurable, Entry
<1> QED BY <1>1, LibraryInvariant, PTL
=============================================================================
