------------------------------- MODULE SdFile -------------------------------
(***************************************************************************)
(* SdFile and the File and SD classes on top of it, on a volume whose      *)
(* power can go before every write of the card: files are opened for       *)
(* reading or at their end for writing, written, read, sought in, flushed, *)
(* closed and removed, through handles that share the one-block cache.     *)
(* The root directory is one block.  A file's byte at a position is the    *)
(* pair of the file and the position, so a byte in a wrong place shows.    *)
(***************************************************************************)
EXTENDS SdVolume

CONSTANTS WriteSizes,       \* bytes of one call of write
          ReadSizes,        \* bytes of one call of read
          SeekTo,           \* positions of a call of seek
          MaxSize,          \* bound: no file is written beyond
          MaxFailures       \* bound: power failures of a behaviour

ASSUME FileAssumption ==
  /\ WriteSizes \subseteq Nat /\ ReadSizes \subseteq Nat /\ SeekTo \subseteq Nat
  /\ MaxSize \in Nat /\ MaxFailures \in Nat

VARIABLES vol,              \* the volume
          handle,           \* the open file object of a name
          acked,            \* bytes of the file that write has accepted
          durable,          \* of these, the bytes there at the last sync
          failures,         \* how often the power has failed
          failed,           \* whether a call has failed
          torn,             \* whether the power failed inside a removal
          astray            \* files of which a seek has failed and left the
                            \* position in one cluster and cur at another

vars == <<vol, handle, acked, durable, failures, failed, torn, astray>>

Closed == [type |-> "closed", first |-> 0, cur |-> 0, pos |-> 0, size |-> 0,
           write |-> FALSE, dirty |-> FALSE]

Byte(f, pos) == <<f, pos>>
Entry(disk, f) == disk[DirBlock][f]

Init ==
  /\ vol = Mounted(Formatted)
  /\ handle = [f \in Names |-> Closed]
  /\ acked = [f \in Names |-> 0] /\ durable = acked
  /\ failures = 0 /\ failed = FALSE /\ torn = FALSE /\ astray = {}

(* The call of a method of file f returns with x, its volume and handle.   *)
(* A torn card is not followed any further.                                *)
Returns(x, f) ==
  /\ ~torn
  /\ vol' = [x.v EXCEPT !.writes = <<>>, !.ok = TRUE]
  /\ handle' = [handle EXCEPT ![f] = x.h]
  /\ failed' = (failed \/ ~x.v.ok)
  /\ UNCHANGED <<failures, torn>>

(* The power fails between calls, or in one after the first i of its       *)
(* writes.  SD.begin mounts the card again.                                *)
RestartWith(disk) ==
  /\ vol' = Mounted(disk)
  /\ handle' = [f \in Names |-> Closed]
  /\ acked' = [f \in Names |-> Entry(disk, f).size]

PowerFails(disk) ==
  /\ ~torn /\ failures < MaxFailures
  /\ failures' = failures + 1
  /\ RestartWith(disk)
  /\ UNCHANGED failed

BetweenCalls == PowerFails(vol.disk) /\ UNCHANGED <<durable, torn, astray>>

Interrupted(v) ==
  /\ \E i \in 1 .. Len(v.writes) : PowerFails(v.writes[i])
  /\ UNCHANGED <<durable, torn>>
-----------------------------------------------------------------------------
OpenCachedEntry(e, write) ==
  [Closed EXCEPT !.type = "normal", !.first = e.first, !.size = e.size, !.write = write]

(* SdFile::open by name, with the directory in the cache. *)
FindOrCreate(d, f) ==
  IF d.buf[f].used THEN d
  ELSE CacheFlush(SetCached(d, f, [used |-> TRUE, first |-> Free, size |-> 0]))

Followed(x, v) ==
  IF v.ok THEN [x EXCEPT !.v = v, !.h.cur = FatEntry(v, @)] ELSE [x EXCEPT !.v = v]

FollowLink(x, i) == Followed(x, FatGet(x.v, x.h.cur))

(* seekSet: from the cluster of the present position, or from the first    *)
(* one to go back.  A position at the end of a cluster belongs to it.      *)
ClusterIndex(pos) == (pos - 1) \div ClusterSize
FromFirst(h, pos) == h.pos = 0 \/ ClusterIndex(pos) < ClusterIndex(h.pos)

SoughtFrom(x, links, pos) ==
  LET there == FoldLeft(FollowLink, x, [i \in 1 .. links |-> i])
  IN  IF there.v.ok THEN [there EXCEPT !.h.pos = pos] ELSE there

SeekInFile_Mutated(x, pos) ==
  IF pos = 0 THEN [x EXCEPT !.h.pos = 0, !.h.cur = 0]
  ELSE IF x.h.pos = 0 THEN SoughtFrom([x EXCEPT !.h.cur = x.h.first], ClusterIndex(pos), pos)
  ELSE SoughtFrom(x, ClusterIndex(pos) - ClusterIndex(x.h.pos), pos)

SeekInFile(x, pos) ==
  IF pos = 0 THEN [x EXCEPT !.h.pos = 0, !.h.cur = 0]
  ELSE IF FromFirst(x.h, pos)
  THEN SoughtFrom([x EXCEPT !.h.cur = x.h.first], ClusterIndex(pos), pos)
  ELSE SoughtFrom(x, ClusterIndex(pos) - ClusterIndex(x.h.pos), pos)

(* SD.open closes the directory, and goes to the end to write.  Without    *)
(* the directory it opens nothing.                                         *)
SDOpen(d, f, write) ==
  LET x == [v |-> CacheFlush(d), h |-> OpenCachedEntry(d.buf[f], write)]
  IN  IF write THEN SeekInFile(x, x.h.size) ELSE x

OpenInRoot(d, f, write) ==
  IF d.ok THEN SDOpen(FindOrCreate(d, f), f, write) ELSE [v |-> d, h |-> Closed]

OpenFile(v, f, write) == OpenInRoot(CacheRawBlock(v, DirBlock), f, write)

Open(f, write) ==
  /\ handle[f].type = "closed"
  /\ write \/ Entry(vol.disk, f).used
  /\ \E x \in {OpenFile(vol, f, write)} :
       \/ Returns(x, f) /\ UNCHANGED <<acked, durable>>
       \/ Interrupted(x.v)
  /\ UNCHANGED astray

(* addCluster: the chain is longer by the cluster that allocContiguous     *)
(* finds, which is the first one of an empty file.                         *)
Chained(x, c) ==
  IF ~x.v.ok THEN x
  ELSE [x EXCEPT !.h.cur = c, !.h.first = IF @ = 0 THEN c ELSE @,
                 !.h.dirty = @ \/ x.h.first = 0]

AddCluster(x) ==
  Chained([x EXCEPT !.v = AllocCluster(x.v, x.h.cur)], FoundCluster(x.v, x.h.cur))

(* At the start of a cluster: the next one of the chain, or a new one.     *)
LinkedOrNew(x, next) ==
  IF ~x.v.ok THEN x ELSE IF next = EOC THEN AddCluster(x) ELSE [x EXCEPT !.h.cur = next]

NextCluster(x) ==
  IF x.h.cur # 0
  THEN LinkedOrNew([x EXCEPT !.v = FatGet(x.v, x.h.cur)], FatEntry(x.v, x.h.cur))
  ELSE IF x.h.first = 0 THEN AddCluster(x) ELSE [x EXCEPT !.h.cur = x.h.first]

Offset(pos) == pos % BlockSize
BlockOfCluster(pos) == (pos % ClusterSize) \div BlockSize
Smaller(i, j) == IF i < j THEN i ELSE j
Larger(i, j) == IF i < j THEN j ELSE i

(* n bytes of f from pos on, in the content of a block.                    *)
Filled(content, f, pos, n) ==
  [i \in 0 .. BlockSize - 1 |->
     IF i - Offset(pos) \in 0 .. n - 1 THEN Byte(f, pos - Offset(pos) + i) ELSE content[i]]

(* A whole block goes past the cache, which forgets the number of its      *)
(* block, and not that it has to be written.                               *)
WriteThrough(v, block, content) ==
  WriteBlock(IF v.blk = block THEN [v EXCEPT !.blk = NoBlock] ELSE v, block, content)

(* Part of a block goes into the cache.  A new block is not read: what the *)
(* cache holds in its place are no bytes of it.                            *)
NewBlock(v, block) ==
  IF v.ok THEN [v EXCEPT !.blk = block, !.buf = [i \in 0 .. BlockSize - 1 |-> Junk]] ELSE v

CachedToWrite(v, h, block) ==
  IF Offset(h.pos) = 0 /\ h.pos >= h.size THEN NewBlock(CacheFlush(v), block)
  ELSE CacheRawBlock(v, block)

Buffered(v, f, pos, n) ==
  IF v.ok THEN [v EXCEPT !.buf = Filled(@, f, pos, n), !.dirty = TRUE] ELSE v

PutInBlock(v, h, f, n, block) ==
  IF n = BlockSize
  THEN WriteThrough(v, block, [i \in 0 .. BlockSize - 1 |-> Byte(f, h.pos + i)])
  ELSE Buffered(CachedToWrite(v, h, block), f, h.pos, n)

Moved(x, n) == IF x.v.ok THEN [x EXCEPT !.h.pos = @ + n, !.left = @ - n] ELSE x

PutChunk(x, f, n) ==
  Moved([x EXCEPT !.v = PutInBlock(x.v, x.h, f, n, DataBlock(x.h.cur, BlockOfCluster(x.h.pos)))], n)

(* One round of the loop in write, unless it has ended.                    *)
WriteChunk(x, f) ==
  IF ~x.v.ok THEN x
  ELSE PutChunk(x, f, Smaller(BlockSize - Offset(x.h.pos), x.left))

AtCluster(x) ==
  IF x.left > 0 /\ x.h.pos % ClusterSize = 0 THEN NextCluster(x) ELSE x

Grown(x) ==
  IF x.v.ok /\ x.h.pos > x.h.size THEN [x EXCEPT !.h.size = x.h.pos, !.h.dirty = TRUE] ELSE x

(* SdFile::write of n bytes. *)
WriteFile(v, h, f, n) ==
  Grown(FoldLeft(LAMBDA x, i : IF ~x.v.ok \/ x.left = 0 THEN x ELSE WriteChunk(AtCluster(x), f),
                 [v |-> v, h |-> h, left |-> n], [i \in 1 .. n |-> i]))

Write(f, n) ==
  /\ handle[f].type = "normal" /\ handle[f].write /\ handle[f].pos + n <= MaxSize
  /\ \E x \in {WriteFile(vol, handle[f], f, n)} :
       \/ /\ Returns(x, f)
          /\ acked' = [acked EXCEPT ![f] = IF x.v.ok THEN Larger(@, x.h.pos) ELSE @]
          /\ UNCHANGED durable
       \/ Interrupted(x.v)
  /\ UNCHANGED astray
-----------------------------------------------------------------------------
(* SdFile::read of n bytes, which are the got of its result.               *)
ToRead(x) ==
  IF x.h.pos % ClusterSize # 0 THEN x
  ELSE IF x.h.pos = 0 THEN [x EXCEPT !.h.cur = x.h.first] ELSE FollowLink(x, 1)

Got(x, v, content, n) ==
  IF ~v.ok THEN [x EXCEPT !.v = v]
  ELSE [v |-> v, h |-> [x.h EXCEPT !.pos = @ + n], left |-> x.left - n,
        got |-> x.got \o [i \in 1 .. n |-> content[Offset(x.h.pos) + i - 1]]]

GotCached(x, v, n) == Got(x, v, v.buf, n)

(* A whole block that is not in the cache goes past it.                    *)
GotFromBlock(x, block, n) ==
  IF ~x.v.ok THEN x
  ELSE IF n = BlockSize /\ x.v.blk # block THEN Got(x, ReadBlock(x.v, block), x.v.disk[block], n)
  ELSE GotCached(x, CacheRawBlock(x.v, block), n)

ReadChunk(x) ==
  GotFromBlock(x, DataBlock(x.h.cur, BlockOfCluster(x.h.pos)),
               Smaller(BlockSize - Offset(x.h.pos), x.left))

(* size less position has no sign: beyond the end, where a failed write    *)
(* can leave the position, there is always more to read.                   *)
ToBeRead(h, n) == IF h.pos > h.size THEN n ELSE Smaller(n, h.size - h.pos)

ReadFile(v, h, n) ==
  FoldLeft(LAMBDA x, i : IF ~x.v.ok \/ x.left = 0 THEN x ELSE ReadChunk(ToRead(x)),
           [v |-> v, h |-> h, left |-> ToBeRead(h, n), got |-> <<>>],
           [i \in 1 .. n |-> i])

(* read, peek and seek change the volume, if at all, by what they load.    *)
Only(x, f) ==
  \/ Returns(x, f) /\ UNCHANGED <<acked, durable>>
  \/ Interrupted(x.v)

Read(f, n) ==
  /\ handle[f].type = "normal"
  /\ \E x \in {ReadFile(vol, handle[f], n)} : Only(x, f)
  /\ UNCHANGED astray

(* peek reads a byte, if there is one, and goes back by one.               *)
BackByOne(x) == IF x.got = <<>> THEN x ELSE SeekInFile(x, x.h.pos - 1)

Peek(f) ==
  /\ handle[f].type = "normal"
  /\ \E x \in {BackByOne(ReadFile(vol, handle[f], 1))} : Only(x, f)
  /\ UNCHANGED astray

(* A seek beyond the end of the file changes nothing.  One that cannot     *)
(* follow the chain leaves the position and has changed the cluster.       *)
LeftAstray(x, f) == ~x.v.ok /\ handle'[f] = x.h /\ x.h.cur # handle[f].cur

Seek(f, pos) ==
  /\ handle[f].type = "normal" /\ pos <= handle[f].size
  /\ \E x \in {SeekInFile([v |-> vol, h |-> handle[f]], pos)} :
       Only(x, f) /\ astray' = IF LeftAstray(x, f) THEN astray \cup {f} ELSE astray

(* The directory entry of an open file gets its size and first cluster.    *)
PutEntry(v, h, f) ==
  SetCached(CacheRawBlock(v, DirBlock), f, [used |-> TRUE, first |-> h.first, size |-> h.size])

(* sync; the handle is then clean, if the entry could be read.             *)
SyncEntry(v, h, f) == IF h.dirty THEN PutEntry(v, h, f) ELSE v

Sync_Mutated(v, h, f) == CacheFlush(v)

Sync(v, h, f) == CacheFlush(SyncEntry(v, h, f))

Synced(v, h, f) ==
  [v |-> Sync(v, h, f), h |-> [h EXCEPT !.dirty = h.dirty /\ ~SyncEntry(v, h, f).ok]]

(* flush and close.  File::close gives the handle up even if the file      *)
(* could not be closed.                                                    *)
Syncing(x, f) ==
  \/ /\ Returns(x, f)
     /\ durable' = IF x.v.ok THEN [durable EXCEPT ![f] = acked[f]] ELSE durable
     /\ UNCHANGED acked
  \/ Interrupted(x.v)

Flush(f) ==
  /\ handle[f].type = "normal"
  /\ \E x \in {Synced(vol, handle[f], f)} : Syncing(x, f)
  /\ UNCHANGED astray

Close(f) ==
  /\ handle[f].type = "normal"
  /\ \E x \in {Synced(vol, handle[f], f)} : Syncing([x EXCEPT !.h = Closed], f)
  /\ UNCHANGED astray

(* truncate(0). *)
Truncated(v, e, f) ==
  IF e.size = 0 THEN v
  ELSE Sync(FreeChain(v, e.first), [Closed EXCEPT !.dirty = TRUE], f)

RemoveEntry(v, f) == CacheFlush(SetCached(CacheRawBlock(v, DirBlock), f, Deleted))

RemoveFrom_Mutated(d, f) == IF d.ok THEN RemoveEntry(CacheFlush(d), f) ELSE d

RemoveFrom(d, f) == IF d.ok THEN RemoveEntry(Truncated(d, d.buf[f], f), f) ELSE d

RemoveFile(v, f) == RemoveFrom(CacheRawBlock(v, DirBlock), f)

(* SD.remove of a file that is not open.  A power failure after a cluster  *)
(* of it is marked free and before its entry is cut leaves the card torn.  *)
TornBy(disk, f) ==
  /\ Entry(disk, f).first # Free
  /\ \E c \in ToSet(Chain(Mounted(disk), Entry(disk, f).first)) : c = Free

SDRemove(f) ==
  /\ handle[f].type = "closed" /\ Entry(vol.disk, f).used
  /\ \E v \in {RemoveFile(vol, f)} :
       \/ /\ Returns([v |-> v, h |-> Closed], f)
          /\ acked' = IF v.ok THEN [acked EXCEPT ![f] = 0] ELSE acked
          /\ durable' = IF v.ok THEN [durable EXCEPT ![f] = 0] ELSE durable
          /\ astray' = IF v.ok THEN astray \ {f} ELSE astray
       \/ \E i \in 1 .. Len(v.writes) :
            /\ PowerFails(v.writes[i])
            /\ durable' = [durable EXCEPT ![f] = 0]
            /\ torn' = TornBy(vol'.disk, f)
            /\ UNCHANGED astray

Next ==
  \/ BetweenCalls
  \/ \E f \in Names :
       \/ \E write \in BOOLEAN : Open(f, write)
       \/ \E n \in WriteSizes : Write(f, n)
       \/ \E n \in ReadSizes : Read(f, n)
       \/ \E pos \in SeekTo : Seek(f, pos)
       \/ Peek(f) \/ Flush(f) \/ Close(f) \/ SDRemove(f)

Spec == Init /\ [][Next]_vars
-----------------------------------------------------------------------------
OnDisk(disk) == Mounted(disk)
Clusters(disk, f) ==
  IF Entry(disk, f).first = 0 THEN {} ELSE ToSet(Chain(OnDisk(disk), Entry(disk, f).first)) \ {EOC}

(* The card itself can be read at any moment, also with the power gone     *)
(* between any two writes: every file's chain is allocated, ends, has room *)
(* for its size and holds its bytes in their places, and no cluster is in  *)
(* two files.  A power failure inside a removal can tear it.  And a file   *)
(* that is astray may hold its bytes elsewhere: when a seek back fails     *)
(* because the cache is stuck (FailsOnlyWhenFull), the position stays, the *)
(* current cluster is the first one, and the next whole block goes there   *)
(* (line 933).  It takes three clusters, and the chain itself stays sound. *)
CardSound ==
  ~torn =>
    /\ \A f \in Names :
         LET e == Entry(vol.disk, f)
             path == Chain(OnDisk(vol.disk), e.first)
         IN  e.first # 0 =>
               /\ Last(path) = EOC /\ (Len(path) - 1) * ClusterSize >= e.size
               /\ f \notin astray => \A p \in 0 .. e.size - 1 :
                    vol.disk[DataBlock(path[p \div ClusterSize + 1], BlockOfCluster(p))][Offset(p)]
                      = Byte(f, p)
    /\ \A f, g \in Names : f # g => Clusters(vol.disk, f) \cap Clusters(vol.disk, g) = {}

(* What was accepted before the last close is on the card, through any     *)
(* power failure, until the file is removed.                               *)
ClosedIsDurable == \A f \in Names : Entry(vol.disk, f).size >= durable[f]

(* The cache holds what the card holds unless it is marked to be written,  *)
(* and after a mark is cleared both FATs agree.                            *)
CacheHonest ==
  ~vol.dirty => /\ vol.blk # NoBlock => vol.buf = vol.disk[vol.blk]
                /\ failures = 0 => \A b \in FatBlocks : vol.disk[MirrorBlock(b)] = vol.disk[b]

(* Without power failures and failed writes no cluster is lost: what the   *)
(* FAT has allocated belongs to a file of the directory or to an open one. *)
NothingLeaked ==
  LET view == [vol.disk EXCEPT ![vol.blk] = IF vol.blk = NoBlock THEN @ ELSE vol.buf]
      Owned(f) == IF handle[f].first = 0 THEN Clusters(view, f)
                  ELSE ToSet(Chain(OnDisk(view), handle[f].first)) \ {EOC}
  IN  failures = 0 /\ ~failed => {c \in Cluster : FatEntry(vol, c) # Free} = UNION {Owned(f) : f \in Names}

(* At any moment a read would give back what was written at the positions  *)
(* it runs through, wherever the file was sought to and whatever the cache *)
(* holds, unless a call has failed.                                        *)
ReadsBack ==
  ~failed =>
    \A f \in Names, n \in ReadSizes :
      handle[f].type = "normal" =>
        LET got == ReadFile(vol, handle[f], n).got
        IN  got = [i \in 1 .. Len(got) |-> Byte(f, handle[f].pos + i - 1)]

(* sync says it fails for "an I/O error" and write for a full device also: *)
(* without errors of the card, a call fails only on a full volume.         *)
FailsOnlyWhenFull ==
  [][~failed /\ failed' => \A c \in Cluster : FatEntry(vol', c) # Free]_vars
=============================================================================
