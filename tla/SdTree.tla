------------------------------- MODULE SdTree -------------------------------
(***************************************************************************)
(* Directories of SdFile and the paths of the SD class, on a FAT16 volume  *)
(* whose power can go before every write of the card.  Positions and sizes *)
(* of a directory count entries; an open file object is                    *)
(*   type, first, size, cur, pos   type_ .. curPosition_                   *)
(*   block, index, dirty           dirBlock_, dirIndex_, F_FILE_DIR_DIRTY  *)
(* An operator takes [v, o], the volume and an object, or a record with    *)
(* more, and returns it as the call leaves it.  A call that fails for want *)
(* of a cluster goes on with Settled: its callers close what they opened.  *)
(***************************************************************************)
EXTENDS Integers, Sequences, SequencesExt, FiniteSets

CONSTANTS TreeClusters,     \* clusters of the volume
          TreeBlocks,       \* blocks of a cluster
          Slots,            \* entries in a block, 16
          TreeNames,        \* the 8.3 names used in paths
          MaxDepth,         \* bound: names in a path
          MaxChanges,       \* bound: calls of a behaviour that change the card
          MaxCuts           \* bound: power failures of a behaviour

V == INSTANCE SdVolume WITH ClusterCount <- TreeClusters, BlocksPerCluster <- TreeBlocks,
                            BlockSize <- Slots, FatPerBlock <- 3, Names <- TreeNames

VARIABLES volume,           \* the volume, as in SdVolume
          listing,          \* a directory open for openNextFile: [path, o, due, seen]
          request,          \* the last call: what it is to do, and with what path
          answer,           \* what it returned
          listed,           \* the paths the last ls printed
          changes,          \* how many calls have changed the card
          cuts,             \* how often the power has failed
          broken,           \* what broke the card, or "no"
          tree,             \* the names on the card, with their kind
          room              \* whether the card has room for any path

sdTreeVars == <<volume, listing, request, answer, listed, changes, cuts, broken, tree, room>>

Paths == UNION {[1 .. n -> TreeNames] : n \in 1 .. MaxDepth}

DirEntry(name, kind, first, size) == [name |-> name, kind |-> kind, first |-> first, size |-> size]
Blank == DirEntry("", "file", 0, 0)            \* DIR_NAME_FREE and zeros
Old == DirEntry("old", "file", 0, 1)           \* an old file's data, taken for an entry
Label == DirEntry("label", "label", 0, 0)
Unused == {"", "deleted"}

Zeros == [i \in 0 .. Slots - 1 |-> Blank]

(* A card from a formatter, where files were before.                       *)
EmptyCard ==
  [b \in V!Blocks |->
     IF b[1] \in {"fat", "mirror"} THEN [c \in V!Cluster |-> V!Free]
     ELSE IF b[1] = "dir" THEN Zeros
     ELSE [i \in 0 .. Slots - 1 |-> Old]]

(* One that a computer has given a label, a file and a directory with a    *)
(* file in it, which fills the root's block and the directory's.           *)
DirectoryWith(name) ==
  [i \in 0 .. Slots - 1 |->
     CASE i = 0 -> DirEntry(".", "dir", 3, 0) [] i = 1 -> DirEntry("..", "dir", 0, 0)
       [] i = 2 -> DirEntry(name, "file", 0, 0) [] OTHER -> Blank]

UsedCard(name, other) ==
  [b \in V!Blocks |->
     IF b[1] \in {"fat", "mirror"} THEN [c \in V!Cluster |-> IF c < 4 THEN V!EOC ELSE V!Free]
     ELSE IF b[1] = "dir"
     THEN [Zeros EXCEPT ![0] = Label, ![1] = DirEntry(name, "file", 2, 2), ![2] = DirEntry(other, "dir", 3, 0)]
     ELSE IF b = V!DataBlock(3, 0) THEN DirectoryWith(name)
     ELSE [i \in 0 .. Slots - 1 |-> Old]]

Cards == {EmptyCard} \cup {UsedCard(n, m) : <<n, m>> \in {t \in TreeNames \X TreeNames : t[1] # t[2]}}

(* What a card holds: the entries of a directory before the first free one,*)
(* and the tree of them.                                                   *)
BlocksIn(chain) ==
  [i \in 1 .. TreeBlocks * Len(chain) |->
     V!DataBlock(chain[1 + (i - 1) \div TreeBlocks], (i - 1) % TreeBlocks)]

DirBlocks(disk, first) ==
  IF first = 0 THEN <<V!DirBlock>> ELSE BlocksIn(Front(V!Chain(V!Mounted(disk), first)))

EntriesIn(disk, blocks) ==
  [i \in 1 .. Slots * Len(blocks) |-> disk[blocks[1 + (i - 1) \div Slots]][(i - 1) % Slots]]

BeforeFree(all) ==
  LET used == {i \in 0 .. Len(all) : \A j \in 1 .. i : all[j].name # ""}
  IN  SubSeq(all, 1, Cardinality(used) - 1)

EntriesOf(disk, first) == BeforeFree(EntriesIn(disk, DirBlocks(disk, first)))

NoEntry == DirEntry("none", "none", 0, 0)
RootEntry == DirEntry("root", "dir", 0, 0)

(* The entries with their paths, and the tree they make.                   *)
NamedIn(disk, path, first) ==
  {[path |-> Append(path, e.name), entry |-> e] :
     e \in {d \in ToSet(EntriesOf(disk, first)) : d.name \in TreeNames}}

IsDirectory(x) == x.entry.kind = "dir" /\ (x.path = <<>> \/ x.entry.first # 0)

Contents(disk) ==
  LET level[n \in 0 .. MaxDepth] ==
        IF n = 0 THEN {[path |-> <<>>, entry |-> RootEntry]}
        ELSE UNION {NamedIn(disk, x.path, x.entry.first) : x \in {d \in level[n - 1] : IsDirectory(d)}}
  IN  UNION {level[n] : n \in 1 .. MaxDepth}

EntryOf(contents, path) ==
  IF path = <<>> THEN RootEntry
  ELSE IF \A x \in contents : x.path # path THEN NoEntry
  ELSE (CHOOSE x \in contents : x.path = path).entry

EntryAt(disk, path) == EntryOf(Contents(disk), path)

KindsOf(contents) == [p \in {x.path : x \in contents} |-> EntryOf(contents, p).kind]
TreeOf(disk) == KindsOf(Contents(disk))

(* Any path fits when two clusters and a slot of the root are free.        *)
RoomOn(disk) ==
  /\ Cardinality({c \in V!Cluster : disk[V!FatBlock(c)][c] = V!Free}) >= MaxDepth
  /\ \E i \in 0 .. Slots - 1 : disk[V!DirBlock][i].name \in Unused

(* The card in the hands of the program, for FileTree.                     *)
CardHolds(disk) == tree = TreeOf(disk) /\ room = RoomOn(disk)

NotOpen == [type |-> "closed", first |-> 0, size |-> 0, cur |-> 0, pos |-> 0,
            block |-> V!NoBlock, index |-> 0, dirty |-> FALSE]
OpenRoot == [NotOpen EXCEPT !.type = "root", !.size = Slots]

NoListing == [path |-> <<>>, o |-> NotOpen, due |-> {}, seen |-> {}]

SdTreeInit ==
  /\ \E disk \in Cards : volume = V!Mounted(disk) /\ CardHolds(disk)
  /\ listing = NoListing /\ request = <<"begin", <<>>>> /\ answer = FALSE /\ listed = {}
  /\ changes = 0 /\ cuts = 0 /\ broken = "no"
-----------------------------------------------------------------------------
IsDir(o) == o.type \in {"root", "subdir"}
Rewound(o) == [o EXCEPT !.cur = 0, !.pos = 0]
Settled(v) == [v EXCEPT !.ok = TRUE]

FollowChain(x) == [x EXCEPT !.v = V!FatGet(@, x.o.cur), !.o.cur = V!FatEntry(x.v, @)]

(* read of one byte or entry, with the position moved behind the entry.    *)
EntryCluster(x) ==
  IF x.o.type = "root" \/ x.o.pos % V!ClusterSize # 0 THEN x
  ELSE IF x.o.pos = 0 THEN [x EXCEPT !.o.cur = x.o.first] ELSE FollowChain(x)

EntryBlock(o) ==
  IF o.type = "root" THEN V!DirBlock
  ELSE V!DataBlock(o.cur, (o.pos % V!ClusterSize) \div Slots)

CachedEntry(x) == [x EXCEPT !.v = V!CacheRawBlock(@, EntryBlock(x.o)), !.o.pos = @ + 1]
ReadDirCache(x) == CachedEntry(EntryCluster(x))

LastIndex(x) == (x.o.pos - 1) % Slots
LastRead(x) == x.v.buf[LastIndex(x)]

(* seekSet, counting clusters from the current one when it can.            *)
ClusterOf(pos) == (pos - 1) \div V!ClusterSize

FollowedTo(x, pos) ==
  LET back == x.o.pos = 0 \/ ClusterOf(pos) < ClusterOf(x.o.pos)
      steps == IF back THEN ClusterOf(pos) ELSE ClusterOf(pos) - ClusterOf(x.o.pos)
  IN  FoldLeft(LAMBDA y, i : FollowChain(y),
               [x EXCEPT !.o.cur = IF back THEN x.o.first ELSE @], [i \in 1 .. steps |-> i])

SeekSet(x, pos) ==
  IF pos = 0 /\ x.o.type # "root" THEN [x EXCEPT !.o = Rewound(@)]
  ELSE [(IF x.o.type = "root" THEN x ELSE FollowedTo(x, pos)) EXCEPT !.o.pos = pos]

(* sync, which a directory's size does not take part in, and close.        *)
SyncedEntry(e, o) ==
  [e EXCEPT !.first = o.first, !.size = IF IsDir(o) THEN @ ELSE o.size]

SetSynced(v, o) == V!SetCached(v, o.index, SyncedEntry(v.buf[o.index], o))
SyncObject(v, o) ==
  V!CacheFlush(IF o.dirty THEN SetSynced(V!CacheRawBlock(v, o.block), o) ELSE v)

CloseObject(v, o) == IF o.type = "closed" THEN v ELSE SyncObject(v, o)
CloseUnlessRoot(v, o) == IF o.type = "root" THEN v ELSE CloseObject(v, o)
-----------------------------------------------------------------------------
(* openCachedEntry: [v, o, ok].  The size of a directory is that of its    *)
(* chain; only files are opened for writing.                               *)
OpenedAs(v, o, type, size) ==
  [v |-> v, o |-> [o EXCEPT !.type = type, !.size = size], ok |-> TRUE]

OpenedDir(v, o, chain) ==
  OpenedAs(FoldLeft(V!FatGet, v, Front(chain)), o, "subdir", (Len(chain) - 1) * V!ClusterSize)

OpenEntry(v, index, write) ==
  LET e == v.buf[index]
      o == [NotOpen EXCEPT !.block = v.blk, !.index = index, !.first = e.first]
  IN  IF e.kind = "file" THEN OpenedAs(v, o, "file", e.size)
      ELSE IF e.kind = "dir" /\ ~write THEN OpenedDir(v, o, V!Chain(v, e.first))
      ELSE [v |-> v, o |-> NotOpen, ok |-> FALSE]

(* addDirCluster: the new cluster is zeroed after it is linked, its first  *)
(* block last, which stays in the cache.                                   *)
CacheZeroBlock(v, block) ==
  [V!CacheFlush(v) EXCEPT !.blk = block, !.buf = Zeros, !.dirty = TRUE]

Zeroed(v, c) ==
  FoldLeft(CacheZeroBlock, v, [i \in 1 .. TreeBlocks |-> V!DataBlock(c, TreeBlocks - i)])

Lengthened(x, w, c) ==
  IF ~w.ok THEN [x EXCEPT !.v = w]
  ELSE [x EXCEPT !.v = w, !.o.cur = c, !.o.size = @ + V!ClusterSize,
                 !.o.first = IF @ = 0 THEN c ELSE @, !.o.dirty = @ \/ x.o.first = 0]

AddDirCluster_Mutated(x) == Lengthened(x, V!AllocCluster(x.v, x.o.cur), V!FoundCluster(x.v, x.o.cur))

ZeroedIn(x) == IF x.v.ok THEN [x EXCEPT !.v = Zeroed(@, x.o.cur)] ELSE x
AddDirCluster(x) ==
  ZeroedIn(Lengthened(x, V!AllocCluster(x.v, x.o.cur), V!FoundCluster(x.v, x.o.cur)))

(* The search of open by name, to the name, a free slot or the end.        *)
NoSlot == <<V!NoBlock, 0>>

Looked(x, name) ==
  LET e == LastRead(x)
  IN  IF e.name = name THEN [x EXCEPT !.end = "found"]
      ELSE IF e.name \notin Unused THEN x
      ELSE [x EXCEPT !.slot = IF @ = NoSlot THEN <<x.v.blk, LastIndex(x)>> ELSE @,
                     !.end = IF e.name = "" THEN "free" ELSE @]

RECURSIVE SearchOn(_, _)
SearchOn(x, name) ==
  IF x.end # "no" \/ x.o.pos >= x.o.size THEN x
  ELSE SearchOn(Looked(ReadDirCache(x), name), name)

SearchFor(v, dir, name) ==
  SearchOn([v |-> v, o |-> Rewound(dir), slot |-> NoSlot, end |-> "no"], name)

(* What open returns: its volume, the directory's object and the file's.   *)
Opened(x, dir) == [v |-> x.v, dir |-> dir, o |-> x.o, ok |-> x.ok]
NotOpened(v, dir) == [v |-> Settled(v), dir |-> dir, o |-> NotOpen, ok |-> FALSE]

(* A new entry goes to the first slot found, or to a new cluster.          *)
NewEntry(v, index, name) ==
  OpenEntry(V!CacheFlush(V!SetCached(v, index, DirEntry(name, "file", 0, 0))), index, TRUE)

NewEntryBehind(x, name) ==
  IF x.v.ok THEN Opened(NewEntry(x.v, 0, name), x.o) ELSE NotOpened(x.v, x.o)

CreateEntry(x, name) ==
  IF x.slot # NoSlot
  THEN Opened(NewEntry(V!CacheRawBlock(x.v, x.slot[1]), x.slot[2], name), x.o)
  ELSE IF x.o.type = "root" THEN NotOpened(x.v, x.o)
  ELSE NewEntryBehind(AddDirCluster(x), name)

(* open by name.  The mode is "read" or "write" of an existing file,       *)
(* "create" to make it if needed, or "new" to make it.  An empty file in   *)
(* place of the directory has no entry to read, and gets a cluster.        *)
OpenFound(x, name, mode) ==
  IF x.end = "found"
  THEN IF mode = "new" THEN NotOpened(x.v, x.o)
       ELSE Opened(OpenEntry(x.v, LastIndex(x), mode # "read"), x.o)
  ELSE IF mode \in {"read", "write"} THEN NotOpened(x.v, x.o)
  ELSE CreateEntry(x, name)

OpenIn(v, dir, name, mode) ==
  IF ~IsDir(dir) /\ dir.size > 0 THEN NotOpened(v, Rewound(dir))
  ELSE OpenFound(SearchFor(v, dir, name), name, mode)

(* open by index: only read is used. *)
OpenRead(x) ==
  IF LastRead(x).name \in Unused \cup {".", ".."} THEN NotOpened(x.v, x.o)
  ELSE Opened(OpenEntry(x.v, LastIndex(x), FALSE), x.o)

OpenAt(x, index) == OpenRead(ReadDirCache(SeekSet(x, index)))
-----------------------------------------------------------------------------
(* makeDir: the entry is a file's until the cluster is there and zeroed.   *)
Dots(v, e, dir) ==
  [v.buf EXCEPT ![0] = [e EXCEPT !.name = "."],
                ![1] = [e EXCEPT !.name = "..", !.first = IF dir.type = "root" THEN 0 ELSE dir.first]]

SetKind(v, o) == V!SetCached(v, o.index, [v.buf[o.index] EXCEPT !.kind = "dir"])

WithDots(v, e, dir) == V!CacheFlush([v EXCEPT !.buf = Dots(v, e, dir), !.dirty = TRUE])

AsDirectory(v, o, dir) ==
  WithDots(V!CacheRawBlock(v, V!DataBlock(o.first, 0)), v.buf[o.index], dir)

NewDirectory(v, o, dir) == AsDirectory(SetKind(V!CacheRawBlock(v, o.block), o), o, dir)

Directory(x, grown) ==
  IF ~grown.v.ok THEN NotOpened(grown.v, x.dir)
  ELSE [x EXCEPT !.v = NewDirectory(SyncObject(grown.v, grown.o), grown.o, x.dir)]

DirectoryAt(x) ==
  IF x.ok THEN Directory(x, AddDirCluster([v |-> x.v, o |-> [x.o EXCEPT !.type = "subdir"]])) ELSE x

MakeDir(v, dir, name) == DirectoryAt(OpenIn(v, dir, name, "new"))

(* truncate(0) and remove of an open file. *)
TruncateAll(v, o) ==
  IF o.size = 0 THEN v
  ELSE SyncObject(V!FreeChain(v, o.first), [o EXCEPT !.first = 0, !.size = 0, !.dirty = TRUE])

SetDeleted(v, index) == V!SetCached(v, index, [v.buf[index] EXCEPT !.name = "deleted"])
RemoveOpen(v, o) == V!CacheFlush(SetDeleted(V!CacheRawBlock(TruncateAll(v, o), o.block), o.index))

(* readDir: on to the next entry that is not deleted, "." or "..".         *)
Occupied(e) == e.name \notin Unused \cup {".", ".."} /\ e.kind \in {"file", "dir"}

Judged(x) ==
  [x EXCEPT !.end = IF LastRead(x).name = "" THEN "free"
                    ELSE IF Occupied(LastRead(x)) THEN "occupied" ELSE @]

RECURSIVE ReadOn(_)
ReadOn(x) ==
  IF x.end # "no" \/ x.o.pos >= x.o.size THEN x ELSE ReadOn(Judged(ReadDirCache(x)))

ReadDir(v, o) == ReadOn([v |-> v, o |-> o, end |-> "no"])

(* rmDir: a directory in which readDir finds nothing is removed as a file. *)
RmDirOpen_Mutated(v, o) == [v |-> RemoveOpen(v, [o EXCEPT !.type = "file"]), ok |-> TRUE]

RemoveIfEmpty(x, o) ==
  IF x.end = "occupied" THEN [v |-> x.v, ok |-> FALSE]
  ELSE [v |-> RemoveOpen(x.v, [o EXCEPT !.type = "file"]), ok |-> TRUE]

RmDirOpen(v, o) ==
  IF o.type # "subdir" THEN [v |-> v, ok |-> FALSE] ELSE RemoveIfEmpty(ReadDir(v, Rewound(o)), o)

(* rmRfStar: every entry is opened by its index and removed.               *)
BackTo(x, index) == IF x.o.pos = index THEN x ELSE SeekSet(x, index)

RECURSIVE RmRfOn(_), RmRfOpen(_, _)
RemoveAny(v, o) == IF o.type = "subdir" THEN RmRfOpen(v, o) ELSE RemoveOpen(v, o)

RmRfEntry(x, index, f) == BackTo([x EXCEPT !.v = RemoveAny(f.v, f.o), !.o = f.dir], index + 1)

RmRfNext(x, index) ==
  IF LastRead(x).name = "" THEN [x EXCEPT !.end = "free"]
  ELSE IF Occupied(LastRead(x)) THEN RmRfEntry(x, index, OpenAt(x, index)) ELSE x

RmRfOn(x) ==
  IF x.end # "no" \/ x.o.pos >= x.o.size THEN x ELSE RmRfOn(RmRfNext(ReadDirCache(x), x.o.pos))

RmDirUnlessRoot(v, o) == IF o.type = "root" THEN v ELSE RmDirOpen(v, o).v
RmRfOpen(v, o) == RmDirUnlessRoot(RmRfOn([v |-> v, o |-> Rewound(o), end |-> "no"]).v, o)
-----------------------------------------------------------------------------
(* walkPath: the callback sees each name of the path in the directory      *)
(* before it, as long as it returns true; the object of a directory is     *)
(* closed when the next one is open.  [v, o, ok, last] stands for the      *)
(* volume, the directory and whether and with what the walk has ended.     *)
InChild(x) ==
  [v |-> CloseUnlessRoot(x.v, x.dir), dir |-> x.o, ok |-> x.ok, end |-> ~x.ok]

WalkOn(x, name, last) ==
  IF x.ok /\ ~last THEN InChild(OpenIn(x.v, x.dir, name, "read"))
  ELSE [v |-> CloseUnlessRoot(x.v, x.dir), dir |-> NotOpen, ok |-> x.ok, end |-> TRUE]

FileClosed(x) == [x EXCEPT !.v = CloseObject(@, x.o)]
PathExists(v, dir, name, last) == FileClosed(OpenIn(v, dir, name, "read"))

MadeUnlessThere(x, name) == IF x.ok THEN x ELSE MakeDir(x.v, x.dir, name)
MakeDirPath(v, dir, name, last) == MadeUnlessThere(PathExists(v, dir, name, last), name)

NotLast(v, dir) == [v |-> v, dir |-> dir, ok |-> TRUE]

FileRemoved(x) == IF x.ok THEN [x EXCEPT !.v = RemoveOpen(@, x.o)] ELSE x
RemovePath(v, dir, name, last) ==
  IF last THEN FileRemoved(OpenIn(v, dir, name, "write")) ELSE NotLast(v, dir)

RmDirSaid(x, r) == [x EXCEPT !.v = r.v, !.ok = r.ok]
DirRemoved(x) == IF x.ok THEN RmDirSaid(x, RmDirOpen(x.v, x.o)) ELSE x
RmDirPath(v, dir, name, last) ==
  IF last THEN DirRemoved(OpenIn(v, dir, name, "read")) ELSE NotLast(v, dir)

Callback(what, v, dir, name, last) ==
  CASE what = "exists" -> PathExists(v, dir, name, last)
    [] what = "mkdir" -> MakeDirPath(v, dir, name, last)
    [] what = "remove" -> RemovePath(v, dir, name, last)
    [] what = "rmdir" -> RmDirPath(v, dir, name, last)

WalkStep(x, name, last, what) == WalkOn(Callback(what, x.v, x.dir, name, last), name, last)

WalkPath(v, path, what) ==
  FoldLeft(LAMBDA x, i : IF x.end THEN x ELSE WalkStep(x, path[i], i = Len(path), what),
           [v |-> v, dir |-> OpenRoot, ok |-> TRUE, end |-> FALSE], [i \in 1 .. Len(path) |-> i])

(* getParentDir: the directory of the names, closed when one is missing.   *)
ParentOf(x) ==
  IF x.ok THEN [v |-> CloseObject(x.v, x.dir), dir |-> x.o, ok |-> TRUE]
  ELSE [v |-> x.v, dir |-> NotOpen, ok |-> FALSE]

GetParentDir(v, names) ==
  FoldLeft(LAMBDA x, name : IF x.ok THEN ParentOf(OpenIn(x.v, x.dir, name, "read")) ELSE x,
           [v |-> v, dir |-> OpenRoot, ok |-> TRUE], names)

(* SD.open for writing, and close.                                         *)
OpenClosed(x) == IF x.ok THEN [x EXCEPT !.v = CloseObject(CloseObject(@, x.dir), x.o)] ELSE x
OpenChild(x, name) == IF x.ok THEN OpenClosed(OpenIn(x.v, x.dir, name, "create")) ELSE x
OpenToWrite(v, path) == OpenChild(GetParentDir(v, Front(path)), Last(path))

(* ls, with everything below a directory listed in its place.              *)
RECURSIVE LsOn(_, _), LsOpen(_, _, _)
LsBelow(x, f, index, path, below) ==
  SeekSet([x EXCEPT !.v = below.v, !.o = f.dir, !.paths = Append(@, path) \o below.paths], index + 1)

LsDir(x, f, index, path) == LsBelow(x, f, index, path, LsOpen(f.v, f.o, path))

LsEntry(x, index, path) ==
  IF LastRead(x).kind = "dir" THEN LsDir(x, OpenAt(x, index), index, path)
  ELSE [x EXCEPT !.paths = Append(@, path)]

LsNext(x, path) ==
  IF LastRead(x).name = "" THEN [x EXCEPT !.end = "free"]
  ELSE IF Occupied(LastRead(x)) THEN LsEntry(x, x.o.pos - 1, Append(path, LastRead(x).name)) ELSE x

LsOn(x, path) ==
  IF x.end # "no" \/ x.o.pos >= x.o.size THEN x ELSE LsOn(LsNext(ReadDirCache(x), path), path)

LsOpen(v, o, path) ==
  LsOn([v |-> v, o |-> Rewound(o), paths |-> <<>>, end |-> "no"], path)
-----------------------------------------------------------------------------
(* What a power failure can leave that the code cannot be asked to follow: *)
(* an entry whose clusters are free already, a directory whose last        *)
(* cluster was linked and not zeroed; and what it never should leave.      *)
FreedFirst(disk) ==
  \E x \in Contents(disk) :
    IF x.entry.first = 0 THEN x.entry.kind = "dir"
    ELSE Last(V!Chain(V!Mounted(disk), x.entry.first)) = V!Free

NotZeroed(disk) ==
  \E x \in {d \in Contents(volume.disk) : d.entry.kind = "dir"} :
    \E b \in ToSet(DirBlocks(disk, x.entry.first)) \ ToSet(DirBlocks(volume.disk, x.entry.first)) :
      disk[b] = volume.disk[b] /\ disk[b] # Zeros

(* A call took a file for a directory: it went on in it, or changed it.    *)
InFile(path, disk, ok) ==
  \E x \in Contents(volume.disk) :
    /\ x.entry.kind = "file" /\ IsStrictPrefix(x.path, path)
    /\ ok \/ x \notin Contents(disk)
-----------------------------------------------------------------------------
Answers(v, ok) ==
  /\ volume' = Settled([v EXCEPT !.writes = <<>>])
  /\ IF v.disk = volume.disk THEN UNCHANGED <<tree, room>>
     ELSE tree' = TreeOf(v.disk) /\ room' = RoomOn(v.disk)
  /\ changes' = changes + (IF v.disk = volume.disk THEN 0 ELSE 1) /\ changes' <= MaxChanges
  /\ answer' = ok /\ UNCHANGED cuts

Requests(what, path) == request' = <<what, path>>

(* The power fails, between calls or after some of the writes of a call;   *)
(* SD.begin mounts what is there.                                          *)
CutTo(disks) ==
  /\ cuts < MaxCuts /\ cuts' = cuts + 1 /\ changes < MaxChanges /\ changes' = changes + 1
  /\ \E disk \in disks :
       volume' = V!Mounted(disk) /\ tree' = TreeOf(disk) /\ room' = RoomOn(disk)
  /\ listing' = NoListing /\ answer' = FALSE /\ listed' = {}

CutOff(v) == CutTo(ToSet(v.writes))
CutBetween == CutTo({volume.disk}) /\ Requests("cut", <<>>) /\ UNCHANGED broken

Breaks(how) == broken' = IF how THEN "cut" ELSE "no"

Exists(path) ==
  \E x \in {WalkPath(volume, path, "exists")} :
    Answers(x.v, x.ok) /\ Requests("exists", path) /\ listed' = {} /\ UNCHANGED <<listing, broken>>

(* mkdir and open for writing make entries.                                *)
Makes(path, x) ==
  \/ /\ Answers(x.v, x.ok)
     /\ broken' = IF InFile(path, x.v.disk, x.ok) THEN "file" ELSE "no"
     /\ listed' = {} /\ UNCHANGED listing
  \/ /\ CutOff(x.v)
     /\ broken' = IF InFile(path, volume'.disk, FALSE) THEN "file"
                  ELSE IF NotZeroed(volume'.disk) THEN "cut" ELSE "no"

MkDir(path) ==
  Requests("mkdir", path) /\ \E x \in {WalkPath(volume, path, "mkdir")} : Makes(path, x)
OpenWrite(path) ==
  Requests("open", path) /\ \E x \in {OpenToWrite(volume, path)} : Makes(path, x)

(* remove, rmdir and rmRfStar.  The program does not remove a directory it *)
(* is listing, or one above it.                                            *)
Dropped(path) ==
  IF Len(path) > 0 /\ Front(path) = listing.path
  THEN [listing EXCEPT !.due = @ \ {Last(path)}, !.seen = @ \ {Last(path)}]
  ELSE listing

Removes(path, v, ok) ==
  \/ /\ Answers(v, ok)
     /\ listing' = Dropped(path) /\ listed' = {} /\ UNCHANGED broken
  \/ CutOff(v) /\ Breaks(FreedFirst(volume'.disk))

NotListed(path) == listing = NoListing \/ ~IsPrefix(path, listing.path)

RemoveName(path) ==
  Requests("remove", path) /\ \E x \in {WalkPath(volume, path, "remove")} : Removes(path, x.v, x.ok)

RmDir(path) ==
  /\ NotListed(path) /\ Requests("rmdir", path)
  /\ \E x \in {WalkPath(volume, path, "rmdir")} : Removes(path, x.v, x.ok)

RmRfStar(path) ==
  /\ NotListed(path) /\ Requests("rmRfStar", path)
  /\ \E x \in {GetParentDir(volume, path)} :
       IF x.ok /\ IsDir(x.dir) THEN Removes(path, RmRfOpen(x.v, x.dir), TRUE)
       ELSE Removes(path, x.v, FALSE)

Ls ==
  \E x \in {LsOpen(volume, OpenRoot, <<>>)} :
    /\ Answers(x.v, TRUE) /\ Requests("ls", <<>>)
    /\ listed' = ToSet(x.paths) /\ UNCHANGED <<listing, broken>>

(* SD.open of a directory, and openNextFile until it finds no more.        *)
NamesIn(disk, path) == {e.name : e \in ToSet(EntriesOf(disk, EntryAt(disk, path).first))} \cap TreeNames

OpenDir(path) ==
  /\ listing = NoListing /\ Requests("openDir", path)
  /\ \E x \in {GetParentDir(volume, path)} :
       /\ x.ok /\ IsDir(x.dir)
       /\ Answers(x.v, TRUE)
       /\ listing' = [path |-> path, o |-> x.dir, due |-> NamesIn(volume.disk, path), seen |-> {}]
       /\ listed' = {} /\ UNCHANGED broken

OpenNext_Mutated(v, o, name) == [OpenIn(v, o, name, "read") EXCEPT !.dir = Rewound(o)]

(* It opens what it has found by name, which moves the directory's object. *)
OpenNext(v, o, name) == OpenIn(v, o, name, "read")

NextFile ==
  /\ listing # NoListing /\ Requests("openNextFile", <<>>)
  /\ \E x \in {ReadDir(volume, listing.o)} :
       IF x.end # "occupied"
       THEN Answers(CloseObject(x.v, x.o), FALSE) /\ listing' = NoListing
       ELSE \E f \in {OpenNext(x.v, x.o, LastRead(x).name)} :
              /\ Answers(CloseObject(f.v, f.o), f.ok)
              /\ listing' = [listing EXCEPT !.o = f.dir, !.seen = @ \cup {LastRead(x).name}]
  /\ listed' = {} /\ UNCHANGED broken

SdTreeNext ==
  /\ broken = "no"
  /\ \/ \E path \in Paths :
          \/ Exists(path) \/ MkDir(path) \/ OpenWrite(path) \/ RemoveName(path)
          \/ RmDir(path) \/ RmRfStar(path) \/ OpenDir(path)
     \/ RmRfStar(<<>>) \/ OpenDir(<<>>) \/ Ls \/ NextFile \/ CutBetween

SdTreeSpec == SdTreeInit /\ [][SdTreeNext]_sdTreeVars
-----------------------------------------------------------------------------
ClustersOf(e) ==
  IF e.first = 0 THEN {} ELSE ToSet(V!Chain(V!Mounted(volume.disk), e.first)) \ {V!EOC}

(* At any moment, also with the power gone between two writes, every entry *)
(* of the tree has a chain of its own that ends, and every directory holds *)
(* entries with different names; its own and its parent's name the right   *)
(* clusters.  Without power failures both are there and no cluster is lost.*)
(* Only a removal cut off between the FAT and the entry, a directory cut   *)
(* off before its new cluster is zeroed and a path through a file are      *)
(* excepted.                                                               *)
DirectorySound(path, e) ==
  LET entries == EntriesOf(volume.disk, e.first)
      named == SelectSeq(entries, LAMBDA d : d.name \in TreeNames)
      parent == EntryAt(volume.disk, Front(path))
  IN  /\ e.first # 0
      /\ \A i, j \in DOMAIN named : named[i].name = named[j].name => i = j
      /\ \A i \in DOMAIN entries :
           /\ entries[i].name \in TreeNames \cup {".", "..", "deleted"}
           /\ entries[i].name = "." => i = 1 /\ entries[i].first = e.first
           /\ entries[i].name = ".." => i = 2 /\ entries[i].first = parent.first
      /\ cuts = 0 => Len(entries) >= 2 /\ entries[2].name = ".."

TreeSound ==
  broken = "no" =>
    LET there == Contents(volume.disk)
        owned == {<<x.path, ClustersOf(x.entry)>> : x \in there}
    IN  /\ \A x \in there :
             /\ x.entry.first # 0 => Last(V!Chain(V!Mounted(volume.disk), x.entry.first)) = V!EOC
             /\ x.entry.kind = "dir" => DirectorySound(x.path, x.entry)
        /\ \A p, q \in owned : p[1] # q[1] => p[2] \cap q[2] = {}
        /\ cuts = 0 =>
             {c \in V!Cluster : V!FatEntry(volume, c) # V!Free} = UNION {p[2] : p \in owned}

(* Every call does to the tree of names what it says, or what FileTree     *)
(* lets a full card or a power failure make of it, and returns the truth.  *)
Promise == INSTANCE FileTree WITH lost <- broken # "no"

ImplementsFileTree == Promise!Spec

(* A directory is listed once each: what was in it from the beginning of   *)
(* the listing to its end, whatever is made and removed meanwhile.         *)
ListsThroughout ==
  [][NextFile => IF listing' = NoListing THEN listing.due \subseteq listing.seen
                 ELSE listing'.seen # listing.seen]_sdTreeVars

(* "Reasons for failure include this SdFile is already open, \a difFile is *)
(* not a directory": no entry is made in a file.                           *)
OpensInDirectories == broken # "file"
=============================================================================
