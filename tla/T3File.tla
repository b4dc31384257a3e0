------------------------------- MODULE T3File -------------------------------
(***************************************************************************)
(* file_t3.cpp, fat_t3.cpp and the second half of init_t3.cpp: files read  *)
(* through the cache, by the main program and from within interrupts, as   *)
(* SD_t3.h says.  Thread 1 is the main program; thread t runs only while   *)
(* no higher one is in a call.  The bus transaction keeps the interrupts   *)
(* out of SDCache::read, so that it is one step; they come between it, the *)
(* copy, and the release.  Each thread reads a file of its own, interrupts *)
(* from its begin to its end.                                              *)
(*                                                                         *)
(* The bytes of a sector are pairs of its number and their place in it.    *)
(***************************************************************************)
EXTENDS T3Cache

CONSTANTS Thread,       \* 1 .. the number of threads
          Volumes,      \* volumes of cards, see below
          Sizes,        \* by thread: sizes that are read
          CacheSizes,   \* sizes of the cache: SD_CACHE_SIZE, 7
          SectorBytes,  \* 512
          Fat16Links,   \* links in a sector of a FAT16 volume, 256
          Fat32Links,   \* and of a FAT32 one, 128
          Fat12Clusters,\* 4085: with fewer clusters it is a FAT12 volume
          Fat16Clusters \* 65525: with more it is a FAT32 one

ASSUME ThreadAssumption ==
  /\ Thread \subseteq Nat /\ IsFiniteSet(Thread)
  /\ CacheSizes \subseteq Nat \ {0} /\ {SectorBytes, Fat16Links, Fat32Links} \subseteq Nat \ {0}

(* A volume: types: of the partitions, none on a card without an MBR;      *)
(* partition: the sector at which the first FAT volume begins; reserved,   *)
(* perFat, rootSectors, perCluster, total: its sizes in sectors; fat: the  *)
(* links; chain and length: of the file of each thread.                    *)
VARIABLES vol,          \* the volume of the card
          sd,           \* SDClass's statics, as begin has set them
          cache,        \* SDCache::cache_list
          file,         \* by thread: [offset, current_cluster]
          task          \* by thread: the call it is in

vars == <<vol, sd, cache, file, task>>

FatTypes == {6, 11, 12}

(* begin, from the MBR on.  "while (index < 64)" ends the loop over the    *)
(* partitions after the first; if that is of no known type, sector 0       *)
(* itself is taken for the volume.                                         *)
PartitionAt(v) == IF v.types # <<>> /\ v.types[1] \in FatTypes THEN v.partition ELSE 0

Begun(v) ==
  LET clusters == (v.total - v.reserved - v.rootSectors - 2 * v.perFat) \div v.perCluster
  IN  [ok |-> PartitionAt(v) = v.partition /\ v.reserved > 0 /\ clusters >= Fat12Clusters,
       fat16 |-> clusters < Fat16Clusters,
       fat1 |-> PartitionAt(v) + v.reserved,
       data |-> PartitionAt(v) + v.reserved + 2 * v.perFat + v.rootSectors,
       max |-> clusters + 1]

(* A file's clusters are linked in the FAT, its last link is none, and it   *)
(* is not longer than they are.                                            *)
ASSUME VolumeAssumption ==
  /\ \A t \in Thread : Sizes[t] \subseteq Nat
  /\ \A v \in Volumes :
       /\ v.perCluster \in Nat \ {0}
       /\ {v.partition, v.reserved, v.perFat, v.rootSectors, v.total} \subseteq Nat
       /\ v.fat \in [DOMAIN v.fat -> Nat] /\ v.chain \in [Thread -> Seq(DOMAIN v.fat \cap Nat)]
       /\ \A t \in Thread :
            /\ v.length[t] \in 0 .. Len(v.chain[t]) * (v.perCluster * SectorBytes)
            /\ \A k \in 1 .. Len(v.chain[t]) :
                 /\ v.chain[t][k] <= Begun(v).max
                 /\ IF k = Len(v.chain[t]) THEN v.fat[v.chain[t][k]] > Begun(v).max
                    ELSE v.fat[v.chain[t][k]] = v.chain[t][k + 1]

ClusterBytes == vol.perCluster * SectorBytes
custer_to_sector(cluster) == (cluster - 2) * vol.perCluster + sd.data

is_new_cluster_Mutated(lba) == (lba - 1) % vol.perCluster = 0

is_new_cluster(lba) == lba % vol.perCluster = 0

FatSector(cluster) ==
  sd.fat1 + cluster \div (IF sd.fat16 THEN Fat16Links ELSE Fat32Links)

Idle == [at |-> "idle", for |-> "none", from |-> 0, want |-> 0, got |-> <<>>, lba |-> 0, item |-> None,
         count |-> 0, save |-> 0, ended |-> "well"]

Start(t) == IF vol.chain[t] = <<>> THEN 0 ELSE Head(vol.chain[t])

Init ==
  /\ vol \in Volumes
  /\ sd = Begun(vol)
  /\ cache \in {EmptyCache(n) : n \in CacheSizes}
  /\ file = [t \in Thread |-> [offset |-> 0, current |-> Start(t), spoiled |-> FALSE]]
  /\ task = [t \in Thread |-> Idle]

(* A thread runs if no interrupt above it is in a call.                    *)
Runs(t, at) == task[t].at = at /\ \A u \in Thread : u > t => task[u].at = "idle"

Set(t, changed) == task' = [task EXCEPT ![t] = changed]
-----------------------------------------------------------------------------
(* File::read, of no more than there is, and peek, which reads a byte.     *)
Reads(t, size, for) ==
  LET want == Min({size, vol.length[t] - file[t].offset})
  IN  /\ Runs(t, "idle") /\ sd.ok /\ want > 0
      /\ Set(t, [Idle EXCEPT !.at = "sector", !.for = for, !.from = file[t].offset, !.want = want,
                   !.save = file[t].current,
                   !.lba = custer_to_sector(file[t].current)
                           + (file[t].offset % ClusterBytes) \div SectorBytes])
      /\ UNCHANGED <<vol, sd, cache, file>>

Read(t, size) == Reads(t, size, "read")
Peek(t) == Reads(t, 1, "peek")

Left(t) == task[t].want - Len(task[t].got)
Within(t) == file[t].offset % SectorBytes
WholeSector(t) == Within(t) = 0 /\ Left(t) >= SectorBytes

(* SDCache::read, into the cache or, of a whole sector, to memory, which   *)
(* leaves an entry it finds without data.  Nothing is had if the card      *)
(* fails to read, or if all entries are in use: the call then ends with    *)
(* what it has, and the entry that has no data is let go.                  *)
Fetch(t, lba, allocate, at) ==
  LET got == Get(cache, lba, allocate)
      hit == got.item # None /\ Entry(got.cache, got.item).data
      had == got.item # None \/ ~allocate
      cached == hit \/ allocate
  IN  /\ UNCHANGED <<vol, sd>>
      /\ \/ /\ had
            /\ cache' = IF hit THEN got.cache
                        ELSE IF allocate THEN Filled(got.cache) ELSE Release(got.cache, got.item)
            /\ Set(t, [task[t] EXCEPT !.at = at, !.item = IF cached THEN got.item ELSE None])
            /\ UNCHANGED file
         \/ /\ ~hit
            /\ cache' = Release(got.cache, got.item)
            /\ Set(t, [task[t] EXCEPT !.at = "return", !.ended = "no sector"])
            /\ file' = [file EXCEPT ![t].spoiled = @ \/ (at = "linked" /\ task[t].for = "read"),
                                    ![t].current = IF task[t].for = "seek" THEN task[t].save ELSE @]

FetchSector(t) == Runs(t, "sector") /\ Fetch(t, task[t].lba, ~WholeSector(t), "copy")

(* What the sector the thread has got holds: the cached one, or the one    *)
(* that was read to memory.                                                *)
Sector(t) == IF task[t].item = None THEN task[t].lba ELSE Entry(cache, task[t].item).lba

(* The copy, after which the SDCache object goes out of scope.  A sector   *)
(* that is used up is followed by the next lba, and by the next cluster if *)
(* that looks like the first of one.                                       *)
Copy(t) ==
  LET n == Min({SectorBytes - Within(t), Left(t)})
      bytes == [k \in 1 .. n |-> <<Sector(t), Within(t) + k - 1>>]
      usedUp == Within(t) + n = SectorBytes
      next == task[t].lba + 1
  IN  /\ Runs(t, "copy")
      /\ file' = [file EXCEPT ![t].offset = @ + n]
      /\ Set(t, [task[t] EXCEPT !.got = @ \o bytes, !.lba = IF usedUp THEN next ELSE @,
                   !.at = IF ~usedUp THEN "drop"
                          ELSE IF is_new_cluster(next) THEN "drop, link" ELSE "drop, go on"])
      /\ UNCHANGED <<vol, sd, cache>>

Drop(t, at, label) ==
  /\ Runs(t, at)
  /\ cache' = Release(cache, task[t].item)
  /\ Set(t, [task[t] EXCEPT !.at = label, !.item = None])
  /\ UNCHANGED <<vol, sd, file>>

GoOn(t) == IF Left(t) = 0 THEN "return" ELSE "sector"

Drops(t) ==
  \/ Drop(t, "drop", "return") \/ Drop(t, "drop, link", "link") \/ Drop(t, "drop, go on", GoOn(t))

(* next_cluster: the FAT's sector, and the link in it.                     *)
FetchFat(t) == Runs(t, "link") /\ Fetch(t, FatSector(file[t].current), TRUE, "linked")

(* Any, if that is no longer the sector of the link, or none of the FAT.   *)
Links(t) ==
  IF Sector(t) = FatSector(file[t].current) /\ file[t].current \in DOMAIN vol.fat
  THEN {vol.fat[file[t].current]} ELSE {0, sd.max + 1}

(* The link is taken even if it ends the chain; a seek then goes back to   *)
(* the cluster it began with.                                              *)
Linked(t) == \E link \in Links(t) :
  LET more == link <= sd.max
      seeks == task[t].for = "seek"
      last == task[t].count = 1
  IN  /\ Runs(t, "linked")
      /\ cache' = Release(cache, task[t].item)
      /\ file' = [file EXCEPT ![t].current = IF seeks /\ ~more THEN task[t].save ELSE link,
                              ![t].offset = IF seeks /\ more /\ last THEN task[t].want ELSE @]
      /\ Set(t, [task[t] EXCEPT !.item = None, !.count = @ - 1,
                   !.ended = IF more THEN @ ELSE "no link",
                   !.at = IF ~more \/ (seeks /\ last) THEN "return"
                          ELSE IF seeks THEN "link" ELSE GoOn(t)])
      /\ UNCHANGED <<vol, sd>>

(* How many links a seek follows, and from where: forwards from the        *)
(* present cluster, backwards from the first one.                          *)
Route(t, pos) ==
  LET there == pos \div ClusterBytes
      here == file[t].offset \div ClusterBytes
  IN  IF there >= here THEN [current |-> file[t].current, count |-> there - here]
      ELSE [current |-> Start(t), count |-> there]

Seek(t, pos) ==
  LET route == Route(t, pos)
  IN  /\ Runs(t, "idle") /\ sd.ok /\ pos <= vol.length[t]
      /\ file' = [file EXCEPT ![t].current = route.current,
                              ![t].offset = IF route.count = 0 THEN pos ELSE @]
      /\ Set(t, [Idle EXCEPT !.for = "seek", !.from = file[t].offset, !.want = pos,
                   !.count = route.count, !.save = file[t].current,
                   !.at = IF route.count = 0 THEN "return" ELSE "link"])
      /\ UNCHANGED <<vol, sd, cache>>

(* The call returns; peek puts the file back if it has got its byte.       *)
Return(t) ==
  /\ Runs(t, "return")
  /\ Set(t, Idle)
  /\ file' = IF task[t].for = "peek" /\ task[t].got # <<>>
             THEN [file EXCEPT ![t].offset = task[t].from, ![t].current = task[t].save]
             ELSE file
  /\ UNCHANGED <<vol, sd, cache>>

rewind(t) ==
  /\ Runs(t, "idle") /\ sd.ok
  /\ file' = [file EXCEPT ![t].offset = 0, ![t].current = Start(t)]
  /\ UNCHANGED <<vol, sd, cache, task>>

Next ==
  \E t \in Thread :
    \/ \E size \in Sizes[t] : Read(t, size)
    \/ t = 1 /\ (Peek(t) \/ rewind(t) \/ \E pos \in 0 .. vol.length[t] : Seek(t, pos))
    \/ FetchSector(t) \/ Copy(t) \/ Drops(t) \/ FetchFat(t) \/ Linked(t) \/ Return(t)

Spec == Init /\ [][Next]_vars
-----------------------------------------------------------------------------
(* Where the volume has its first cluster, in truth. *)
DataArea == vol.partition + vol.reserved + 2 * vol.perFat + vol.rootSectors
Chain(t) == vol.chain[t]
SectorOf(t, position) ==
  (Chain(t)[1 + position \div ClusterBytes] - 2) * vol.perCluster + DataArea
  + (position % ClusterBytes) \div SectorBytes

Aligned == DataArea % vol.perCluster = 0
Adjacent(t) == \A k \in 2 .. Len(Chain(t)) : Chain(t)[k] = Chain(t)[k - 1] + 1

(* What a read gives are the bytes of the file from where it was, whatever *)
(* interrupts read at the same time through the same cache, if the area of *)
(* the data begins at a multiple of a cluster and the clusters of the file *)
(* follow one another: within a call the next sector is always lba + 1.    *)
ReadsTheFile ==
  \A t \in Thread :
    Aligned /\ Adjacent(t) /\ ~file[t].spoiled =>
      \A k \in DOMAIN task[t].got :
        LET position == task[t].from + k - 1
        IN  task[t].got[k] = <<SectorOf(t, position), position % SectorBytes>>

(* "position (must agree w/ offset)" (SD_t3.h line 172): between calls the *)
(* current cluster is the one the offset lies in, even at the end of the   *)
(* file, wherever its clusters are; unless a link could not be read, after *)
(* which a read has moved the offset but not the cluster.                  *)
CursorAgrees ==
  \A t \in Thread :
    task[t].at = "idle" /\ Aligned /\ ~file[t].spoiled =>
      LET k == 1 + file[t].offset \div ClusterBytes
      IN  IF k <= Len(Chain(t)) THEN file[t].current = Chain(t)[k]
          ELSE Chain(t) # <<>> => file[t].current > sd.max

(* "temporary locks on cache buffers" (SD_t3.h line 213): every entry      *)
(* counts the SDCache objects that hold it and no two keep one sector, so  *)
(* that what is copied or followed is what was read, whatever interrupts   *)
(* have read in between.                                                   *)
HeldStays ==
  /\ \A k \in DOMAIN cache :
       /\ cache[k].users = Cardinality({t \in Thread : task[t].item = cache[k].entry})
       /\ cache[k].lba # NoSector => Placed(cache, cache[k].lba) = {k}
  /\ \A t \in Thread :
       /\ task[t].at = "copy" => Sector(t) = task[t].lba
       /\ task[t].at = "linked" => Sector(t) = FatSector(file[t].current)
       /\ task[t].item # None => Entry(cache, task[t].item).data
=============================================================================
