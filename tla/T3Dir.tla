-------------------------------- MODULE T3Dir -------------------------------
(***************************************************************************)
(* dir_t3.cpp: directories of the second SD library, opened by a path and  *)
(* listed file by file.  A step is a sector that a loop goes through; a    *)
(* read may fail.  A sector is named by its cluster, counted along the     *)
(* chain, and its place in it; the root of a FAT16 volume is one cluster   *)
(* of its own length.  Offsets count entries instead of their 32 bytes.    *)
(***************************************************************************)
EXTENDS Integers, SequencesExt

CONSTANTS Trees,            \* trees of directories, see below
          Paths,            \* paths that are opened: sequences of names
          Elsewhere,        \* what sectors of no directory may hold
          MaxListed,        \* bound: entries listed before a rewind
          EntriesPerSector, \* 16
          SectorsPerCluster

ASSUME DirAssumption == {EntriesPerSector, SectorsPerCluster} \subseteq Nat \ {0}

Listable == {"file", "directory", "label"}
DirEntry == [kind : Listable \cup {"deleted", "long", "dot", "end"}, name : STRING]

(* A tree gives a directory for every name of one, "/" for the root: a     *)
(* sequence of clusters, sequences of sectors, sequences of entries.       *)
IsDirectory(clusters) ==
  /\ clusters \in Seq(Seq(Seq(DirEntry))) /\ clusters # <<>>
  /\ \A c \in DOMAIN clusters :
       /\ clusters[c] # <<>>
       /\ \A s \in DOMAIN clusters[c] : Len(clusters[c][s]) = EntriesPerSector

EntriesIn(clusters) == UNION {ToSet(sector) : sector \in UNION {ToSet(c) : c \in ToSet(clusters)}}

(* The entries with a name are files, directories or labels, and all are   *)
(* of one kind: find takes the first without a look at what it is.         *)
NamesOne(wanted, entries) ==
  \A e, d \in entries : e.name = wanted /\ d.name = wanted => e.kind \in Listable /\ d.kind = e.kind

ASSUME TreeAssumption ==
  /\ Paths \subseteq Seq(STRING)
  /\ \A t \in Trees :
       /\ "/" \in DOMAIN t
       /\ \A name \in DOMAIN t :
            /\ IsDirectory(t[name])
            /\ name # "/" => \A c \in DOMAIN t[name] : Len(t[name][c]) = SectorsPerCluster
            /\ \A e \in EntriesIn(t[name]) :
                 /\ e.kind = "directory" => e.name \in DOMAIN t \ {"/"}
                 /\ e.kind \in Listable => e.name # "none"
            /\ \A path \in Paths : \A i \in DOMAIN path : NamesOne(path[i], EntriesIn(t[name]))

VARIABLES tree,
          root16,           \* the root is that of a FAT16 volume
          listing,          \* the File that is listed: [offset, cluster]
          listed, lost,     \* what it has given; whether it has gone on to
                            \* another sector wrongly, or not at all
          call              \* openNextFile or open

dirVars == <<tree, root16, listing, listed, lost, call>>

Resting == [at |-> "rest", cluster |-> 1, sector |-> 1, index |-> 1, count |-> 0,
            path |-> <<>>, asked |-> <<>>, in |-> "/", listing |-> FALSE, well |-> TRUE, result |-> "none"]

Clusters(name) == tree[name]
IsRoot16(name) == root16 /\ name = "/"
SectorCount(name) == IF IsRoot16(name) THEN Len(Clusters(name)[1]) ELSE SectorsPerCluster
ClusterEntries == SectorsPerCluster * EntriesPerSector

DirInit ==
  /\ tree \in Trees /\ root16 \in BOOLEAN
  /\ root16 \/ \A k \in DOMAIN tree["/"] : Len(tree["/"][k]) = SectorsPerCluster
  /\ root16 => Len(tree["/"]) = 1
  /\ listing = [offset |-> 0, cluster |-> 1]
  /\ listed = <<>> /\ lost = FALSE
  /\ call = Resting

(* openNextFile of the root, from the sector the offset lies in. *)
openNextFile ==
  LET sector == (IF root16 THEN listing.offset ELSE listing.offset % ClusterEntries)
                \div EntriesPerSector
  IN  /\ call.at = "rest" /\ Len(listed) < MaxListed
      /\ call' = [Resting EXCEPT !.at = "list", !.listing = TRUE, !.cluster = IF root16 THEN 1 ELSE listing.cluster,
                    !.sector = sector + 1, !.index = (listing.offset % EntriesPerSector) + 1,
                    !.count = sector]
      /\ UNCHANGED <<tree, root16, listing, listed, lost>>

(* The entries of a sector of the present directory, or of whatever lies   *)
(* behind the root, or where the mark that ends a chain points to.         *)
Sectors(cluster, sector) ==
  IF cluster \in DOMAIN Clusters(call.in) /\ sector \in DOMAIN Clusters(call.in)[cluster]
  THEN {Clusters(call.in)[cluster][sector]} ELSE Elsewhere

Ends(well, result) == call' = [call EXCEPT !.at = "rest", !.well = well, !.result = result]

CannotRead ==
  /\ call.at # "rest"
  /\ Ends(FALSE, "none")
  /\ UNCHANGED <<tree, root16, listing, listed, lost>>

(* next_cluster, which leaves the cluster if it cannot read the link.      *)
NextClusters(cluster) == {cluster + 1} \cup (IF root16 THEN {} ELSE {cluster})

(* An entry is given.  If it is the last of its cluster the File goes on   *)
(* to the next one, whatever next_cluster says.                            *)
Give_Mutated(name, n) ==
  /\ listing' = [listing EXCEPT !.offset = @ + n]
  /\ listed' = Append(listed, name)
  /\ Ends(TRUE, name)
  /\ UNCHANGED lost

Give(name, n) ==
  /\ listed' = Append(listed, name)
  /\ Ends(TRUE, name)
  /\ \E cluster \in IF (listing.offset + n) % ClusterEntries = 0
                      THEN NextClusters(listing.cluster) ELSE {listing.cluster} :
       /\ listing' = [offset |-> listing.offset + n, cluster |-> cluster]
       /\ lost' = (lost \/ ((listing.offset + n) % ClusterEntries = 0 /\ cluster = listing.cluster))

(* The rest of the sector has nothing to give.  The next sector of the     *)
(* cluster is not the next lba: lba changes only with the cluster.         *)
Pass(n) ==
  /\ UNCHANGED listed
  /\ IF call.count + 1 < SectorCount("/")
     THEN /\ listing' = [listing EXCEPT !.offset = @ + n]
          /\ call' = [call EXCEPT !.index = 1, !.count = @ + 1]
          /\ lost' = TRUE
     ELSE IF root16
     THEN /\ listing' = [listing EXCEPT !.offset = @ + n]
          /\ Ends(TRUE, "none") /\ UNCHANGED lost
     ELSE \E next \in NextClusters(listing.cluster) :
          /\ listing' = [offset |-> listing.offset + n, cluster |-> next]
          /\ lost' = (lost \/ next = listing.cluster)
          /\ IF next \in DOMAIN Clusters("/") /\ next # listing.cluster
             THEN call' = [call EXCEPT !.index = 1, !.count = 0, !.cluster = next, !.sector = 1]
             ELSE Ends(next # listing.cluster, "none")

(* A sector of openNextFile's loop. *)
ListSector ==
  /\ call.at = "list"
  /\ \E entries \in Sectors(call.cluster, call.sector) :
       LET stops == {k \in call.index .. EntriesPerSector :
                       entries[k].kind \in {"end"} \cup Listable}
           k == Min(stops)
       IN  IF stops = {} THEN Pass(EntriesPerSector + 1 - call.index)
           ELSE IF entries[k].kind # "end" THEN Give(entries[k].name, k + 1 - call.index)
           ELSE /\ listing' = [listing EXCEPT !.offset = @ + k - call.index]
                /\ Ends(TRUE, "none")
                /\ UNCHANGED <<listed, lost>>
  /\ UNCHANGED <<tree, root16>>

rewindDirectory ==
  /\ call.at = "rest"
  /\ listing' = [offset |-> 0, cluster |-> 1]
  /\ listed' = <<>> /\ lost' = FALSE
  /\ call' = Resting
  /\ UNCHANGED <<tree, root16>>
-----------------------------------------------------------------------------
(* open, beginning with a copy of the root; find begins with the first     *)
(* sector of a directory.                                                  *)
open(path) ==
  /\ call.at = "rest"
  /\ call' = IF path = <<>> THEN [Resting EXCEPT !.result = "/"]
             ELSE [Resting EXCEPT !.at = "find", !.path = path, !.asked = path]
  /\ UNCHANGED <<tree, root16, listing, listed, lost>>

Found(entry) ==
  IF Len(call.path) = 1 THEN Ends(TRUE, entry.name)
  ELSE IF entry.kind = "directory"
  THEN call' = [Resting EXCEPT !.at = "find", !.path = Tail(call.path), !.asked = call.asked,
                  !.in = entry.name]
  ELSE Ends(TRUE, "none")

SectorsDone_Mutated == call.sector + 1 >= SectorCount(call.in)

SectorsDone == call.sector >= SectorCount(call.in)

(* A sector of find's loop: an entry with the name, before the first one   *)
(* that was never used.                                                    *)
FindSector ==
  /\ call.at = "find"
  /\ \E entries \in Sectors(call.cluster, call.sector) :
       LET stops == {k \in DOMAIN entries :
                       entries[k].kind = "end" \/ entries[k].name = Head(call.path)}
           k == Min(stops)
       IN  IF stops # {}
           THEN IF entries[k].kind = "end" THEN Ends(TRUE, "none") ELSE Found(entries[k])
           ELSE IF ~SectorsDone THEN call' = [call EXCEPT !.sector = @ + 1]
           ELSE IF IsRoot16(call.in) THEN Ends(TRUE, "none")
           ELSE \/ IF call.cluster + 1 \in DOMAIN Clusters(call.in)
                   THEN call' = [call EXCEPT !.cluster = @ + 1, !.sector = 1]
                   ELSE Ends(TRUE, "none")
                \/ Ends(FALSE, "none")
  /\ UNCHANGED <<tree, root16, listing, listed, lost>>

DirNext ==
  \/ openNextFile \/ ListSector \/ rewindDirectory
  \/ CannotRead \/ FindSector
  \/ \E path \in Paths : open(path)

DirSpec == DirInit /\ [][DirNext]_dirVars
-----------------------------------------------------------------------------
(* The entries of a directory in their order, through its sectors and its  *)
(* clusters, and those before the first that was never used.               *)
Length(name) == SectorCount(name) * EntriesPerSector

All(name) ==
  [k \in 1 .. Len(Clusters(name)) * Length(name) |->
     LET n == (k - 1) % Length(name)
     IN  Clusters(name)[(k - 1) \div Length(name) + 1][n \div EntriesPerSector + 1]
                       [(n % EntriesPerSector) + 1]]

InUse(entries, k) == \A j \in 1 .. k : entries[j].kind # "end"
IsFull(name) == InUse(All(name), Len(All(name)))

(* The names of what is listed of the first n entries. *)
Given(entries, n) ==
  LET given[k \in 0 .. n] ==
        IF k = 0 THEN <<>>
        ELSE IF entries[k].kind \in Listable THEN Append(given[k - 1], entries[k].name)
        ELSE given[k - 1]
  IN  given[n]

Files(name) ==
  Given(All(name), Max({k \in 0 .. Len(All(name)) : InUse(All(name), k)}))

Exists(name, wanted, kinds) ==
  \E k \in DOMAIN All(name) : /\ InUse(All(name), k)
                              /\ All(name)[k].kind \in kinds /\ All(name)[k].name = wanted

(* A listing gives what the directory has, each once and in its order, and *)
(* ends only after the last: unless the directory is full, and until a     *)
(* call has had to go past entries that it does not give into another      *)
(* sector of a cluster.                                                    *)
ListsEachOnce ==
  ~lost /\ ~IsFull("/") =>
    /\ IsPrefix(listed, Files("/"))
    /\ call.at = "rest" /\ call.listing /\ call.well /\ call.result = "none" =>
         listed = Files("/")

(* open finds what is there at the end of the path and nothing else, in a  *)
(* directory of any number of clusters, unless a sector cannot be read.    *)
DirectoryOf(path, i) == IF i = 1 THEN "/" ELSE path[i - 1]

IsThere(path) ==
  \A i \in 1 .. Len(path) :
    Exists(DirectoryOf(path, i), path[i], IF i = Len(path) THEN Listable ELSE {"directory"})

OpensWhatIsThere ==
  call.at = "rest" /\ call.well /\ call.asked # <<>> =>
    call.result = IF IsThere(call.asked) THEN Last(call.asked) ELSE "none"
=============================================================================
