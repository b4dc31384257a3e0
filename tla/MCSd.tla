-------------------------------- MODULE MCSd --------------------------------
(***************************************************************************)
(* The SD library under TLC: files in the root directory with what they    *)
(* hold, and directories with their paths.  A behaviour uses one of them   *)
(* and the other stays as it was initialised.  The two names are alike.    *)
(***************************************************************************)
EXTENDS SdFile, SdTree, TLC

CONSTANTS file1, file2

Files == {file1, file2}
Alike == Permutations(Files)

VARIABLE used       \* what this behaviour uses

TreeIdle == SdTreeInit /\ volume.disk = EmptyCard

MCSdInit ==
  \/ used = "files" /\ Init /\ TreeIdle
  \/ used = "tree" /\ SdTreeInit /\ Init

UseFiles == used = "files" /\ Next /\ UNCHANGED <<used, sdTreeVars>>
UseTree == used = "tree" /\ SdTreeNext /\ UNCHANGED <<used, vars>>

MCSdSpec == MCSdInit /\ [][UseFiles \/ UseTree]_<<used, vars, sdTreeVars>>

(* Which block an unchanged cache holds makes no difference to a call, and *)
(* neither does the last one or what it returned.                          *)
Unchanged(v) == ~v.dirty /\ (v.blk \in DOMAIN v.disk => v.buf = v.disk[v.blk])

Seen(v) ==
  IF Unchanged(v) THEN [disk |-> v.disk, start |-> v.start, mirror |-> v.mirror] ELSE v

(* Nor does what a cluster holds that is free on the card and in the cache:*)
(* a file grows over it only with what is written there.                   *)
FreeBlock(b) ==
  /\ b[1] = "data"
  /\ LET c == 2 + b[2] \div BlocksPerCluster
     IN  FatEntry(vol, c) = Free /\ vol.disk[FatBlock(c)][c] = Free

SeenVol ==
  [Seen(vol) EXCEPT !.disk = [b \in Blocks |-> IF FreeBlock(b) THEN Junk ELSE @[b]]]

View == <<used, [vars EXCEPT ![1] = SeenVol], Seen(volume), listing, changes, cuts, broken>>
=============================================================================
