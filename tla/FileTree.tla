------------------------------ MODULE FileTree ------------------------------
(***************************************************************************)
(* What the SD library promises of files in directories: a tree of names   *)
(* that each call changes as it says, or not at all but for what a full    *)
(* card or a power failure cuts short.  A removal that is cut off, or a    *)
(* directory that is cut off while it grows, can leave the card broken.    *)
(***************************************************************************)
EXTENDS Naturals, Sequences, SequencesExt

CONSTANTS Paths             \* the paths that calls name: sequences of names

VARIABLES tree,             \* the kind of what is at a path
          lost,             \* whether the card is broken and tree means nothing
          room,             \* whether the card has room for any new path
          request,           \* the last call: what it is to do, and with what path
          answer,           \* what it returned
          listed            \* the paths the last ls printed

treeVars == <<tree, lost, room, request, answer, listed>>

There(p) == p \in DOMAIN tree
IsFile(p) == There(p) /\ tree[p] = "file"
IsDirectory(p) == p = <<>> \/ (There(p) /\ tree[p] = "dir")
Below(p) == {q \in DOMAIN tree : IsStrictPrefix(p, q)}

Only(paths) == [p \in paths |-> tree[p]]
With(p, kind) == [q \in DOMAIN tree \cup {p} |-> IF There(q) THEN tree[q] ELSE kind]
Made(p, k) ==
  [q \in DOMAIN tree \cup {SubSeq(p, 1, i) : i \in 1 .. k} |-> IF There(q) THEN tree[q] ELSE "dir"]

Says(what, p, ok) == request' = <<what, p>> /\ answer' = ok /\ listed' = {}

Init ==
  /\ DOMAIN tree \subseteq Paths /\ \A p \in DOMAIN tree : tree[p] \in {"file", "dir"}
  /\ request = <<"begin", <<>>>> /\ answer = FALSE /\ listed = {} /\ lost = FALSE
-----------------------------------------------------------------------------
(* exists, and the calls that open a directory and its next file.          *)
Exists(p) == Says("exists", p, There(p)) /\ tree' = tree
Looks(what, p) == (\E ok \in BOOLEAN : Says(what, p, ok)) /\ tree' = tree

(* All of the path is made, or nothing on top of a file; without room, some*)
(* of it, the last one perhaps as an empty file.  What is a file already   *)
(* counts as made.                                                         *)
MadePart(p) ==
  \E k \in 0 .. Len(p) - 1 :
    /\ \A i \in 1 .. k : ~IsFile(SubSeq(p, 1, i))
    /\ tree' \in {Made(p, k)} \cup
         (IF There(SubSeq(p, 1, k + 1)) THEN {}
          ELSE {[q \in DOMAIN Made(p, k) \cup {SubSeq(p, 1, k + 1)} |->
                   IF q \in DOMAIN Made(p, k) THEN Made(p, k)[q] ELSE "file"]})

Blocked(p) == \E i \in 1 .. Len(p) - 1 : IsFile(SubSeq(p, 1, i))

MkDir(p) ==
  \/ Says("mkdir", p, TRUE) /\ ~Blocked(p) /\ tree' = Made(p, Len(p))
  \/ Says("mkdir", p, FALSE) /\ Blocked(p) /\ tree' = tree
  \/ Says("mkdir", p, FALSE) /\ ~room /\ MadePart(p)

(* An existing file is opened; a new one needs a directory, and room.      *)
Create(p) ==
  \/ Says("open", p, TRUE) /\ IsDirectory(Front(p)) /\ ~IsDirectory(p) /\ tree' = With(p, "file")
  \/ /\ Says("open", p, FALSE) /\ tree' = tree
     /\ ~IsDirectory(Front(p)) \/ IsDirectory(p) \/ (~room /\ ~There(p))

Without(paths) == Only(DOMAIN tree \ paths)
RemoveName(p) == Says("remove", p, IsFile(p)) /\ tree' = Without({q \in {p} : IsFile(q)})

Empty(p) == There(p) /\ IsDirectory(p) /\ Below(p) = {}
RmDir(p) == Says("rmdir", p, Empty(p)) /\ tree' = Without({q \in {p} : Empty(q)})

Within(p) == IF IsDirectory(p) THEN {p} \cup Below(p) ELSE {}
RmRfStar(p) == Says("rmRfStar", p, IsDirectory(p)) /\ tree' = Without(Within(p))

Ls == request' = <<"ls", <<>>>> /\ answer' = TRUE /\ listed' = DOMAIN tree /\ tree' = tree

(* To make a name below a file is no call a program should make: the file  *)
(* may be overwritten.                                                     *)
MakeInFile(p) ==
  /\ \E what \in {"mkdir", "open"}, ok \in BOOLEAN : Says(what, p, ok)
  /\ Blocked(p) /\ lost'

(* The power fails during a call: what is made is a part of what was asked *)
(* for, what is gone was to be removed.                                    *)
CutOff(p) ==
  \/ Says("mkdir", p, FALSE) /\ (lost' \/ MadePart(p) \/ tree' = Made(p, Len(p)))
  \/ Says("open", p, FALSE) /\ (lost' \/ tree' \in {tree, With(p, "file")})
  \/ Says("remove", p, FALSE) /\ (lost' \/ tree' \in {tree, Without({q \in {p} : IsFile(q)})})
  \/ Says("rmdir", p, FALSE) /\ (lost' \/ tree' \in {tree, Without({q \in {p} : Empty(q)})})

CutRmRf(p) ==
  /\ Says("rmRfStar", p, FALSE)
  /\ lost' \/ \E gone \in SUBSET Within(p) : tree' = Without(gone)

Works ==
  \/ \E p \in Paths :
       \/ Exists(p) \/ MkDir(p) \/ Create(p) \/ RemoveName(p) \/ RmDir(p) \/ RmRfStar(p)
       \/ Looks("openDir", p)
  \/ Ls \/ RmRfStar(<<>>) \/ Looks("openDir", <<>>) \/ Looks("openNextFile", <<>>)
  \/ Looks("cut", <<>>)

Fails ==
  \/ \E p \in Paths : MakeInFile(p) \/ CutOff(p) \/ CutRmRf(p)
  \/ CutRmRf(<<>>)

Next == ~lost /\ ((Works /\ ~lost') \/ Fails)

Spec == Init /\ [][Next]_treeVars
=============================================================================
