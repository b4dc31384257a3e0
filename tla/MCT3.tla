-------------------------------- MODULE MCT3 --------------------------------
(***************************************************************************)
(* The files and the directories of the second SD library; a behaviour     *)
(* uses one of the two, which share nothing but the cache.                 *)
(*                                                                         *)
(* Files: sectors of two bytes, clusters of two sectors, two links in a    *)
(* sector of a FAT16 volume and one in that of a FAT32 one.  The main      *)
(* program's file takes two clusters, full or not, adjacent or apart; the  *)
(* interrupt's has one or none.  Directories: sectors of two entries, one  *)
(* or two clusters or a root of three sectors, with deleted entries, long  *)
(* names, a volume label and a directory below the root.                   *)
(***************************************************************************)
EXTENDS T3File, T3Dir

End == 99               \* a link that ends a chain

Plain ==
  [types |-> <<6>>, partition |-> 1, reserved |-> 1, perFat |-> 4, rootSectors |-> 0,
   perCluster |-> 2, total |-> 17,
   fat |-> <<0, 3, End, End, End>>, chain |-> <<<<2, 3>>, <<4>>>>, length |-> <<7, 3>>]

Apart == [Plain EXCEPT !.fat = <<0, 4, End, End, End>>, !.chain = <<<<2, 4>>, <<3>>>>]

Full == [Plain EXCEPT !.length = <<8, 0>>, !.chain[2] = <<>>]

MCSizes == <<{1, 3}, {3}>>

MCVolumes ==
  {Plain, Full, Apart, [Full EXCEPT !.partition = 2], [Plain EXCEPT !.types = <<131, 6>>],
   [Plain EXCEPT !.types = <<>>, !.partition = 0, !.rootSectors = 1],
   [Plain EXCEPT !.perFat = 8, !.total = 37]}
-----------------------------------------------------------------------------
E(kind, name) == [kind |-> kind, name |-> name]
F(name) == E("file", name)
Gone == E("deleted", "?")
Long == E("long", "~")
Free == E("end", "")
Sub == E("directory", "d")

SubTree == <<<<<<E("dot", "."), E("dot", "..")>>, <<Gone, F("a")>>>>,
             <<<<F("b"), Free>>, <<Free, Free>>>>>>

Roots ==
  {<<<<<<F("a"), F("b")>>, <<Sub, F("c")>>>>>>,
   <<<<<<F("a"), Sub>>, <<Gone, F("b")>>>>, <<<<E("label", "v"), Free>>, <<Free, Free>>>>>>,
   <<<<<<F("a"), Long>>, <<Sub, F("b")>>>>, <<<<F("c"), F("e")>>, <<Long, Gone>>>>>>,
   <<<<<<F("a"), F("b")>>, <<Sub, F("c")>>>>, <<<<F("e"), Free>>, <<Free, Free>>>>>>,
   <<<<<<F("a"), F("b")>>, <<Sub, F("c")>>, <<F("e"), Free>>>>>>}

MCTrees == {[name \in {"/", "d"} |-> IF name = "d" THEN SubTree ELSE root] : root \in Roots}
MCPaths == {<<"a">>, <<"d">>, <<"c">>, <<"d", "a">>, <<"d", "b">>, <<"d", "c">>, <<"a", "b">>, <<>>}
MCElsewhere == {<<F("x"), F("y")>>, <<Free, Free>>}
-----------------------------------------------------------------------------
VARIABLE used           \* what this behaviour uses

AnyFile == Init /\ vol = Full /\ cache = EmptyCache(1)
AnyDir == DirInit /\ root16 /\ tree["/"] = CHOOSE root \in Roots : Len(root) = 1

LibraryInit ==
  \/ used = "files" /\ Init /\ AnyDir
  \/ used = "directories" /\ DirInit /\ AnyFile

UseFiles == used = "files" /\ Next /\ UNCHANGED <<used, dirVars>>
UseDirectories == used = "directories" /\ DirNext /\ UNCHANGED <<used, vars>>

LibrarySpec == LibraryInit /\ [][UseFiles \/ UseDirectories]_<<used, vars, dirVars>>
=============================================================================
