------------------------------ MODULE DataLog -------------------------------
(***************************************************************************)
(* Data logging of logging.ino over many boots: dataLoggingSetup reads the *)
(* number of the last boot from the name file, replaces that file by one   *)
(* with the next number, and dataln appends lines to the data file of that *)
(* number.  The power can go at any step and every call of the card can    *)
(* fail; the sketch looks only at what begin, exists and an open for       *)
(* writing give.  A file's size reaches the card when it is closed, so     *)
(* what was printed and not closed is not there after a reset.  LOGGING is *)
(* 0, as in stabilize.ino, and logln touches no card.                      *)
(***************************************************************************)
EXTENDS Integers

CONSTANTS NameLimit,        \* first number too long for an 8.3 name, 10000
          MaxBoots          \* bound: boots of a behaviour

ASSUME DataLogAssumption == NameLimit \in Nat /\ MaxBoots \in Nat

VARIABLES stage,            \* the step of the sketch that is next
          boot,             \* which boot this is
          sdActive, fileName, fileNumber,
          namefile,         \* the number slast.txt holds; an empty file reads 0
          lines,            \* <<file, boot>> of every line in the data files
          lost              \* boots that lost the number; not in the code

ram == <<sdActive, fileName, fileNumber>>
card == <<namefile, lines>>
logVars == <<stage, boot, ram, card, lost>>

NoFile == -1
Stem == -1                  \* fileName as it is declared, "sdat"

LogInit ==
  /\ stage = "off" /\ boot = 0
  /\ sdActive = FALSE /\ fileName = Stem /\ fileNumber = 0
  /\ namefile = NoFile /\ lines = {} /\ lost = {}

Loses(condition) == lost' = IF condition THEN lost \cup {boot} ELSE lost
-----------------------------------------------------------------------------
PowerUp ==
  /\ stage = "off" /\ boot < MaxBoots
  /\ stage' = "begin" /\ boot' = boot + 1
  /\ sdActive' = FALSE /\ fileName' = Stem /\ fileNumber' = 0
  /\ UNCHANGED <<card, lost>>

Begin ==
  /\ stage = "begin"
  /\ \/ sdActive' = TRUE /\ stage' = "look"
     \/ sdActive' = FALSE /\ stage' = "loop"
  /\ UNCHANGED <<boot, fileName, fileNumber, card, lost>>

(* The numbers of up to eight digits that this model follows.              *)
PowersOfTen == {10, 100, 1000, 10000, 100000, 1000000, 10000000, 100000000}

(* What toInt makes of the name file: all of its digits, or as many as     *)
(* were read before a read failed, and 0 of none, as when the file could   *)
(* not be opened.                                                          *)
NumberRead == {0, namefile} \cup {namefile \div p : p \in PowersOfTen}

ReadNumber_Mutated ==
  /\ stage = "look" /\ namefile # NoFile
  /\ \E n \in NumberRead : fileNumber' = n /\ Loses(n # namefile)
  /\ stage' = "remove"
  /\ UNCHANGED <<boot, sdActive, fileName, card>>

(* exists has found the name file: the number in it, and one more.  The    *)
(* boot loses the number if it does not read all of it.                    *)
ReadNumber ==
  /\ stage = "look" /\ namefile # NoFile
  /\ \E n \in NumberRead : fileNumber' = n + 1 /\ Loses(n # namefile)
  /\ stage' = "remove"
  /\ UNCHANGED <<boot, sdActive, fileName, card>>

(* There is no name file, or exists has failed to find it, and the number  *)
(* is lost.                                                                *)
NoNamefile ==
  /\ stage = "look"
  /\ fileName' = 0
  /\ stage' = "create"
  /\ Loses(namefile # NoFile)
  /\ UNCHANGED <<boot, sdActive, fileNumber, card>>

(* SD.remove, whose result nobody looks at, first frees the file's cluster *)
(* and then updates its directory entry.                                   *)
FreeNamefile ==
  /\ stage = "remove"
  /\ stage' \in {"removing", "create"}
  /\ UNCHANGED <<boot, ram, card, lost>>

(* The entry is cut to nothing and, in a write of its own, deleted; or it  *)
(* is left with a cluster that is free: the card is torn, and what this    *)
(* and later boots make of it is not followed here.                        *)
Remove ==
  /\ stage = "removing"
  /\ \/ namefile' \in {NoFile, 0} /\ stage' = "create"
     \/ UNCHANGED namefile /\ stage' = "torn"
  /\ UNCHANGED <<boot, ram, lines, lost>>

(* Opening for write creates an empty file, or leaves what is there.  When *)
(* it fails, maybe after that, the setup returns with whatever fileName    *)
(* is, and the number is lost.                                             *)
Created == IF namefile = NoFile THEN 0 ELSE namefile

Create ==
  /\ stage = "create"
  /\ \/ /\ namefile' = Created /\ fileName' = fileNumber
        /\ stage' = "print" /\ UNCHANGED lost
     \/ /\ namefile' \in {namefile, Created} /\ UNCHANGED fileName
        /\ stage' = "loop" /\ Loses(TRUE)
  /\ UNCHANGED <<boot, sdActive, fileNumber, lines>>

(* print, and close, which brings the number to the card.  The digits come *)
(* behind those of an old file that was not removed: p makes room for      *)
(* them.  Nobody looks whether the calls fail; when they do, the file is   *)
(* as it was, and the number is lost unless that is a larger one.          *)
PrintNumber ==
  /\ stage = "print"
  /\ \/ \E p \in PowersOfTen : /\ fileNumber < p /\ (p = 10 \/ p <= 10 * fileNumber)
                              /\ namefile' = namefile * p + fileNumber
     \/ UNCHANGED namefile
  /\ Loses(namefile' < fileNumber)
  /\ stage' = "loop"
  /\ UNCHANGED <<boot, ram, lines>>

(* A call of dataln that opens, prints and closes; one that cannot, or is  *)
(* cut off before the close, leaves no line.                               *)
Dataln ==
  /\ stage = "loop" /\ sdActive /\ fileName < NameLimit
  /\ lines' = lines \cup {<<fileName, boot>>}
  /\ UNCHANGED <<stage, boot, ram, namefile, lost>>

(* Between remove and the close of the new name file the number is only in *)
(* memory: it is lost if the card holds none that leads the next boot to   *)
(* this number or beyond.  Inside SD.remove the card is left torn.         *)
PowerOff ==
  /\ stage \notin {"off", "torn"}
  /\ stage' = IF stage = "removing" THEN "torn" ELSE "off"
  /\ Loses(stage \in {"create", "print"} /\ namefile + 1 < fileNumber)
  /\ UNCHANGED <<boot, ram, card>>

LogNext ==
  \/ PowerUp \/ Begin \/ ReadNumber \/ NoNamefile
  \/ FreeNamefile \/ Remove \/ Create \/ PrintNumber \/ Dataln \/ PowerOff

LogSpec == LogInit /\ [][LogNext]_logVars
-----------------------------------------------------------------------------
(* The data file is the one named by the number, or the stem alone.        *)
LogTypeOK ==
  /\ stage \in {"off", "begin", "look", "remove", "removing", "create",
             "print", "loop", "torn"}
  /\ boot \in Nat
  /\ sdActive \in BOOLEAN /\ fileNumber \in Nat /\ fileName \in {Stem, fileNumber}
  /\ namefile \in Nat \cup {NoFile}
  /\ lines \subseteq (Nat \cup {Stem}) \X Nat
  /\ lost \subseteq 1 .. boot

(* Two boots have lines in one data file only if the number was lost in    *)
(* one of them or in a boot between them, whatever else failed and         *)
(* wherever the power went: a loss mixes boots before it with boots after  *)
(* it, and those after it are apart again.                                 *)
OneBootPerFile ==
  \A p, q \in lines :
    p[1] = q[1] /\ p[2] < q[2] => \E b \in lost : p[2] <= b /\ b <= q[2]
=============================================================================
