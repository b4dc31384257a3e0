------------------------------ MODULE MCSketch ------------------------------
(***************************************************************************)
(* The sketch under TLC: the cycles of its loop and, over many boots, the  *)
(* setup and the lines of its data log.  They share no state, so a         *)
(* behaviour uses one of them and the other stays as it was initialised.   *)
(***************************************************************************)
EXTENDS ControlLoop, DataLog

VARIABLE used       \* what this behaviour uses

LoopIdle == Init /\ now = 0 /\ value = 0

SketchInit ==
  \/ used = "loop" /\ Init /\ LogInit
  \/ used = "log" /\ LogInit /\ LoopIdle

UseLoop == used = "loop" /\ Next /\ UNCHANGED <<used, logVars>>
UseLog == used = "log" /\ LogNext /\ UNCHANGED <<used, vars>>

SketchSpec == SketchInit /\ [][UseLoop \/ UseLog]_<<used, vars, logVars>>
=============================================================================
