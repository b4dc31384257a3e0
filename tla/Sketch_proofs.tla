--------------------------- MODULE Sketch_proofs ----------------------------
(***************************************************************************)
(* Proofs about the sketch.  ControlLoop, for every circle, margin and     *)
(* clock: types, that the unwrapped angle follows the motion of the craft  *)
(* as long as the craft turns less than the margin between two commands    *)
(* and the two margins leave room for such a turn, and that two passes are *)
(* apart.  DataLog, for any number of boots and any limit on the names:    *)
(* its invariants.                                                         *)
(***************************************************************************)
EXTENDS ControlLoop, DataLog, TLAPS

(* Once a command was given, the angle now is the one rollover saw last,   *)
(* moved by what the craft has turned since and at most once around.       *)
Around == {-Circle, 0, Circle}
Unwrapped ==
  commanded =>
    /\ rolled = prev + mod
    /\ \E turn \in Around : value = prev + moved + turn

IInv == TypeOK /\ Unwrapped

LEMMA Constants ==
  /\ Circle \in Nat /\ Margin \in Nat /\ MaxMotion \in Nat
  /\ ClockMod \in Nat \ {0} /\ MinLoopTime \in Nat /\ WarmUp \in Nat
  /\ MaxMotion < Margin /\ MaxMotion + 2 * Margin <= Circle
  /\ Circle > 0
  BY AngleAssumption, ClockAssumption

(* The remainder by the number of clock values is a clock value. *)
LEMMA ClockValue ==
  ASSUME NEW t \in Int PROVE t % ClockMod \in 0 .. ClockMod - 1
  BY Constants

LEMMA InitInv == Init => IInv
  <1> SUFFICES ASSUME Init PROVE IInv
    OBVIOUS
  <1>1. ~commanded
    BY DEF Init
  <1>2. /\ now \in 0 .. ClockMod - 1 /\ time_last \in 0 .. ClockMod - 1
        /\ start_time \in 0 .. ClockMod - 1
        /\ value \in 0 .. Circle - 1 /\ prev \in 0 .. Circle - 1
        /\ moved \in -MaxMotion .. MaxMotion /\ since \in Nat
    BY Constants DEF Init
  <1>3. /\ pc = "wait" /\ bytes \in BOOLEAN /\ commanded \in BOOLEAN
        /\ mod = 0 /\ rolled = 0
    BY DEF Init
  <1>4. TypeOK
    BY <1>2, <1>3 DEF TypeOK
  <1> QED BY <1>1, <1>4 DEF IInv, Unwrapped

(* Turning by less than the margin keeps the angle on the circle and takes *)
(* it at most once around.                                                 *)
LEMMA TurnedOnce ==
  ASSUME TypeOK, NEW d \in -MaxMotion .. MaxMotion
  PROVE  /\ Turned(d) \in 0 .. Circle - 1
         /\ \E turn \in Around : Turned(d) = value + d + turn
  <1> USE Constants DEF TypeOK, Turned, Around
  <1>1. CASE value + d < 0
    BY <1>1
  <1>2. CASE value + d >= Circle
    BY <1>2
  <1>3. CASE value + d >= 0 /\ value + d < Circle
    BY <1>3
  <1> QED BY <1>1, <1>2, <1>3

(* Two turns around the circle that lead from one angle to another by a    *)
(* motion of less than a circle are together one turn at most.             *)
LEMMA OneTurnAtMost ==
  ASSUME NEW from \in 0 .. Circle - 1, NEW to \in 0 .. Circle - 1,
         NEW motion \in -MaxMotion .. MaxMotion,
         NEW a \in Around, NEW b \in Around,
         to = from + motion + (a + b)
  PROVE  a + b \in Around
  <1>1. a + b \in {-(2 * Circle), -Circle, 0, Circle, 2 * Circle}
    BY Constants DEF Around
  <1>2. a + b < 2 * Circle /\ a + b > -(2 * Circle)
    BY Constants, <1>1
  <1> QED BY Constants, <1>1, <1>2 DEF Around

LEMMA ReportKeepsInv ==
  ASSUME IInv, NEW d \in -MaxMotion .. MaxMotion, ImuReports(d)
  PROVE  IInv'
  <1> USE Constants
  <1>1. TypeOK /\ Unwrapped
    BY DEF IInv
  <1>2. /\ value' \in 0 .. Circle - 1
        /\ \E turn \in Around : value' = value + d + turn
    BY <1>1, TurnedOnce DEF ImuReports
  <1>3. TypeOK'
    BY <1>1, <1>2 DEF TypeOK, ImuReports, clock, axis
  <1>4. Unwrapped'
    <2> SUFFICES ASSUME commanded'
                 PROVE  /\ rolled' = prev' + mod'
                        /\ \E turn \in Around : value' = prev' + moved' + turn
      BY DEF Unwrapped, Around
    <2>1. commanded /\ UNCHANGED <<prev, mod, rolled>> /\ moved' = moved + d
      BY DEF ImuReports, axis
    <2>2. PICK before \in Around : value = prev + moved + before
      BY <1>1, <2>1 DEF Unwrapped
    <2>3. PICK step \in Around : value' = value + d + step
      BY <1>2
    <2>4. value' = prev + moved' + (before + step)
      BY <1>1, <2>1, <2>2, <2>3 DEF TypeOK, Around
    <2>5. /\ value' \in 0 .. Circle - 1 /\ prev \in 0 .. Circle - 1
          /\ moved' \in -MaxMotion .. MaxMotion
      BY <1>1, <1>3, <2>1 DEF TypeOK
    <2>6. before + step \in Around
      BY <2>2, <2>3, <2>4, <2>5, OneTurnAtMost
    <2>7. rolled' = prev' + mod'
      BY <1>1, <2>1 DEF Unwrapped
    <2> QED BY <2>1, <2>4, <2>6, <2>7
  <1> QED BY <1>3, <1>4 DEF IInv

(* rollover takes back exactly the turn around the circle there was. *)
LEMMA RolloverUndoesTurn ==
  ASSUME TypeOK, NEW turn \in Around, value = prev + moved + turn
  PROVE  Rollover = mod - turn
  <1> USE Constants DEF TypeOK
  <1> DEFINE Down == prev - Margin < 0 /\ value + Margin > Circle
             Up == prev + Margin > Circle /\ value - Margin < 0
  <1>1. CASE turn = 0
    <2>1. ~Down /\ ~Up
      BY <1>1
    <2> QED BY <1>1, <2>1 DEF Rollover
  <1>2. CASE turn = Circle
    <2>1. Down /\ ~Up
      BY <1>2
    <2> QED BY <1>2, <2>1 DEF Rollover
  <1>3. CASE turn = -Circle
    <2>1. ~Down /\ Up
      BY <1>3
    <2> QED BY <1>3, <2>1 DEF Rollover
  <1> QED BY <1>1, <1>2, <1>3 DEF Around

LEMMA RolloverType == ASSUME TypeOK PROVE Rollover \in Int
  BY Constants DEF Rollover, TypeOK

LEMMA CommandKeepsInv ==
  ASSUME IInv, Command
  PROVE  IInv'
  <1> USE Constants
  <1>1. TypeOK
    BY DEF IInv
  <1>2. mod' \in Int
    BY <1>1, RolloverType DEF Command
  <1>3. TypeOK'
    BY <1>1, <1>2 DEF TypeOK, Command, clock
  <1>4. value' = prev' + moved' + 0 /\ rolled' = prev' + mod'
    BY <1>1, <1>2 DEF TypeOK, Command, clock
  <1> QED BY <1>3, <1>4 DEF IInv, Unwrapped, Around

LEMMA StepInv == IInv /\ [Next]_vars => IInv'
  <1> SUFFICES ASSUME IInv, [Next]_vars PROVE IInv'
    OBVIOUS
  <1> USE Constants
  <1>0. TypeOK
    BY DEF IInv
  <1>1. CASE Tick
    <2>1. now' \in 0 .. ClockMod - 1
      BY <1>0, <1>1, ClockValue DEF TypeOK, Tick
    <2>2. TypeOK'
      BY <1>0, <1>1, <2>1 DEF TypeOK, Tick, axis
    <2> QED BY <1>1, <2>2 DEF IInv, Unwrapped, Tick, axis
  <1>2. CASE WaitOver
    BY <1>2 DEF IInv, TypeOK, Unwrapped, WaitOver, axis
  <1>3. CASE UpdateImu
    BY <1>3 DEF IInv, TypeOK, Unwrapped, UpdateImu, clock, axis
  <1>4. CASE CheckWarmUp
    BY <1>4 DEF IInv, TypeOK, Unwrapped, CheckWarmUp, clock, axis
  <1>5. CASE Command
    BY <1>5, CommandKeepsInv
  <1>6. CASE \E d \in -MaxMotion .. MaxMotion : ImuReports(d)
    BY <1>6, ReportKeepsInv
  <1>7. CASE UNCHANGED vars
    BY <1>7 DEF IInv, TypeOK, Unwrapped, vars, clock, axis
  <1> QED BY <1>1, <1>2, <1>3, <1>4, <1>5, <1>6, <1>7 DEF Next

(* The variables of the loop keep their types for every circle and clock.  *)
THEOREM TypeCorrect == Spec => []TypeOK
  <1>1. IInv => TypeOK
    BY DEF IInv
  <1> QED BY InitInv, StepInv, <1>1, PTL DEF Spec

(* rollover: whatever passages of zero and skipped cycles lie between two  *)
(* commands, the unwrapped angle changes by what the craft has turned.     *)
THEOREM AngleFollowsMotion == Spec => MotionTracked
  <1>1. IInv /\ [Next]_vars => [Command /\ commanded => rolled' = rolled + moved]_vars
    <2> SUFFICES ASSUME IInv, Command, commanded
                 PROVE  rolled' = rolled + moved
      OBVIOUS
    <2>1. TypeOK /\ Unwrapped
      BY DEF IInv
    <2>2. PICK turn \in Around : value = prev + moved + turn
      BY <2>1 DEF Unwrapped
    <2>3. mod' = mod - turn
      BY <2>1, <2>2, RolloverUndoesTurn DEF Command
    <2>4. rolled = prev + mod /\ rolled' = value + mod'
      BY <2>1 DEF Unwrapped, Command
    <2> QED BY <2>1, <2>2, <2>3, <2>4, Constants DEF TypeOK, Around
  <1> QED BY InitInv, StepInv, <1>1, PTL DEF Spec, MotionTracked
-----------------------------------------------------------------------------
(* A pass begins MinLoopTime after the one before at the earliest.  Until  *)
(* then the clock tells the true time since, wrapped or not; the first     *)
(* pass has none before it.                                                *)
Measured == since >= MinLoopTime \/ Since(time_last) = since

(* The difference of two clock values, one step of the clock later. *)
LEMMA StepsOn ==
  ASSUME NEW t \in 0 .. ClockMod - 1, NEW n \in 0 .. ClockMod - 1,
         ((n - t) % ClockMod) + 1 < ClockMod
  PROVE  (((n + 1) % ClockMod) - t) % ClockMod = ((n - t) % ClockMod) + 1
  <1>1. ClockMod \in Nat \ {0}
    BY Constants
  <1>2. n - t = IF n >= t THEN (n - t) % ClockMod ELSE ((n - t) % ClockMod) - ClockMod
    BY <1>1
  <1>3. (n + 1) % ClockMod = IF n + 1 = ClockMod THEN 0 ELSE n + 1
    BY <1>1
  <1>4. CASE n + 1 = ClockMod
    <2>1. n >= t /\ (n - t) % ClockMod = n - t
      BY <1>1, <1>2, <1>4
    <2>2. (0 - t) % ClockMod = IF t = 0 THEN 0 ELSE ClockMod - t
      BY <1>1
    <2> QED BY <1>1, <1>3, <1>4, <2>1, <2>2
  <1>5. CASE n + 1 # ClockMod
    <2>1. (n + 1 - t) % ClockMod = IF n + 1 >= t THEN n + 1 - t ELSE n + 1 - t + ClockMod
      BY <1>1, <1>5
    <2> QED BY <1>1, <1>2, <1>3, <1>5, <2>1
  <1> QED BY <1>4, <1>5

LEMMA MeasuredStep == TypeOK /\ Measured /\ [Next]_vars => Measured'
  <1> SUFFICES ASSUME TypeOK, Measured, [Next]_vars PROVE Measured'
    OBVIOUS
  <1>0. /\ now \in 0 .. ClockMod - 1 /\ time_last \in 0 .. ClockMod - 1 /\ since \in Nat
        /\ ClockMod \in Nat \ {0} /\ MinLoopTime \in Nat /\ MinLoopTime < ClockMod
    BY Constants, ClockAssumption DEF TypeOK
  <1>1. CASE Tick
    <2>1. since' = since + 1 /\ time_last' = time_last /\ now' = (now + 1) % ClockMod
      BY <1>1 DEF Tick
    <2>2. CASE since + 1 >= MinLoopTime
      BY <2>1, <2>2 DEF Measured
    <2>3. CASE since + 1 < MinLoopTime
      <3>1. (now - time_last) % ClockMod = since
        BY <1>0, <2>3 DEF Measured, Since
      <3>2. (((now + 1) % ClockMod) - time_last) % ClockMod = since + 1
        BY <1>0, <2>3, <3>1, StepsOn
      <3> QED BY <2>1, <3>2 DEF Measured, Since
    <2> QED BY <1>0, <2>2, <2>3
  <1>2. CASE WaitOver
    <2>1. since' = 0 /\ now' = now /\ time_last' = now
      BY <1>2 DEF WaitOver
    <2>2. (now - now) % ClockMod = 0
      BY <1>0
    <2> QED BY <2>1, <2>2 DEF Measured, Since
  <1>3. CASE \/ UpdateImu \/ CheckWarmUp \/ Command
             \/ \E d \in -MaxMotion .. MaxMotion : ImuReports(d)
             \/ UNCHANGED vars
    <2>1. UNCHANGED <<clock, time_last>>
      BY <1>3 DEF UpdateImu, CheckWarmUp, Command, ImuReports, vars
    <2> QED BY <2>1 DEF Measured, Since, clock
  <1> QED BY <1>1, <1>2, <1>3 DEF Next

(* The limit on the frequency of the cycles: however the clock wraps, and  *)
(* however long the passes take, two passes are MinLoopTime apart.         *)
THEOREM PassesApart == Spec => CyclesApart
  <1>1. Init => Measured
    BY ClockAssumption DEF Init, Measured
  <1>2. IInv /\ Measured /\ [Next]_vars => [WaitOver => since >= MinLoopTime]_vars
    BY DEF IInv, Measured, WaitOver
  <1>3. IInv /\ Measured /\ [Next]_vars => Measured'
    BY MeasuredStep DEF IInv
  <1> QED BY InitInv, StepInv, <1>1, <1>2, <1>3, PTL DEF Spec, CyclesApart
-----------------------------------------------------------------------------
(* No boot from b on has lost the number.                                  *)
KeptSince(b) == \A l \in lost : l < b

(* The lines of boots since which the number was kept: none is in a file   *)
(* beyond the name file while that is at rest, or in one of the new number *)
(* or beyond while the name file is replaced.                              *)
Outrun ==
  /\ stage \in {"off", "begin", "look", "remove", "removing", "loop"} =>
        \A q \in lines : KeptSince(q[2]) => q[1] <= namefile
  /\ stage \in {"create", "print"} =>
        \A q \in lines : KeptSince(q[2]) => q[1] < fileNumber

(* A boot that logs and has the number has a file beyond theirs.           *)
OwnFile ==
  stage = "loop" /\ sdActive /\ boot \notin lost =>
     /\ fileName = fileNumber /\ fileName <= namefile
     /\ \A q \in lines : q[2] # boot /\ KeptSince(q[2]) => q[1] < fileName

(* What is known of the setup at each of its steps.                        *)
Steps ==
  /\ stage \in {"remove", "removing"} => boot \in lost \/ fileNumber = namefile + 1
  /\ stage \in {"remove", "removing"} => namefile \in Nat
  /\ stage = "print" => namefile \in Nat /\ fileName = fileNumber
  /\ stage \in {"begin", "look"} => fileNumber = 0
  /\ stage \in {"begin", "look", "remove", "removing"} => fileName = Stem
  /\ boot > 0 \/ stage = "off"
  /\ \A q \in lines : q[2] <= boot

LogInv == LogTypeOK /\ Steps /\ Outrun /\ OwnFile /\ OneBootPerFile

LEMMA Bounds ==
  ASSUME NEW n \in Nat, NEW old \in Nat, NEW p \in PowersOfTen
  PROVE  old * p + n \in Nat /\ old * p + n >= n
  BY DEF PowersOfTen

LEMMA NumberType == ASSUME namefile \in Nat PROVE NumberRead \subseteq Nat
<1> SUFFICES ASSUME NEW p \in PowersOfTen PROVE namefile \div p \in Nat
  BY DEF NumberRead
<1> QED BY DEF PowersOfTen

LEMMA LogInitInv == LogInit => LogInv
<1> SUFFICES ASSUME LogInit PROVE LogInv
  OBVIOUS
<1> USE DEF LogInit, Stem, NoFile
<1>1. LogTypeOK
  BY DEF LogTypeOK
<1>2. Steps
  BY DEF Steps
<1>3. Outrun /\ OwnFile /\ OneBootPerFile
  BY DEF Outrun, OwnFile, OneBootPerFile
<1> QED BY <1>1, <1>2, <1>3 DEF LogInv
-----------------------------------------------------------------------------
(* A loss is of this boot: it is kept in mind, and no line then written    *)
(* belongs to a boot since which the number was kept.                      *)
LEMMA Losing ==
  ASSUME LogInv, boot > 0, boot' = boot, lines' = lines, NEW condition \in BOOLEAN, Loses(condition)
  PROVE  /\ lost' \subseteq 1 .. boot /\ lost \subseteq lost'
         /\ boot \in lost' <=> condition \/ boot \in lost
         /\ \A q \in lines : KeptSince(q[2])' => KeptSince(q[2]) /\ ~condition /\ boot \notin lost
         /\ OneBootPerFile'
<1> USE DEF LogInv, LogTypeOK, Steps
<1>1. lost' = IF condition THEN lost \cup {boot} ELSE lost
  BY DEF Loses
<1>2. lost' \subseteq 1 .. boot /\ lost \subseteq lost' /\ (boot \in lost' <=> condition \/ boot \in lost)
  BY <1>1
<1>3. ASSUME NEW q \in lines, KeptSince(q[2])'
      PROVE  KeptSince(q[2]) /\ ~condition /\ boot \notin lost
  <2>1. \A l \in lost' : l < q[2]
    BY <1>3 DEF KeptSince
  <2>2. q[2] \in Nat /\ q[2] <= boot
    BY <1>3
  <2> QED BY <1>2, <2>1, <2>2 DEF KeptSince
<1>4. OneBootPerFile'
  BY <1>2 DEF OneBootPerFile
<1> QED BY <1>2, <1>3, <1>4

LEMMA LogInvKept == LogInv /\ [LogNext]_logVars => LogInv'
<1> SUFFICES ASSUME LogInv, [LogNext]_logVars PROVE LogInv'
  OBVIOUS
<1> USE DEF LogInv, LogTypeOK, Steps, Stem, NoFile, ram, card
<1>1. CASE PowerUp
  <2> USE <1>1 DEF PowerUp
  <2>1. boot' \in Nat /\ boot' = boot + 1 /\ lost' \subseteq 1 .. boot'
    BY DEF PowerUp
  <2>2. LogTypeOK'
    BY <2>1, Zenon
  <2>3. Steps'
    BY <2>1
  <2>4. \A q \in lines : KeptSince(q[2])' <=> KeptSince(q[2])
    BY DEF KeptSince
  <2>5. Outrun' /\ OwnFile' /\ OneBootPerFile'
    BY <2>4 DEF Outrun, OwnFile, OneBootPerFile
  <2> QED BY <2>2, <2>3, <2>5
<1>2. CASE Begin
  <2> USE <1>2 DEF Begin
  <2>1. LogTypeOK' /\ Steps'
    OBVIOUS
  <2>2. Outrun' /\ OwnFile' /\ OneBootPerFile'
    BY DEF Outrun, OwnFile, OneBootPerFile, KeptSince
  <2> QED BY <2>1, <2>2
<1>3. CASE ReadNumber
  <2>1. PICK n \in NumberRead : fileNumber' = n + 1 /\ Loses(n # namefile)
    BY <1>3 DEF ReadNumber
  <2>2. n \in Nat
    BY <1>3, NumberType DEF ReadNumber
  <2>3. /\ stage' = "remove" /\ boot' = boot /\ lines' = lines /\ sdActive' = sdActive
        /\ fileName' = fileName /\ namefile' = namefile /\ namefile \in Nat /\ boot > 0
    BY <1>3 DEF ReadNumber
  <2>4. /\ lost' \subseteq 1 .. boot /\ (boot \in lost' <=> n # namefile \/ boot \in lost)
        /\ \A q \in lines : KeptSince(q[2])' => KeptSince(q[2])
        /\ OneBootPerFile'
    BY <2>1, <2>3, Losing
  <2>5. LogTypeOK' /\ Steps'
    BY <1>3, <2>1, <2>2, <2>3, <2>4 DEF ReadNumber
  <2>6. Outrun' /\ OwnFile'
    BY <1>3, <2>3, <2>4 DEF Outrun, OwnFile, ReadNumber
  <2> QED BY <2>4, <2>5, <2>6
<1>4. CASE NoNamefile
  <2>1. /\ stage' = "create" /\ boot' = boot /\ lines' = lines /\ sdActive' = sdActive
        /\ fileName' = 0 /\ fileNumber' = 0 /\ namefile' = namefile /\ boot > 0
        /\ Loses(namefile # NoFile)
    BY <1>4 DEF NoNamefile
  <2>2. /\ lost' \subseteq 1 .. boot
        /\ \A q \in lines : KeptSince(q[2])' => KeptSince(q[2]) /\ namefile = NoFile
        /\ OneBootPerFile'
    BY <2>1, Losing
  <2>3. LogTypeOK' /\ Steps'
    BY <2>1, <2>2
  <2>4. Outrun' /\ OwnFile'
    BY <1>4, <2>1, <2>2 DEF Outrun, OwnFile, NoNamefile
  <2> QED BY <2>2, <2>3, <2>4
<1>5. CASE FreeNamefile
  <2>1. LogTypeOK' /\ Steps'
    BY <1>5 DEF FreeNamefile
  <2>2. \A q \in lines : KeptSince(q[2])' => KeptSince(q[2]) /\ boot \notin lost
    BY <1>5 DEF FreeNamefile, KeptSince
  <2>3. Outrun' /\ OwnFile' /\ OneBootPerFile'
    BY <1>5, <2>2 DEF FreeNamefile, Outrun, OwnFile, OneBootPerFile
  <2> QED BY <2>1, <2>3
<1>6. CASE Remove
  <2>1. LogTypeOK' /\ Steps'
    BY <1>6 DEF Remove
  <2>2. \A q \in lines : KeptSince(q[2])' => KeptSince(q[2]) /\ boot \notin lost
    BY <1>6 DEF Remove, KeptSince
  <2>3. Outrun' /\ OwnFile' /\ OneBootPerFile'
    BY <1>6, <2>2 DEF Remove, Outrun, OwnFile, OneBootPerFile
  <2> QED BY <2>1, <2>3
<1>7. CASE Create
  <2>1. /\ boot' = boot /\ lines' = lines /\ sdActive' = sdActive /\ fileNumber' = fileNumber
        /\ boot > 0
    BY <1>7 DEF Create
  <2>2. CASE stage' = "print" /\ namefile' = Created /\ fileName' = fileNumber /\ lost' = lost
    <3>1. namefile' \in Nat
      BY <2>2 DEF Created
    <3>2. LogTypeOK' /\ Steps'
      BY <2>1, <2>2, <3>1
    <3>3. Outrun' /\ OwnFile' /\ OneBootPerFile'
      BY <1>7, <2>1, <2>2 DEF Create, Outrun, OwnFile, OneBootPerFile, KeptSince
    <3> QED BY <3>2, <3>3
  <2>3. CASE /\ stage' = "loop" /\ namefile' \in {namefile, Created} /\ fileName' = fileName
             /\ Loses(TRUE)
    <3>1. namefile' \in Nat \cup {NoFile}
      BY <2>3 DEF Created
    <3>2. /\ lost' \subseteq 1 .. boot /\ boot \in lost'
          /\ \A q \in lines : ~KeptSince(q[2])'
          /\ OneBootPerFile'
      BY <2>1, <2>3, Losing
    <3>3. LogTypeOK' /\ Steps'
      BY <2>1, <2>3, <3>1, <3>2
    <3>4. Outrun' /\ OwnFile'
      BY <2>1, <2>3, <3>2 DEF Outrun, OwnFile
    <3> QED BY <3>2, <3>3, <3>4
  <2> QED BY <1>7, <2>2, <2>3 DEF Create
<1>8. CASE PrintNumber
  <2>1. /\ boot' = boot /\ lines' = lines /\ sdActive' = sdActive /\ fileNumber' = fileNumber
        /\ fileName' = fileName /\ stage' = "loop" /\ boot > 0 /\ Loses(namefile' < fileNumber)
    BY <1>8 DEF PrintNumber
  <2>2. namefile' \in Nat
    BY <1>8, Bounds DEF PrintNumber
  <2> DEFINE short == namefile' < fileNumber
  <2>a. short \in BOOLEAN /\ Loses(short)
    BY <2>1, <2>2
  <2> HIDE DEF short
  <2>b. /\ lost' \subseteq 1 .. boot
        /\ boot \in lost' <=> short \/ boot \in lost
        /\ \A q \in lines : KeptSince(q[2])' => KeptSince(q[2]) /\ ~short
        /\ OneBootPerFile'
    BY <2>1, <2>a, Losing
  <2>3. /\ lost' \subseteq 1 .. boot
        /\ boot \in lost' <=> namefile' < fileNumber \/ boot \in lost
        /\ \A q \in lines : KeptSince(q[2])' => KeptSince(q[2]) /\ ~(namefile' < fileNumber)
        /\ OneBootPerFile'
    BY <2>b DEF short
  <2>4. LogTypeOK' /\ Steps'
    BY <2>1, <2>2, <2>3
  <2>5. Outrun' /\ OwnFile'
    BY <1>8, <2>1, <2>2, <2>3 DEF PrintNumber, Outrun, OwnFile
  <2> QED BY <2>3, <2>4, <2>5
<1>9. CASE Dataln
  <2>1. /\ stage = "loop" /\ sdActive /\ lines' = lines \cup {<<fileName, boot>>}
        /\ UNCHANGED <<stage, boot, ram, namefile, lost>> /\ boot > 0
    BY <1>9 DEF Dataln
  <2>2. LogTypeOK' /\ Steps'
    BY <2>1
  <2>3. \A b : KeptSince(b)' <=> KeptSince(b)
    BY <2>1 DEF KeptSince
  <2>4. KeptSince(boot) => boot \notin lost
    BY DEF KeptSince
  <2>5. Outrun' /\ OwnFile'
    BY <2>1, <2>3, <2>4 DEF Outrun, OwnFile
  <2>6. ASSUME NEW p \in lines, p[1] = fileName, p[2] < boot
        PROVE  \E b \in lost : p[2] <= b /\ b <= boot
    <3>1. boot \in lost \/ ~KeptSince(p[2])
      BY <2>1, <2>6 DEF OwnFile
    <3> QED BY <2>6, <3>1 DEF KeptSince
  <2>7. OneBootPerFile'
    BY <2>1, <2>6 DEF OneBootPerFile
  <2> QED BY <2>2, <2>5, <2>7
<1>10. CASE PowerOff
  <2> DEFINE cut == stage \in {"create", "print"} /\ namefile + 1 < fileNumber
  <2>1. /\ stage \notin {"off", "torn"} /\ stage' = IF stage = "removing" THEN "torn" ELSE "off"
        /\ UNCHANGED <<boot, ram, card>> /\ Loses(cut) /\ boot > 0
    BY <1>10 DEF PowerOff
  <2>2. /\ lost' \subseteq 1 .. boot
        /\ \A q \in lines : KeptSince(q[2])' => KeptSince(q[2]) /\ ~cut
        /\ OneBootPerFile'
    BY <2>1, Losing
  <2>3. LogTypeOK' /\ Steps'
    BY <2>1, <2>2
  <2>4. Outrun' /\ OwnFile'
    BY <2>1, <2>2 DEF Outrun, OwnFile
  <2> QED BY <2>2, <2>3, <2>4
<1>11. CASE UNCHANGED logVars
  BY <1>11 DEF logVars, Outrun, OwnFile, OneBootPerFile, KeptSince
<1> QED
  BY <1>1, <1>2, <1>3, <1>4, <1>5, <1>6, <1>7, <1>8, <1>9, <1>10, <1>11 DEF LogNext

(* The types of the log's state, which hold whatever fails.                *)
THEOREM LogTypesCorrect == LogSpec => []LogTypeOK
<1>1. LogInv => LogTypeOK
  BY DEF LogInv
<1> QED BY <1>1, LogInitInv, LogInvKept, PTL DEF LogSpec

(* Two boots share a data file only if the number was lost from the first  *)
(* of them to the second, with the power cut and calls failing anywhere.   *)
THEOREM FilesApart == LogSpec => []OneBootPerFile
<1>1. LogInv => OneBootPerFile
  BY DEF LogInv
<1> QED BY <1>1, LogInitInv, LogInvKept, PTL DEF LogSpec
=============================================================================
