---------------------------- MODULE ControlLoop -----------------------------
(***************************************************************************)
(* loop() of stabilize.ino for one axis: the limit on the frequency of the *)
(* cycles, the cycles skipped without IMU data or during warm-up, and      *)
(* rollover, which unwraps the IMU's angle of 0 .. Circle - 1 into one     *)
(* that can pass zero, over a clock that wraps.  Angles and times are      *)
(* integers; the filters, which are arithmetic on the unwrapped angle, are *)
(* left out.                                                               *)
(***************************************************************************)
EXTENDS Integers

CONSTANTS Circle,           \* 360
          Margin,           \* margin of rollover, 50
          MaxMotion,        \* how far the craft turns between two commands
          ClockMod,         \* values of millis(), 2^32
          MinLoopTime,      \* MIN_LOOP_TIME
          WarmUp,           \* 2000
          MaxBusy,          \* how long one pass through the loop can take
          MaxAngle          \* bound: the unwrapped angle stays below

ASSUME AngleAssumption ==
  /\ Circle \in Nat /\ Margin \in Nat /\ MaxMotion \in Nat /\ MaxAngle \in Nat
  /\ MaxMotion < Margin
  /\ MaxMotion + 2 * Margin <= Circle
ASSUME ClockAssumption ==
  /\ ClockMod \in Nat /\ MinLoopTime \in Nat /\ WarmUp \in Nat /\ MaxBusy \in Nat
  /\ MinLoopTime + MaxBusy < ClockMod /\ WarmUp < ClockMod

VARIABLES pc,               \* the statement of loop() that is next
          now,              \* millis()
          time_last, start_time,
          value,            \* imu.yaw, as the last packet left it
          bytes,            \* whether IMUSerial.available()
          prev, mod,        \* yaw_prev, yaw_mod
          rolled,           \* yaw_rollover
          moved,            \* true motion since prev was taken
          commanded,        \* whether a cycle has come as far as setVal
          since             \* true time since the last pass began

clock == <<now, since>>
axis == <<prev, mod, rolled, commanded>>
vars == <<pc, clock, time_last, start_time, value, bytes, axis, moved>>

Since(t) == (now - t) % ClockMod

Init ==
  /\ pc = "wait"
  /\ now \in 0 .. ClockMod - 1 /\ start_time = now
  /\ time_last = 0 /\ since = MinLoopTime
  /\ value \in 0 .. Circle - 1 /\ bytes = FALSE
  /\ prev = 0 /\ mod = 0 /\ rolled = 0
  /\ moved = 0 /\ commanded = FALSE
-----------------------------------------------------------------------------
(* Time passes: in the busy wait, and up to MaxBusy in a pass.             *)
Tick ==
  /\ IF pc = "wait" THEN Since(time_last) <= MinLoopTime ELSE since < MaxBusy
  /\ now' = (now + 1) % ClockMod
  /\ since' = since + 1
  /\ UNCHANGED <<pc, time_last, start_time, value, bytes, axis, moved>>

Turned(d) ==
  IF value + d < 0 THEN value + d + Circle
  ELSE IF value + d >= Circle THEN value + d - Circle
  ELSE value + d

(* A packet from the IMU gives a new angle; other bytes arrive as well.    *)
ImuReports(d) ==
  /\ moved + d \in -MaxMotion .. MaxMotion
  /\ rolled + moved + d \in -MaxAngle .. MaxAngle
  /\ value' = Turned(d)
  /\ moved' = IF commanded THEN moved + d ELSE 0
  /\ bytes' = TRUE
  /\ UNCHANGED <<pc, clock, time_last, start_time, axis>>

(* The busy wait ends, and time_last += loop_time. *)
WaitOver_Mutated ==
  /\ pc = "wait"
  /\ now >= (time_last + MinLoopTime) % ClockMod
  /\ time_last' = now
  /\ since' = 0
  /\ pc' = "imu"
  /\ UNCHANGED <<now, start_time, value, bytes, axis, moved>>

WaitOver ==
  /\ pc = "wait"
  /\ Since(time_last) >= MinLoopTime
  /\ time_last' = now
  /\ since' = 0
  /\ pc' = "imu"
  /\ UNCHANGED <<now, start_time, value, bytes, axis, moved>>

(* updateImu, which returns whether there was any byte to read; without    *)
(* one the cycle is skipped.                                               *)
UpdateImu ==
  /\ pc = "imu"
  /\ pc' = IF bytes THEN "warmup" ELSE "wait"
  /\ bytes' = FALSE
  /\ UNCHANGED <<clock, time_last, start_time, value, axis, moved>>

CheckWarmUp ==
  /\ pc = "warmup"
  /\ pc' = IF Since(start_time) < WarmUp THEN "wait" ELSE "command"
  /\ UNCHANGED <<clock, time_last, start_time, value, bytes, axis, moved>>

Rollover_Mutated ==
  CASE prev - Margin < 0 /\ value + Margin > Circle -> mod - Circle
    [] OTHER -> mod

(* The new modifier: passing zero downwards takes a turn off, passing the  *)
(* full circle upwards adds one.                                           *)
Rollover ==
  CASE prev - Margin < 0 /\ value + Margin > Circle -> mod - Circle
    [] prev + Margin > Circle /\ value - Margin < 0 -> mod + Circle
    [] OTHER -> mod

(* Rollover, filters, setVal, syncMotor and output: the rest of the pass.  *)
Command ==
  /\ pc = "command"
  /\ mod' = Rollover
  /\ prev' = value
  /\ rolled' = value + mod'
  /\ moved' = 0
  /\ commanded' = TRUE
  /\ pc' = "wait"
  /\ UNCHANGED <<clock, time_last, start_time, value, bytes>>

Next ==
  \/ Tick \/ WaitOver \/ UpdateImu \/ CheckWarmUp \/ Command
  \/ \E d \in -MaxMotion .. MaxMotion : ImuReports(d)

Spec == Init /\ [][Next]_vars
-----------------------------------------------------------------------------
(* Angles stay on the circle and times within the clock.                   *)
TypeOK ==
  /\ pc \in {"wait", "imu", "warmup", "command"}
  /\ now \in 0 .. ClockMod - 1 /\ time_last \in 0 .. ClockMod - 1
  /\ start_time \in 0 .. ClockMod - 1
  /\ value \in 0 .. Circle - 1 /\ prev \in 0 .. Circle - 1
  /\ mod \in Int /\ rolled \in Int
  /\ moved \in -MaxMotion .. MaxMotion
  /\ bytes \in BOOLEAN /\ commanded \in BOOLEAN
  /\ since \in Nat

(* The unwrapped angle follows the craft: from one command to the next it  *)
(* changes by exactly what the craft has turned, through any number of     *)
(* skipped cycles and passages of zero, so that the high-pass filters      *)
(* never see a jump of a full circle.                                      *)
MotionTracked == [][Command /\ commanded => rolled' = rolled + moved]_vars

(* Two passes are never closer than MinLoopTime, also when the clock wraps *)
(* between them.                                                           *)
CyclesApart == [][WaitOver => since >= MinLoopTime]_vars
=============================================================================
