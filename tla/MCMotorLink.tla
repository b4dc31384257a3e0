---------------------------- MODULE MCMotorLink -----------------------------
(***************************************************************************)
(* Instances of MotorLink.  The sketch has four motors, four settings in   *)
(* motSetup and three requests in syncMotor.                               *)
(***************************************************************************)
EXTENDS MotorLink

AllGains == <<"AngleKp", "AngleKi", "AngleKd", "VelocityFilterFc">>
SomeGains == <<"AngleKp", "VelocityFilterFc">>
SomeObs == <<"ObsAngle", "ObsVelocity">>
OneObs == <<"ObsAngle">>
=============================================================================
