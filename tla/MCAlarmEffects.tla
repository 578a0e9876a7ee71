---------------------------- MODULE MCAlarmEffects ----------------------------
(* Instances of AlarmEffects for TLC, in units of 125 milliseconds. *)
EXTENDS AlarmEffects

(* 250, 250, 1000, 500 and 250 milliseconds.  The third is 2000 in the     *)
(* program, which is too much for phases of two seconds.                   *)
Strobes == <<2, 2, 8, 4, 2>>

(* 1.5, 1, 0.75, 0.5, 0.25 and 0.125 seconds, for 10, 5, 3, 2, 1 and 0.5. *)
Sounds == <<12, 8, 6, 4, 2, 1>>
=============================================================================
