------------------------------ MODULE TimeOfDay ------------------------------
(* Times of day in minutes, kept in two bytes of the NVRAM. *)
EXTENDS Integers

CONSTANTS
  HourLen,  \* 60 minutes
  WholeDay, \* WHOLE_DAY, in minutes
  ByteSize  \* 256

Bytes == 0 .. ByteSize - 1
Words == 0 .. (ByteSize * ByteSize) - 1
Minutes == 0 .. WholeDay - 1

ASSUME TimesAssumption ==
  /\ HourLen \in Nat \ {0}
  /\ WholeDay \in Nat \ {0}
  /\ ByteSize \in Nat /\ ByteSize > HourLen
  /\ WholeDay <= ByteSize * ByteSize

(* What alarm_init and night_day_time_init make of a stored time. *)
BootTime(time) == IF time >= WholeDay THEN 0 ELSE time
=============================================================================
