----------------------------- MODULE MCClockLoop -----------------------------
(* An instance of ClockLoop for TLC: days of four minutes of two seconds.   *)
EXTENDS ClockLoop

(* At midnight, at noon and past the end of the day. *)
SomeNightTimes == {0, 2, 5}

(* The NVRAM of a new clock: times in and out of the day. *)
SomeNightNvrams == [nightHi : {0, 1}, nightLo : {2}, dayHi : {0, ByteSize - 1}, dayLo : {1}]
=============================================================================
