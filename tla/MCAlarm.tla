------------------------------- MODULE MCAlarm -------------------------------
(* Instances of Alarm for TLC: a day of a few hours of two minutes. *)
EXTENDS Alarm

(* Every time of day, as the hour and minute that are sent for it. *)
ValidInputs == {<<t \div HourLen, t % HourLen>> : t \in Minutes}

(* The NVRAM of a new clock: times in and out of the day, every state and  *)
(* what is not a state.                                                    *)
AnyNvrams == [hi : {1, ByteSize - 1}, lo : {0}, state : Bytes]
=============================================================================
