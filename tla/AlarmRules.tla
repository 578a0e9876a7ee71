----------------------------- MODULE AlarmRules -----------------------------
(* When the alarm changes its state: the computations of alarm.c. *)
EXTENDS TimeOfDay

CONSTANT SoundsFor \* ALARM_SOUNDS_FOR, in minutes

ASSUME SoundsForAssumption == SoundsFor \in 1 .. WholeDay - 1

ALARM_DISABLED == 0
ALARM_ENABLED == 1
ALARM_ACTIVE == 2
ALARM_RESET == 3
ALARM_INVALID_STATE == 4

(* test_time in the i-th round of alarm_update's loop. *)
TestTime(time, i) ==
  LET test[k \in 1 .. SoundsFor] ==
        LET t == IF k = 1 THEN time ELSE test[k - 1] + 1
        IN IF t >= WholeDay THEN 0 ELSE t
  IN test[i]

(* Each definition named Mut... is a plausible mistake in a later one. *)
MutInActiveRegion(time, at) ==
  IF at \in time .. time + SoundsFor - 1 THEN at - time + 1 ELSE 0

(* in_active_region: the first round that meets the time, 0 if none does. *)
InActiveRegion(time, at) ==
  IF \E i \in 1 .. SoundsFor : TestTime(time, i) = at
    THEN CHOOSE i \in 1 .. SoundsFor :
           TestTime(time, i) = at /\ \A j \in 1 .. i - 1 : TestTime(time, j) # at
    ELSE 0

MutNextStateNoTimeout(state, region) ==
  CASE state = ALARM_ENABLED /\ region # 0 -> ALARM_ACTIVE
    [] state = ALARM_RESET /\ region = 0   -> ALARM_ENABLED
    [] OTHER                               -> state

MutNextStateEnableAtOnce(state, region) ==
  CASE state = ALARM_ACTIVE /\ region = 0  -> ALARM_DISABLED
    [] state = ALARM_ENABLED /\ region # 0 -> ALARM_ACTIVE
    [] state = ALARM_RESET                 -> ALARM_ENABLED
    [] OTHER                               -> state

(* The switch in alarm_update. *)
NextState(state, region) ==
  CASE state = ALARM_ACTIVE /\ region = 0  -> ALARM_DISABLED
    [] state = ALARM_ENABLED /\ region # 0 -> ALARM_ACTIVE
    [] state = ALARM_RESET /\ region = 0   -> ALARM_ENABLED
    [] OTHER                               -> state

MutResetTime(time) == ((time \div HourLen) % ByteSize) * HourLen

(* alarm_get followed by alarm_set: the hour goes through a uint8_t. *)
ResetTime(time) == ((time \div HourLen) % ByteSize) * HourLen + (time % HourLen)

(* What alarm_init makes of a stored state. *)
BootState(state) == IF state >= ALARM_INVALID_STATE THEN ALARM_DISABLED ELSE state
=============================================================================
