------------------------------ MODULE NightDay ------------------------------
(***************************************************************************)
(* Night and day (night_day_time.c) with their copy in the NVRAM.  As in   *)
(* Alarm, a function and the first of its four writes are one step, and    *)
(* the power may fail before each of the others.  Times are minutes since  *)
(* midnight, made of two bytes that nothing checks.                        *)
(***************************************************************************)
EXTENDS TimeOfDay

CONSTANTS
  NightTimes,       \* the minutes that night and day may be set to begin at
  StartNightNvrams  \* what the four bytes may hold at first

VARIABLES
  start_night_time,
  start_day_time,
  nightNv,  \* NVRAM_NIGHT_TIME_HI, _LO, NVRAM_DAY_TIME_HI and _LO
  nightPc   \* "off", "idle", or the next byte to save

nightVars == <<start_night_time, start_day_time, nightNv, nightPc>>

NightNvram == [nightHi : Bytes, nightLo : Bytes, dayHi : Bytes, dayLo : Bytes]

ASSUME NightAssumption ==
  NightTimes \subseteq Words /\ StartNightNvrams \subseteq NightNvram

NightTypeOK ==
  /\ start_night_time \in Words
  /\ start_day_time \in Words
  /\ nightNv \in NightNvram
  /\ nightPc \in {"off", "idle", "nightLo", "dayHi", "dayLo"}

NightInit ==
  /\ start_night_time = 0
  /\ start_day_time = 0
  /\ nightNv \in StartNightNvrams
  /\ nightPc = "off"

(* Each definition named Mut... is a plausible mistake in the one after it. *)
MutNightTest(night, day, now) ==
  IF day < night THEN now < day \/ now >= night
                 ELSE now >= night /\ now < day

(* night_day_time_test: is it night now? *)
NightTest(night, day, now) ==
  CASE day = night -> TRUE
    [] day < night -> now < day \/ now >= night
    [] OTHER       -> now >= night /\ now < day

(* The variables get new values and save_to_nvram writes its first byte.   *)
SaveNight(night, day) ==
  /\ start_night_time' = night
  /\ start_day_time' = day
  /\ nightNv' = [nightNv EXCEPT !.nightHi = night \div ByteSize]
  /\ nightPc' = "nightLo"

SaveByte(pc, byte, value, next) ==
  /\ nightPc = pc
  /\ nightNv' = [nightNv EXCEPT ![byte] = value]
  /\ nightPc' = next
  /\ UNCHANGED <<start_night_time, start_day_time>>

MutSaveNightRest ==
  \/ SaveByte("nightLo", "nightLo", start_night_time % ByteSize, "dayLo")
  \/ SaveByte("dayLo", "dayLo", start_day_time % ByteSize, "idle")

SaveNightRest ==
  \/ SaveByte("nightLo", "nightLo", start_night_time % ByteSize, "dayHi")
  \/ SaveByte("dayHi", "dayHi", start_day_time \div ByteSize, "dayLo")
  \/ SaveByte("dayLo", "dayLo", start_day_time % ByteSize, "idle")

night_day_time_set(night, day) ==
  /\ nightPc = "idle"
  /\ SaveNight(night, day)

StoredNight == nightNv.nightHi * ByteSize + nightNv.nightLo
StoredDay == nightNv.dayHi * ByteSize + nightNv.dayLo

night_day_time_init ==
  /\ nightPc = "off"
  /\ SaveNight(BootTime(StoredNight), BootTime(StoredDay))

NightPowerFail ==
  /\ nightPc # "off"
  /\ nightPc' = "off"
  /\ start_night_time' = 0
  /\ start_day_time' = 0
  /\ UNCHANGED nightNv

NightNext ==
  \/ \E night, day \in NightTimes : night_day_time_set(night, day)
  \/ SaveNightRest
  \/ night_day_time_init
  \/ NightPowerFail

NightSpec == NightInit /\ [][NightNext]_nightVars

-----------------------------------------------------------------------------
(* Properties *)

Later(time, k) == IF time + k >= WholeDay THEN time + k - WholeDay ELSE time + k

(* night_day_time.c:43-52: whatever times of day the next command sets, it *)
(* is night if, going forward from the start of night, the time of day is  *)
(* reached before the start of day is, midnight or not; if both start at   *)
(* once the night never ends.                                              *)
NightIsInterval ==
  nightPc = "idle" =>
    \A night, day, now \in Minutes :
      NightTest(night, day, now) <=>
        \E k \in Minutes : Later(night, k) = now /\ \A j \in 1 .. k : Later(night, j) # day

(* What the clock would answer if the power failed now and came back.      *)
AfterReboot(now) == NightTest(BootTime(StoredNight), BootTime(StoredDay), now)

(* night_day_time.c:53-70: a reboot between two calls changes the answer   *)
(* for no minute of the day, whatever times the radio has set -- except    *)
(* that a night which starts past the end of the day, and does not follow  *)
(* the start of day, never comes before the reboot and never ends after.   *)
RebootKeepsNight ==
  LET lost == start_night_time >= WholeDay /\ start_day_time \notin 1 .. start_night_time
  IN nightPc = "idle" =>
       \A now \in Minutes :
         /\ AfterReboot(now) <=> lost \/ NightTest(start_night_time, start_day_time, now)
         /\ lost => ~NightTest(start_night_time, start_day_time, now)
=============================================================================
