-------------------------------- MODULE Alarm --------------------------------
(***************************************************************************)
(* The alarm (alarm.c) with its copy in the NVRAM and the time of day.     *)
(* Every function ends by saving its three bytes one after the other; the  *)
(* function itself and the first write are one step, since nothing can be  *)
(* seen between them, and the power may fail before each of the others.    *)
(*                                                                         *)
(* Times are minutes since midnight, and what the radio sends as a time is *)
(* two bytes that nothing checks.                                          *)
(***************************************************************************)
EXTENDS AlarmRules

CONSTANTS
  Inputs,       \* the <<hour, minute>> pairs that set_alarm is sent with
  StartNvrams,  \* what the three bytes may hold at first
  MaxRequests,  \* bound on commands, buttons and clock settings
  MaxCrashes    \* bound on power failures

Nvram == [hi : Bytes, lo : Bytes, state : Bytes]

ASSUME AlarmAssumption ==
  /\ ByteSize > ALARM_INVALID_STATE
  /\ Inputs \subseteq Bytes \X Bytes
  /\ StartNvrams \subseteq Nvram
  /\ MaxRequests \in Nat /\ MaxCrashes \in Nat

VARIABLES
  alarm_time,   \* uint16_t, not always below WholeDay
  alarm_state,
  nv,           \* NVRAM_ALARM_HI, _LO and _STATE
  pc,           \* "off", "idle", or the next byte to save
  now,          \* the time of day; the RTC runs on without power
  updated,      \* alarm_update has seen this minute
  before,       \* history: <<time, state>> before the save in progress
  requests,
  crashes

vars == <<alarm_time, alarm_state, nv, pc, now, updated, before, requests, crashes>>

Region == InActiveRegion(alarm_time, now)
Stored == nv.hi * ByteSize + nv.lo

-----------------------------------------------------------------------------
TypeOK ==
  /\ alarm_time \in Words
  /\ alarm_state \in {ALARM_DISABLED, ALARM_ENABLED, ALARM_ACTIVE, ALARM_RESET}
  /\ nv \in Nvram
  /\ pc \in {"off", "idle", "saveLo", "saveState"}
  /\ now \in Minutes
  /\ updated \in BOOLEAN
  /\ before \in Nat \X Bytes
  /\ requests \in 0 .. MaxRequests
  /\ crashes \in 0 .. MaxCrashes

Init ==
  /\ nv \in StartNvrams
  /\ alarm_time = 0
  /\ alarm_state = ALARM_DISABLED
  /\ pc = "off"
  /\ now \in Minutes
  /\ updated = FALSE
  /\ before = <<0, ALARM_DISABLED>>
  /\ requests = 0
  /\ crashes = 0

(* The variables get new values and save_to_nvram writes its first byte.   *)
Save(time, state) ==
  /\ alarm_time' = time
  /\ alarm_state' = state
  /\ nv' = [nv EXCEPT !.hi = (time \div ByteSize) % ByteSize]
  /\ before' = <<alarm_time, alarm_state>>
  /\ pc' = "saveLo"

SaveLo ==
  /\ pc = "saveLo"
  /\ nv' = [nv EXCEPT !.lo = alarm_time % ByteSize]
  /\ pc' = "saveState"
  /\ UNCHANGED <<alarm_time, alarm_state, now, updated, before, requests, crashes>>

SaveState ==
  /\ pc = "saveState"
  /\ nv' = [nv EXCEPT !.state = alarm_state]
  /\ pc' = "idle"
  /\ UNCHANGED <<alarm_time, alarm_state, now, updated, before, requests, crashes>>

Request ==
  /\ pc = "idle"
  /\ requests < MaxRequests
  /\ requests' = requests + 1
  /\ UNCHANGED <<now, updated, crashes>>

AlarmSet(hour, minute) ==
  /\ Request
  /\ Save(hour * HourLen + minute, ALARM_RESET)

AlarmUnset ==
  /\ Request
  /\ Save(alarm_time, ALARM_DISABLED)

AlarmReset ==
  /\ Request
  /\ Save(ResetTime(alarm_time), ALARM_RESET)

(* Each definition named Mut... is a plausible mistake in the one after it. *)
MutAlarmUpdateUnsaved ==
  /\ pc = "idle"
  /\ updated' = TRUE
  /\ alarm_state' = NextState(alarm_state, Region)
  /\ UNCHANGED <<alarm_time, nv, pc, before, now, requests, crashes>>

(* alarm_update saves only if the state changes. *)
AlarmUpdate ==
  /\ pc = "idle"
  /\ updated' = TRUE
  /\ IF NextState(alarm_state, Region) = alarm_state
       THEN UNCHANGED <<alarm_time, alarm_state, nv, pc, before>>
       ELSE Save(alarm_time, NextState(alarm_state, Region))
  /\ UNCHANGED <<now, requests, crashes>>

(* The next minute.  With the power on, the main loop calls alarm_update   *)
(* every second, so that no minute goes by without it.                     *)
Tick ==
  /\ updated \/ pc = "off"
  /\ now' = (now + 1) % WholeDay
  /\ updated' = FALSE
  /\ UNCHANGED <<alarm_time, alarm_state, nv, pc, before, requests, crashes>>

(* clock_set: the time of day jumps. *)
ClockSet(minute) ==
  /\ pc = "idle"
  /\ requests < MaxRequests
  /\ requests' = requests + 1
  /\ now' = minute
  /\ updated' = FALSE
  /\ UNCHANGED <<alarm_time, alarm_state, nv, pc, before, crashes>>

PowerFail ==
  /\ pc # "off"
  /\ crashes < MaxCrashes
  /\ crashes' = crashes + 1
  /\ pc' = "off"
  /\ alarm_time' = 0
  /\ alarm_state' = ALARM_DISABLED
  /\ before' = <<0, ALARM_DISABLED>>
  /\ updated' = FALSE
  /\ UNCHANGED <<nv, now, requests>>

MutAlarmInitUnchecked ==
  /\ pc = "off"
  /\ alarm_time' = BootTime(Stored)
  /\ alarm_state' = nv.state
  /\ nv' = [nv EXCEPT !.hi = BootTime(Stored) \div ByteSize]
  /\ before' = <<BootTime(Stored), nv.state>>
  /\ pc' = "saveLo"
  /\ UNCHANGED <<now, updated, requests, crashes>>

(* alarm_init: load, replace what is out of range, and save again. *)
AlarmInit ==
  /\ pc = "off"
  /\ alarm_time' = BootTime(Stored)
  /\ alarm_state' = BootState(nv.state)
  /\ nv' = [nv EXCEPT !.hi = BootTime(Stored) \div ByteSize]
  /\ before' = <<BootTime(Stored), BootState(nv.state)>>
  /\ pc' = "saveLo"
  /\ UNCHANGED <<now, updated, requests, crashes>>

Next ==
  \/ \E input \in Inputs : AlarmSet(input[1], input[2])
  \/ AlarmUnset
  \/ AlarmReset
  \/ AlarmUpdate
  \/ SaveLo
  \/ SaveState
  \/ Tick
  \/ \E minute \in Minutes : ClockSet(minute)
  \/ PowerFail
  \/ AlarmInit

Spec == Init /\ [][Next]_vars

(* The clock boots when it has power, the main loop never stops calling    *)
(* alarm_update, its writes take place, and time goes by.                  *)
FairSpec ==
  /\ Spec
  /\ WF_vars(AlarmInit)
  /\ WF_vars(AlarmUpdate)
  /\ WF_vars(SaveLo \/ SaveState)
  /\ WF_vars(Tick)

-----------------------------------------------------------------------------
(* Properties *)

(* alarm.c:18 keeps a uint16_t that a radio command may set past the end   *)
(* of the day; the loop of alarm_update (lines 76-85) turns such a time    *)
(* into midnight, exactly as alarm_init would after a power failure, and   *)
(* otherwise finds the minutes since the alarm time, across midnight too.  *)
RegionIsWindow ==
  \A time \in Words :
    LET elapsed == (now - BootTime(time)) % WholeDay
    IN InActiveRegion(time, now) = IF elapsed < SoundsFor THEN elapsed + 1 ELSE 0

(* Between two calls, the NVRAM holds what the variables do: there is no   *)
(* path through alarm.c that changes the alarm and forgets to save it.     *)
NvramMatchesRam ==
  pc = "idle" => Stored = alarm_time /\ nv.state = alarm_state

(* alarm.c:53-65: the right button sets the alarm for the same time again, *)
(* with the hour in a uint8_t.  Nothing checks the time of a set_alarm     *)
(* command.  The button keeps what was set, except a time of 256 hours or  *)
(* more: that alarm sounds at midnight, and the button moves it to what is *)
(* left of it above 256 hours, 03:15 at the latest.                        *)
ResetMovesOverflowOnly ==
  \A hour, minute \in Bytes :
    LET time == hour * HourLen + minute
    IN IF time < ByteSize * HourLen
         THEN ResetTime(time) = time
         ELSE /\ ResetTime(time) = time - ByteSize * HourLen
              /\ InActiveRegion(time, now) = InActiveRegion(0, now)

(* What a user sees: the variables with the power on, the NVRAM without. *)
SeenTime == BootTime(IF pc = "off" THEN Stored ELSE alarm_time)
SeenState == BootState(IF pc = "off" THEN nv.state ELSE alarm_state)
ModeOf(state) ==
  CASE state = ALARM_DISABLED -> "off"
    [] state = ALARM_ENABLED  -> "armed"
    [] state = ALARM_ACTIVE   -> "sounding"
    [] state = ALARM_RESET    -> "set"

(* A set_alarm that the power cut left half written, as a time past the    *)
(* end of the day, is replaced at boot by one more series of writes.       *)
Torn ==
  IF pc = "off" THEN Stored >= WholeDay
  ELSE before = <<alarm_time, alarm_state>> /\ Stored # alarm_time

(* What the NVRAM may hold if the power fails before the save is complete. *)
Risk ==
  CASE Torn -> Minutes \X {ModeOf(SeenState)}
    [] ~Torn /\ pc \in {"saveLo", "saveState"} /\ before # <<alarm_time, alarm_state>> ->
         IF alarm_state = ALARM_RESET
           THEN Minutes \X {ModeOf(before[2])}
           ELSE {<<before[1], ModeOf(before[2])>>}
    [] OTHER -> {}

OneShot == INSTANCE OneShotAlarm WITH
  time <- SeenTime, mode <- ModeOf(SeenState), risk <- Risk

(* For times of day, the alarm is the abstract one, whenever the power     *)
(* fails: three separate writes never lose more than the step in progress, *)
(* never bring a cancelled alarm back and never make a set one sound       *)
(* without having left its window.                                         *)
ImplementsOneShot == OneShot!Spec

(* An alarm that is set does sound, power failures or not, unless it is    *)
(* cancelled; and it does not sound for ever.                              *)
AlarmSoundsAndStops ==
  /\ alarm_state \in {ALARM_RESET, ALARM_ENABLED}
       ~> alarm_state \in {ALARM_ACTIVE, ALARM_DISABLED} /\ pc # "off"
  /\ alarm_state = ALARM_ACTIVE ~> alarm_state # ALARM_ACTIVE /\ pc # "off"
=============================================================================
