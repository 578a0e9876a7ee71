----------------------------- MODULE AlarmEffects -----------------------------
(***************************************************************************)
(* Light and sound of the alarm: update_alarm of cpeclock.ino, as loop()   *)
(* calls it in every round, with its unsigned counters of milliseconds.    *)
(*                                                                         *)
(* One step is one round of loop().  What alarm_update answers is chosen   *)
(* freely as far as alarm.c can give it: the minute of the alarm, or 0.    *)
(* Colours and levels of brightness are left out, except for off and on.   *)
(*                                                                         *)
(* There are two clocks.  The time of day is the DS1307's, which runs on a *)
(* crystal of its own; millis() counts the processor's oscillator.  They   *)
(* do not run equally fast, and come apart by up to MaxDrift in a minute.  *)
(***************************************************************************)
EXTENDS Integers, Sequences, FiniteSetsExt

CONSTANTS
  Word,          \* 2^32
  Second,        \* 1000
  MinuteLen,     \* 60000
  PhaseLen,      \* TOTAL_PHASE_TIME
  StrobePeriods, \* try_subtract_strobe_trigger's argument in phases 0, 1, 2, ...
  SoundPeriods,  \* how_often in phases 3, 4, 5, ...
  Rounds,        \* how long a round of loop() may take, by either clock
  MaxDrift,      \* how far the two clocks come apart in a minute
  MaxMinutes,    \* ALARM_SOUNDS_FOR
  ClockTimes,    \* the times within a minute that clock_set may choose
  LateStarts,    \* TRUE: an alarm may begin inside its window, at boot
  MaxAlarms,     \* bound on alarms
  MaxClockSets   \* bound on clock_set commands

ASSUME EffectsAssumption ==
  /\ Word \in Nat /\ Second \in Nat \ {0}
  /\ MinuteLen \in Nat \ {0} /\ MinuteLen % Second = 0
  /\ PhaseLen \in Nat \ {0}
  /\ MaxDrift \in Nat
  /\ Word > MinuteLen * (MaxMinutes + 1) + MaxDrift
  /\ StrobePeriods \in Seq(Nat \ {0}) /\ Len(StrobePeriods) > 1
  /\ SoundPeriods \in Seq(Nat \ {0}) /\ SoundPeriods # <<>>
  /\ Rounds \subseteq 1 .. Second
  /\ ClockTimes \subseteq 0 .. MinuteLen - 1
  /\ LateStarts \in BOOLEAN /\ MaxMinutes \in Nat \ {0} /\ MaxAlarms \in Nat /\ MaxClockSets \in Nat

VARIABLES
  inMinute,     \* the time since the minute began, by the real-time clock
  sinceOffset,  \* millis() - millisecond_offset
  drift,        \* what millis() has gained on the real-time clock since the
                \* round that noticed the minute, booting or the last clock_set
  alarm_active,
  last_running_time,
  strobe_trigger,
  sound_trigger,
  lit,          \* the strip is not dark
  tone,         \* this round has played a tone
  jumped,       \* the time of day has changed since alarm_update was called
  synced,       \* history: a minute has begun since booting and the last clock_set
  regular,      \* history: no alarm before this one, and it began with its minute
  alarms,
  clockSets

vars == <<inMinute, sinceOffset, drift, alarm_active, last_running_time, strobe_trigger,
          sound_trigger, lit, tone, jumped, synced, regular, alarms,
          clockSets>>

(* setup() takes the time of booting for the beginning of a minute. *)
Init ==
  /\ inMinute \in 0 .. MinuteLen - 1
  /\ sinceOffset = 0
  /\ drift = 0
  /\ alarm_active = 0
  /\ last_running_time = 0
  /\ strobe_trigger = 0
  /\ sound_trigger = 0
  /\ lit = FALSE
  /\ tone = FALSE
  /\ jumped = LateStarts
  /\ synced = FALSE
  /\ regular = TRUE
  /\ alarms = 0
  /\ clockSets = 0

-----------------------------------------------------------------------------
(* update_alarm, for the new values of alarm_active and sinceOffset *)

(* No alarm: everything off. *)
Dark ==
  /\ alarm_active' = 0
  /\ lit' = FALSE
  /\ tone' = FALSE
  /\ strobe_trigger' = 0
  /\ sound_trigger' = 0
  /\ UNCHANGED last_running_time

RunningTime == ((alarm_active' - 1) * MinuteLen + sinceOffset') % Word
Phase == RunningTime \div PhaseLen

MillisecondDelta == (RunningTime - last_running_time) % Word

(* The light effects go up to phase 4 and are then 1 to 4 over and over. *)
LightPhase ==
  LET last == Len(StrobePeriods) - 1
  IN IF Phase <= last THEN Phase ELSE ((Phase - 1) % last) + 1
StrobePeriod == StrobePeriods[LightPhase + 1]

SoundPeriod ==
  IF Phase < 3 THEN 0
  ELSE SoundPeriods[Min({Phase - 2, Len(SoundPeriods)})]

(* Each definition named Mut... is a plausible mistake in the one after it. *)
MutStrobeUnchecked ==
  LET trigger == (strobe_trigger + MillisecondDelta) % Word
      flash   == trigger >= StrobePeriod
  IN /\ strobe_trigger' = (trigger - StrobePeriod) % Word
     /\ IF LightPhase >= 2
          THEN lit' = flash
          ELSE IF flash THEN lit' \in BOOLEAN ELSE UNCHANGED lit

MutStrobe ==
  LET trigger == (strobe_trigger + MillisecondDelta) % Word
      flash   == trigger >= StrobePeriod
  IN /\ strobe_trigger' = trigger
     /\ IF LightPhase >= 2
          THEN lit' = flash
          ELSE IF flash THEN lit' \in BOOLEAN ELSE UNCHANGED lit

(* In phases 0 and 1 the brightness is set now and then; in the others the *)
(* strip is on for the round in which the strobe triggers.                 *)
Strobe ==
  LET trigger == (strobe_trigger + MillisecondDelta) % Word
      flash   == trigger >= StrobePeriod
  IN /\ strobe_trigger' = IF flash THEN trigger - StrobePeriod ELSE trigger
     /\ IF LightPhase >= 2
          THEN lit' = flash
          ELSE IF flash THEN lit' \in BOOLEAN ELSE UNCHANGED lit

(* There is no sound before phase 3, and no time for it is put aside. *)
Sound ==
  LET trigger == IF Phase < 3 THEN 0 ELSE (sound_trigger + MillisecondDelta) % Word
  IN /\ tone' = (trigger >= SoundPeriod /\ SoundPeriod > 0)
     /\ sound_trigger' = IF tone' THEN trigger - SoundPeriod ELSE trigger

Effects ==
  /\ last_running_time' = RunningTime
  /\ Strobe
  /\ Sound

update_alarm == IF alarm_active' = 0 THEN Dark ELSE Effects

-----------------------------------------------------------------------------
(* alarm_update at a new second.  It begins an alarm in its first minute   *)
(* and counts the minutes; if the time of day has jumped it may begin in   *)
(* any minute, go to any other, or end.                                    *)
Begin(minute, onTime) ==
  /\ alarms < MaxAlarms
  /\ alarm_active' = minute
  /\ alarms' = alarms + 1
  /\ regular' = (alarms = 0 /\ onTime)

GoOn == alarm_active' = alarm_active /\ UNCHANGED <<alarms, regular>>

MoveTo(minute) == alarm_active' = minute /\ UNCHANGED <<alarms, regular>>

NextMinute == alarm_active > 0 /\ MoveTo((alarm_active + 1) % (MaxMinutes + 1))

AlarmUpdate(newMinute) ==
  /\ jumped' = FALSE
  /\ \/ newMinute /\ alarm_active = 0 /\ Begin(1, TRUE)
     \/ newMinute /\ NextMinute
     \/ jumped /\ alarm_active = 0 /\ \E minute \in 1 .. MaxMinutes : Begin(minute, FALSE)
     \/ jumped /\ alarm_active > 0 /\ \E minute \in 0 .. MaxMinutes : MoveTo(minute)
     \/ ~(newMinute /\ alarm_active > 0) /\ GoOn

MutLoopOffsetKept(d, m) ==
  LET t          == inMinute + d
      minuteEnds == t >= MinuteLen
  IN /\ drift + m - d \in -MaxDrift .. MaxDrift
     /\ drift' = IF minuteEnds THEN 0 ELSE drift + m - d
     /\ inMinute' = t % MinuteLen
     /\ sinceOffset' = (sinceOffset + m) % Word
     /\ IF t \div Second > inMinute \div Second
          THEN AlarmUpdate(minuteEnds)
          ELSE GoOn /\ UNCHANGED jumped
     /\ update_alarm
     /\ synced' = (synced \/ minuteEnds)
     /\ UNCHANGED clockSets

(* One round: d after the last one by the real-time clock, m by millis().  *)
(* In a new minute, millis() is the new offset.                            *)
Loop(d, m) ==
  LET t          == inMinute + d
      minuteEnds == t >= MinuteLen
  IN /\ drift + m - d \in -MaxDrift .. MaxDrift
     /\ drift' = IF minuteEnds THEN 0 ELSE drift + m - d
     /\ inMinute' = t % MinuteLen
     /\ sinceOffset' = IF minuteEnds THEN 0 ELSE (sinceOffset + m) % Word
     /\ IF t \div Second > inMinute \div Second
          THEN AlarmUpdate(minuteEnds)
          ELSE GoOn /\ UNCHANGED jumped
     /\ update_alarm
     /\ synced' = (synced \/ minuteEnds)
     /\ UNCHANGED clockSets

(* A button, or a command noticed in the next second, ends the alarm. *)
Cancel ==
  /\ alarm_active > 0
  /\ Dark
  /\ UNCHANGED <<inMinute, sinceOffset, drift, jumped, synced, regular, alarms, clockSets>>

(* clock_set moves the time within the minute; millisecond_offset does not *)
(* follow.                                                                 *)
ClockSet(t) ==
  /\ clockSets < MaxClockSets
  /\ clockSets' = clockSets + 1
  /\ inMinute' = t
  /\ drift' = 0
  /\ jumped' = TRUE
  /\ synced' = FALSE
  /\ UNCHANGED <<sinceOffset, alarm_active, last_running_time, strobe_trigger,
                 sound_trigger, lit, tone, regular, alarms>>

Next ==
  \/ \E d, m \in Rounds : Loop(d, m)
  \/ Cancel
  \/ \E t \in ClockTimes : ClockSet(t)

Spec == Init /\ [][Next]_vars

-----------------------------------------------------------------------------
(* Properties *)

LongestRound == Max(Rounds)

(* cpeclock.ino:464-469 and 319: at the end of a minute millisecond_offset *)
(* starts again while alarm_active counts on, each as late as the round    *)
(* that notices it.  Unless the clock is set, the running time of an alarm *)
(* advances in every round but the one that ends a minute: there it may go *)
(* back, by less than millis() has gained on the real-time clock in that   *)
(* minute.  After its first minute an alarm never leaps by more than two   *)
(* rounds and what the clocks come apart in one minute: over an alarm of   *)
(* many minutes, the difference does not add up.                           *)
RunningTimeFollowsClock ==
  [][clockSets' = 0 /\ alarm_active > 0 /\ alarm_active' > 0 =>
       /\ \/ last_running_time' > last_running_time
          \/ alarm_active' # alarm_active /\ last_running_time - last_running_time' < drift
       /\ regular => last_running_time' - last_running_time <= 2 * LongestRound + MaxDrift]_vars

(* cpeclock.ino:286 and 466: clock_set moves the time of day and not       *)
(* millisecond_offset, and booting takes any time for the beginning of a   *)
(* minute.  From the next minute on the time that the effects go by is     *)
(* that of the clock again, as late as the round that noticed the minute   *)
(* and as far from it as the two clocks come apart in one minute.          *)
OffsetFollowsMinute ==
  synced => inMinute - sinceOffset \in -MaxDrift .. LongestRound - 1 + MaxDrift

Behind == strobe_trigger <= last_running_time /\ sound_trigger <= last_running_time

(* cpeclock.ino:322, 290-298 and 451-454: nothing is ever put aside in the *)
(* triggers of an alarm but time that it has been running, so that what is *)
(* taken from them is there and they do not wrap below zero, as long as    *)
(* its running time does not go back by more than one of them holds.       *)
TriggersWrapOnlyBack ==
  [][alarm_active > 0 /\ Behind /\ ~Behind' =>
       last_running_time' + Min({strobe_trigger, sound_trigger}) < last_running_time]_vars

InPhase2 == alarm_active > 0 /\ last_running_time \div PhaseLen = 2

FlashesTwice == lit /\ lit' /\ InPhase2 /\ InPhase2' /\ last_running_time' # last_running_time

(* cpeclock.ino:354: the strip flashes "once every two seconds" in phase   *)
(* 2, never in two rounds running.                                         *)
StrobesOncePerPeriod == [][~FlashesTwice]_vars

(* The same for the first alarm after a boot: nothing is put aside in the  *)
(* triggers from one phase that the next one would make up for.            *)
FirstAlarmStrobes == [][regular /\ clockSets' = 0 => ~FlashesTwice]_vars
=============================================================================
