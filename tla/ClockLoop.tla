------------------------------ MODULE ClockLoop ------------------------------
(***************************************************************************)
(* The main loop of the clock (cpeclock.ino): setup() and loop(), with the *)
(* order of the work in a round, the commands of mail.c, the buttons, and  *)
(* what is on the display and for how long.  It composes the rules of the  *)
(* alarm with night and day and their NVRAM; the NVRAM of the alarm is     *)
(* Alarm's, the effects while it sounds are those of AlarmEffects.         *)
(*                                                                         *)
(* Times are seconds from the midnight before the clock first booted.      *)
(***************************************************************************)
EXTENDS AlarmRules, NightDay

CONSTANTS
  MinuteLen,    \* 60 seconds
  DayScreenOn, NightScreenOn, MessageOn, \* DAY_SCREEN_ON_TIME and so on, in seconds
  CancelAt, ResetAt, \* 100 and 300 rounds of holding the extension button
  AlarmTimes,   \* the minutes set_alarm is sent with
  ClockTimes,   \* the seconds since midnight set_time is sent with
  MaxTime,      \* bound on the time
  MaxRequests,  \* bound on commands and buttons
  MaxCrashes    \* bound on power failures

ASSUME ClockAssumption ==
  /\ MinuteLen \in Nat /\ MinuteLen > 1
  /\ {DayScreenOn, NightScreenOn, MessageOn} \subseteq Nat /\ NightScreenOn <= DayScreenOn
  /\ CancelAt \in 1 .. ResetAt - 1 /\ ResetAt \in Nat
  /\ AlarmTimes \subseteq Words /\ ClockTimes \subseteq 0 .. WholeDay * MinuteLen - 1
  /\ MaxTime \in Nat /\ MaxRequests \in Nat /\ MaxCrashes \in Nat

VARIABLES
  rtc,               \* the time the DS1307 has; it runs on without power
  now_time,
  alarm,             \* [time, state, active]: alarm_time, alarm_state, alarm_active
  screen_off_time,
  message_off_time,
  extension_button_pressed,
  held,              \* history: for how many rounds the extension button is down
  alone,             \* history: nothing else has changed the alarm meanwhile
  commanded,         \* history: this second, a command by radio that sets something, or a boot
  answered,          \* history: this second, a message was displayed
  requests, crashes

clockVars == <<rtc, now_time, alarm, screen_off_time, message_off_time,
               extension_button_pressed, held, alone, commanded, answered>>
vars == <<nightVars, clockVars, requests, crashes>>

MinuteOf(t) == (t \div MinuteLen) % WholeDay
IsNight(t) == NightTest(start_night_time', start_day_time', MinuteOf(t))
ScreenOn(t) == t + IF IsNight(t) THEN NightScreenOn ELSE DayScreenOn

-----------------------------------------------------------------------------
(* The alarm's functions, on the record a. *)

AlarmUpdate(a, t) ==
  LET region == InActiveRegion(a.time, MinuteOf(t))
      state  == NextState(a.state, region)
  IN [a EXCEPT !.state = state, !.active = IF state = ALARM_ACTIVE THEN region ELSE 0]

AlarmSet(a, time) == [a EXCEPT !.time = time, !.state = ALARM_RESET]
AlarmUnset(a) == [a EXCEPT !.state = ALARM_DISABLED]

(* Each definition named Mut... is a plausible mistake in the one after it. *)
MutButton(a, b, t) == b

(* A button: alarm_active follows only if the state has changed. *)
Button(a, b, t) == IF b.state = a.state THEN b ELSE AlarmUpdate(b, t)

(* clock_set goes forward to the next such time of day. *)
ClockSet(t, time) ==
  CHOOSE u \in t + 1 .. t + WholeDay * MinuteLen : u % (WholeDay * MinuteLen) = time

(* The commands that mail_receive_messages may meet, what each does to the *)
(* alarm a and the time t, and whether it calls display_message.  "lp" is  *)
(* any message of low priority, "text" any other message on the display,   *)
(* also that of the sound switch.                                          *)
Commands ==
  [kind : {"none", "lp", "text", "a", "N"}]
    \cup [kind : {"A"}, time : AlarmTimes] \cup [kind : {"T"}, time : ClockTimes]

AfterMail(a, cmd) ==
  CASE cmd.kind = "A" -> AlarmSet(a, cmd.time)
    [] cmd.kind = "a" -> AlarmUnset(a)
    [] OTHER          -> a
TimeAfterMail(t, cmd) == IF cmd.kind = "T" THEN ClockSet(t, cmd.time) ELSE t
Displays(cmd, t) ==
  \/ cmd.kind \in {"text", "A", "a", "N", "T"}
  \/ cmd.kind = "lp" /\ ~IsNight(t)

MutDisplay(shown, touched, t) ==
  /\ screen_off_time' = IF shown \/ touched THEN ScreenOn(now_time) ELSE screen_off_time
  /\ message_off_time' = IF shown THEN now_time + MessageOn ELSE message_off_time

(* display_message, which has the time that clock_set has just set, and    *)
(* what holding the extension button does to the display.                  *)
Display(shown, touched, t) ==
  /\ screen_off_time' = IF shown \/ touched THEN ScreenOn(t) ELSE screen_off_time
  /\ message_off_time' = IF shown THEN t + MessageOn ELSE message_off_time

(* Holding the extension button: its counter, and what it does at 100 and  *)
(* at 300, when it starts again.                                           *)
MutCountAfter(count) == count

CountAfter(count) == IF count = ResetAt THEN 0 ELSE count

-----------------------------------------------------------------------------
Init ==
  /\ NightInit
  /\ rtc = 0
  /\ now_time = 0
  /\ alarm \in [time : AlarmTimes, state : {ALARM_DISABLED, ALARM_ENABLED}, active : {0}]
  /\ screen_off_time = 0
  /\ message_off_time = 0
  /\ extension_button_pressed = 0
  /\ held = 0
  /\ alone = FALSE
  /\ commanded = FALSE
  /\ answered = FALSE
  /\ requests = 0
  /\ crashes = 0

(* setup().  Alarm shows that alarm_init brings back what there was; a new *)
(* clock shows no message.                                                 *)
Setup ==
  /\ night_day_time_init
  /\ now_time' = rtc
  /\ alarm' = [alarm EXCEPT !.time = BootTime(@)]
  /\ screen_off_time' = ScreenOn(rtc)
  /\ commanded' = TRUE
  /\ UNCHANGED <<rtc, message_off_time, extension_button_pressed, held, alone, answered, requests, crashes>>

(* One call of loop(): step seconds after the one before, with a command,  *)
(* the two buttons and the extension button as given.                      *)
Loop(step, cmd, right, left, ext) ==
  LET count  == IF ext THEN extension_button_pressed + 1 ELSE 0
      cancel == left \/ count = CancelAt
      reset  == right \/ count = ResetAt
      t0     == rtc + step
      a1     == IF t0 % MinuteLen # now_time % MinuteLen THEN AlarmUpdate(alarm, t0) ELSE alarm
      t      == TimeAfterMail(t0, cmd)
      a2     == AfterMail(a1, cmd)
      a3     == IF reset THEN Button(a2, AlarmSet(a2, ResetTime(a2.time)), t) ELSE a2
      shown  == Displays(cmd, t) \/ reset \/ cancel
  IN /\ nightPc = "idle"
     /\ t0 <= MaxTime /\ t <= MaxTime
     /\ IF cmd.kind = "N" THEN \E night, day \in NightTimes : night_day_time_set(night, day)
                          ELSE UNCHANGED nightVars
     /\ rtc' = t
     /\ now_time' = t
     /\ alarm' = IF cancel THEN Button(a3, AlarmUnset(a3), t) ELSE a3
     /\ Display(shown, ext, t)
     /\ extension_button_pressed' = CountAfter(count)
     /\ held' = IF ext THEN held + 1 ELSE 0
     /\ alone' = (ext /\ (held = 0 \/ alone) /\ ~left /\ ~right /\ cmd.kind \notin {"a", "A", "T"})
     /\ commanded' = (cmd.kind \in {"a", "A", "T"} \/ (commanded /\ step = 0))
     /\ answered' = (shown \/ (answered /\ step = 0))
     /\ UNCHANGED crashes

Round ==
  \E step \in {0, 1}, cmd \in Commands, right, left, ext \in BOOLEAN :
    /\ requests' = requests + (IF cmd.kind = "none" THEN 0 ELSE 1)
                     + (IF right THEN 1 ELSE 0) + (IF left THEN 1 ELSE 0)
    /\ requests' <= MaxRequests
    /\ held < 2 * ResetAt
    /\ Loop(step, cmd, right, left, ext)

SaveByteOfNight ==
  /\ SaveNightRest
  /\ UNCHANGED <<clockVars, requests, crashes>>

PowerFail ==
  /\ crashes < MaxCrashes
  /\ crashes' = crashes + 1
  /\ NightPowerFail
  /\ rtc' \in rtc .. MaxTime
  /\ alarm' = [alarm EXCEPT !.active = 0]
  /\ message_off_time' = 0
  /\ extension_button_pressed' = 0
  /\ held' = 0
  /\ answered' = FALSE
  /\ alone' = FALSE
  /\ UNCHANGED <<now_time, screen_off_time, commanded, requests>>

Next == Setup \/ Round \/ SaveByteOfNight \/ PowerFail

Spec == Init /\ [][Next]_vars

-----------------------------------------------------------------------------
(* Properties *)

Running == nightPc # "off"

(* cpeclock.ino:469 computes alarm_active once a second, the buttons do it *)
(* at once, and a command by radio not at all: the alarm sounds and flashes *)
(* when and only when it should, except in the second of such a command,   *)
(* and in that of a boot, where setup starts it with false.                *)
AlarmActiveIsCurrent ==
  Running /\ ~commanded =>
    alarm.active = IF alarm.state = ALARM_ACTIVE
                     THEN InActiveRegion(alarm.time, MinuteOf(now_time)) ELSE 0

(* cpeclock.ino:486-507: holding the extension button cancels the alarm,   *)
(* then sets it again, and so on for as long as it is held; what sounds    *)
(* stops at once, or by the end of the second in which the radio had       *)
(* cancelled the alarm already (alarm_unset then returns 0).               *)
HoldCancelsAndSets ==
  alone /\ held > 0 =>
    /\ held % ResetAt >= CancelAt =>
         alarm.state = ALARM_DISABLED /\ (alarm.active = 0 \/ commanded)
    /\ (held >= ResetAt /\ held % ResetAt < CancelAt) => alarm.state # ALARM_DISABLED

(* The display's times are dates, and clock_set moves the date by up to a  *)
(* day (cpeclock.ino:282-287): the display is still on while the extension *)
(* button is held, the answer to a command is still shown, and neither     *)
(* stays for longer than it should, whatever the time was before.          *)
DisplayTimesHold ==
  Running =>
    /\ screen_off_time - now_time <= DayScreenOn
    /\ message_off_time - now_time <= MessageOn
    /\ (held > 0 \/ answered) => screen_off_time >= now_time
    /\ answered => message_off_time >= now_time
=============================================================================
