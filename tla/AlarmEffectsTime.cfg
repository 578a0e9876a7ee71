SPECIFICATION Spec
CONSTANTS
  Word = 200
  Second = 16
  MinuteLen = 32
  PhaseLen = 16
  StrobePeriods <- Strobes
  SoundPeriods <- Sounds
  Rounds = {1, 2}
  MaxDrift = 2
  MaxMinutes = 3
  ClockTimes = {27}
  LateStarts = TRUE
  MaxAlarms = 1
  MaxClockSets = 1
INVARIANT
  OffsetFollowsMinute
PROPERTIES
  RunningTimeFollowsClock
  TriggersWrapOnlyBack
  FirstAlarmStrobes
