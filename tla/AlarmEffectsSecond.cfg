SPECIFICATION Spec
CONSTANTS
  Word = 1024
  Second = 8
  MinuteLen = 32
  PhaseLen = 16
  StrobePeriods <- Strobes
  SoundPeriods <- Sounds
  Rounds = {1, 2}
  MaxDrift = 0
  MaxMinutes = 4
  ClockTimes = {}
  LateStarts = FALSE
  MaxAlarms = 2
  MaxClockSets = 0
PROPERTY
  StrobesOncePerPeriod
