SPECIFICATION Spec
CONSTANTS
  HourLen = 2
  WholeDay = 4
  ByteSize = 5
  SoundsFor = 2
  NightTimes <- SomeNightTimes
  StartNightNvrams <- SomeNightNvrams
  MinuteLen = 2
  DayScreenOn = 3
  NightScreenOn = 1
  MessageOn = 1
  CancelAt = 2
  ResetAt = 3
  AlarmTimes = {2}
  ClockTimes = {5}
  MaxTime = 12
  MaxRequests = 2
  MaxCrashes = 1
INVARIANTS
  NightIsInterval
  RebootKeepsNight
  AlarmActiveIsCurrent
  HoldCancelsAndSets
  DisplayTimesHold
CHECK_DEADLOCK FALSE
