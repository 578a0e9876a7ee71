SPECIFICATION Spec
CONSTANTS
  SendInterval = 3
  AirTimes = {1, 4}
  RepeaterDelays = {0}
  Jumps = {}
  LongAgo = 0
  MaxMessages = 3
  MaxFailures = 1
INVARIANT
  MoreToSendIsScheduled
