SPECIFICATION FairSpec
CONSTANTS
  SendInterval = 3
  AirTimes = {1, 4}
  RepeaterDelays = {0}
  Jumps <- ForthAndBack
  LongAgo <- FarEnough
  MaxMessages = 6
  MaxFailures = 2
INVARIANTS
  InOrder
  RelayedOnce
  OneTimer
  WaitsNoLongerThanNeeded
PROPERTY
  AllSentAndRelayed
