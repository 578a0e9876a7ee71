SPECIFICATION Spec
CONSTANTS
  Low = 2
  Commands = {m1}
  NoMac = NoMac
  NoPacket = NoPacket
  Senders = {s1}
  Resync = Resync
  AdvResync = AdvResync
  StartCounters = {0, 3}
  MaxCounter = 5
  Garbage = Garbage
  FreshNvram = FALSE
  GarbageCounters = {0, 5}
  MaxCrashes = 1
INVARIANTS
  ValidSlotWhole
  RebroadcastRejectSound
  SelfTestPasses
  NoCounterReuse
  ResyncHeals
PROPERTIES
  DurableAdvances
