SPECIFICATION Spec
CONSTANTS
  Low = 2
  Commands = {m1}
  NoMac = NoMac
  NoPacket = NoPacket
  Senders = {s1}
  Resync = Resync
  AdvResync = AdvResync
  StartCounters = {0}
  MaxCounter = 4
  Garbage = Garbage
  FreshNvram = TRUE
  GarbageCounters = {0, 3}
  MaxCrashes = 1
INVARIANT
  ValidSlotWhole
