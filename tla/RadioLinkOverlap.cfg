SPECIFICATION Spec
CONSTANTS
  Low = 2
  Commands = {m1, m2}
  NoMac = NoMac
  NoPacket = NoPacket
  Senders = {s1, s2}
  Resync = Resync
  AdvResync = AdvResync
  StartCounters = {0}
  MaxCounter = 2
  Garbage = Garbage
  FreshNvram = TRUE
  GarbageCounters = {0, 4}
  MaxCrashes = 1
SYMMETRY Symmetry
INVARIANTS
  IInv
  DurableAhead
  WindowAcceptance
PROPERTY
  ImplementsChannel
