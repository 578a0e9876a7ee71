SPECIFICATION FairSpec
CONSTANTS
  HourLen = 2
  WholeDay = 8
  SoundsFor = 3
  ByteSize = 5
  Inputs <- ValidInputs
  StartNvrams <- AnyNvrams
  MaxRequests = 3
  MaxCrashes = 2
INVARIANTS
  TypeOK
  RegionIsWindow
  ResetMovesOverflowOnly
  NvramMatchesRam
PROPERTIES
  ImplementsOneShot
  AlarmSoundsAndStops
