SPECIFICATION Spec
CONSTANTS
  Pulse = 8
  SymbolSize = 2
  DataSize = 3
  MaxSkip = 1
  HeSize = 3
  Word = 1024
  Codes <- FewCodes
  HeCodes <- FewHeCodes
  Attempts = 2
  Gaps = {77, 99, 500}
  Jitter = 1
  NoiseTimes <- EveryFourth
  MaxSent = 2
  MaxFaults = 2
INVARIANTS
  TypeOK
  WholeIsDecoded
PROPERTIES
  LossesShiftTheWhole
  HomeEasyExact
CHECK_DEADLOCK FALSE
