SPECIFICATION Spec
CONSTANTS
  SymSize = 5
  GFPoly <- GF32
  FCR = 1
  Prim = 1
  NRoots = 10
  MaxShiftDistance = 3
  Messages <- TwoMessages
  Faults <- NoiseAndMoves
INVARIANTS
  LocatorGeneratesSyndromes
  AcceptedIsCodeword
  RecoversWithinCapacity
CHECK_DEADLOCK FALSE
