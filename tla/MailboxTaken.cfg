SPECIFICATION FairBoxSpec
CONSTANTS
  DataSize = 3
  MaxCodes = 4
  MaxHeCodes = 3
INVARIANTS
  NoTornCode
  TakenInOrder
PROPERTY
  NewestIsTaken
