CONSTANTS
  MaxRows = 3
  MaxPhotos = 1
  MaxTexts = 2
  MaxMoves = 4
  MaxPicks = 2
  MaxErrors = 1
SPECIFICATION Spec
INVARIANTS
  TypeOK
  OneDraft
PROPERTIES
  TextKept
CHECK_DEADLOCK FALSE
