CONSTANTS
  N = 2
  Own = {1}
  Opened = 2
  PageSize = 1
  MaxToggles = 2
  MaxEdits = 1
  MaxVisits = 2
  MaxErrors = 1
SPECIFICATION Spec
INVARIANTS
  TypeOK
  HeartsExplained
  ListsWhole
CHECK_DEADLOCK FALSE
