CONSTANTS
  Photos = {p1, p2}
  MaxImages = 1
  Requests = {r1, r2}
  None = None
SPECIFICATION Spec
SYMMETRY Symmetry
INVARIANTS
  TypeOK
  ListedPhotosStored
  WithinLimit
  StraysExplained
CHECK_DEADLOCK FALSE
