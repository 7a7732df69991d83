CONSTANTS
  u1 = u1
  u2 = u2
  l1 = l1
  Users = {u1, u2}
  Listings = {l1}
  Owner <- OneOwner
  Ids = {i1, i2}
  Requests = {r1, r2}
  MaxPerDay = 1
  Retention = 0
  MaxDay = 1
  None = None
SPECIFICATION Spec
SYMMETRY Symmetry
INVARIANTS
  TypeOK
  ReportsStand
  AdminsSpared
  RemovedWithdrawn
CONSTRAINT Bounds
CHECK_DEADLOCK FALSE
