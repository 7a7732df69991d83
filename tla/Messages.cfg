CONSTANTS
  u1 = u1
  u2 = u2
  t1 = t1
  t2 = t2
  Users = {u1, u2}
  Keyed = {u1, u2}
  Texts = {t1}
  Author <- OneAuthor
  Requests = {r1, r2}
  MaxNow = 3
  MaxDay = 1
SPECIFICATION Spec
SYMMETRY Sends
INVARIANTS
  TypeOK
  EveryoneCanRead
  ClosedSendsRefused
  ReadStaysRead
PROPERTIES
  LogKept
CHECK_DEADLOCK FALSE
