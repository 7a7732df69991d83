CONSTANTS
  u1 = u1
  u2 = u2
  t1 = t1
  t2 = t2
  Users = {u1, u2}
  Keyed = {u1, u2}
  Texts = {t1, t2}
  Author <- TwoAuthors
  Requests = {r1, r2}
  MaxNow = 2
  MaxDay = 0
SPECIFICATION FairSpec
PROPERTY EverySendEnds
CHECK_DEADLOCK FALSE
