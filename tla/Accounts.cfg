CONSTANTS
  Users = {u1}
  BcryptUsers = {u1}
  Passwords = {p1, p2}
  Salts = {k1}
  Legacy = Legacy
  Codes = {c1}
  SessionIds = {s1, s2}
  Requests = {r1, r2}
  None = None
  Deleted = Deleted
SPECIFICATION Spec
SYMMETRY Symmetry
INVARIANTS
  TypeOK
  CredentialsAgree
  RecoveryRestoresKey
  OnlyLateSessionsSurvive
PROPERTY VaultPermanent
CONSTRAINT Bounds
CHECK_DEADLOCK FALSE
