CONSTANTS
  a = a
  b = b
  t1 = t1
  t2 = t2
  Nobody = Nobody
  Users <- MCUsers
  Registered <- MCRegistered
  Tabs <- MCTabs
  MaxSessions = 2
  MaxPw = 2
  MaxTasks = 3
  MaxMishaps = 1
SPECIFICATION Spec
SYMMETRY MCSymmetry
INVARIANTS
  TypeOK
  KeysStayHome
  DeviceIsTheirs
  CodesShown
CHECK_DEADLOCK FALSE
