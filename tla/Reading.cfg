CONSTANTS
  Queries = {conversation, badge}
  Timed = {badge}
  Opened = conversation
  MaxSent = 2
  MaxMarks = 2
  NoData = NoData
SPECIFICATION ReadingSpec
INVARIANTS
  ReadingTypeOK
  CountersAgree
  LookingReads
CONSTRAINT Bounds
CHECK_DEADLOCK FALSE
