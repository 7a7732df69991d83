CONSTANTS
  i1 = i1
  i2 = i2
  Items = {i1, i2}
  MaxMade = 2
  MaxPosts <- SomePosts
  MaxDay = 1
SPECIFICATION OutboxFairSpec
INVARIANTS
  OutboxTypeOK
  StatusHonest
  DuplicatesWereRefused
PROPERTY SendingEnds
CHECK_DEADLOCK FALSE
