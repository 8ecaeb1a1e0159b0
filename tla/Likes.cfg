CONSTANTS
  i1 = i1
  i2 = i2
  alice = alice
  bob = bob
  t1 = t1
  t2 = t2
  t3 = t3
  Items <- MCItems
  Users <- MCUsers
  Tabs <- MCTabs
  Owner <- MCOwner
  MaxEvents = 4
SPECIFICATION FairSpec
INVARIANTS
  LikesMatchLog
  CountToldAlone
  HeaderOwnOrConcurrent
PROPERTY Answered
CHECK_DEADLOCK FALSE
