CONSTANTS
  b1 = b1
  b2 = b2
  f1 = f1
  f2 = f2
  alice = alice
  Browsers = {b1, b2}
  Logins <- BothLogins
  Jar <- SameJar
  Account <- SameAccount
  IdleAge = 7
  AbsoluteAge = 12
  ReauthAge = 2
  MaxLogins = 2
  MaxNow = 8
SPECIFICATION Spec
INVARIANTS
  TypeOK
  WithinAbsolute
  
  SurvivorsOverlap
  DeletionsFresh
PROPERTIES
  GoneStaysGone
CHECK_DEADLOCK FALSE
