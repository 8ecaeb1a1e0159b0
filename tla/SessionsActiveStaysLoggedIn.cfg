CONSTANTS
  b1 = b1
  b2 = b2
  f1 = f1
  f2 = f2
  alice = alice
  Browsers = {b1, b2}
  Logins <- BothLogins
  Jar <- SameJar
  Account <- SameAccount
  IdleAge = 4
  AbsoluteAge = 6
  ReauthAge = 2
  MaxLogins = 2
  MaxNow = 8
SPECIFICATION Spec
INVARIANTS
  ActiveStaysLoggedIn
CHECK_DEADLOCK FALSE
