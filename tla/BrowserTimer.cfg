CONSTANTS
  r1 = r1
  i1 = i1
  i2 = i2
  t1 = t1
  t2 = t2
  u1 = u1
  q1 = q1
  s1 = s1
  Retros <- OneRetro
  Items <- OneItem
  ActionItems = {}
  Home <- OneHome
  Texts = {t1}
  Editors = {}
  Archivers = {}
  Submitted = {1}
  MaxDuration = 1
  Extension = 1
  MaxNow = 2
  MaxEvents = 6
  AtLoad = {i1}
  Running = {i1}
  Failures = TRUE
  Slots = {s1}
  MaxAttempts = 2
  Buttons = {"highlight", "like"}
SPECIFICATION BrowserSpec
VIEW View
INVARIANTS
  BrowserTypeOK
  
CHECK_DEADLOCK FALSE
