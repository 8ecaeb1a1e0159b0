CONSTANTS
  r1 = r1
  i1 = i1
  i2 = i2
  t1 = t1
  t2 = t2
  u1 = u1
  q1 = q1
  s1 = s1
  Retros <- OneRetro
  Items <- TwoItems
  ActionItems = {}
  Home <- TwoHomes
  Texts = {t1, t2}
  Editors = {u1}
  Archivers = {q1}
  Submitted = {}
  MaxDuration = 1
  Extension = 1
  MaxNow = 1
  MaxEvents = 3
  AtLoad = {i1}
  Running = {}
  Failures = TRUE
  Slots = {s1}
  MaxAttempts = 1
  Buttons = {"complete", "like", "edit", "show", "update", "add"}
SPECIFICATION BrowserSpec
VIEW View
SYMMETRY TextSymmetry
INVARIANTS
  NoDuplicateCards
  
  ArchivedCardsLeave
CHECK_DEADLOCK FALSE
