CONSTANTS
  r1 = r1
  r2 = r2
  i1 = i1
  i2 = i2
  i3 = i3
  a1 = a1
  t1 = t1
  t2 = t2
  u1 = u1
  u2 = u2
  q1 = q1
  q2 = q2
  Retros <- TimerRetros
  Items <- TimerItems
  ActionItems = {}
  Home <- TimerHome
  Texts <- BothTexts
  Editors = {u1}
  Archivers = {q1}
  Submitted = {0}
  MaxDuration = 2
  Extension = 1
  MaxNow = 4
  MaxEvents = 6
SPECIFICATION FairSpec
INVARIANTS
  TimerOfHighlight
  ElapsedWasDue
  LogTellsBoard
  HeaderIsOwnEvent
PROPERTY DueTimerElapses
