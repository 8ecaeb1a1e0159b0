CONSTANTS
  r1 = r1
  r2 = r2
  i1 = i1
  i2 = i2
  i3 = i3
  a1 = a1
  t1 = t1
  t2 = t2
  u1 = u1
  u2 = u2
  q1 = q1
  q2 = q2
  Retros <- BoardRetros
  Items <- BoardItems
  ActionItems <- BoardActionItems
  Home <- BoardHome
  Texts = {t1}
  Editors = {}
  Archivers = {q1, q2}
  Submitted <- BoardDurations
  MaxDuration = 1
  Extension = 1
  MaxNow = 2
  MaxEvents = 4
SYMMETRY BoardSymmetry
SPECIFICATION Spec
INVARIANTS
  TypeOK
  ArchivedInOwnRetro
  NothingCountedStays
PROPERTY RefinesLifecycle
