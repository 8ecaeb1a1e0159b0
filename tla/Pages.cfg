CONSTANTS
  i1 = i1
  i2 = i2
  i3 = i3
  a1 = a1
  a2 = a2
  Cards = {i1, i2, i3}
  Columns <- TwoColumns
  Column <- TwoAndOne
  Users = {a1, a2}
  Me = a1
  Names <- ThreeNames
  MaxArchives = 1
SYMMETRY CardSymmetry
SPECIFICATION Spec
INVARIANTS
  PageBetween
  ModalRight
  InitialsApart
CHECK_DEADLOCK FALSE
