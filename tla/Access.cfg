CONSTANTS
  o1 = o1
  o2 = o2
  n1 = n1
  n2 = n2
  r1 = r1
  Names = {n1, n2}
  Configs <- TwoOrOneTwice
  PageSize = 1
  Slugs = {r1}
  MaxTeams = 2
SPECIFICATION FairSpec
INVARIANTS
  ListedOpens
  TeamsFound
  ErrorsHaveNoTeams
PROPERTY LoginComesToEnd
