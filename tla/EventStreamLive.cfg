CONSTANTS
  r1 = r1
  r2 = r2
  c1 = c1
  w1 = w1
  w2 = w2
  Retros <- MCRetros
  Clients <- MCClients
  Board <- MCBoard
  Writers <- MCWriters
  MaxEvents = 2
SPECIFICATION FairSpec
PROPERTIES
  EventuallySettled
  LiveDelivery
