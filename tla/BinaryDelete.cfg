SPECIFICATION BSpec
CONSTANTS
  r1 = r1
  r2 = r2
  A = A
  B = B
  k1 = k1
  Servers = {A, B}
  Reqs = {r1, r2}
  Keys = {k1}
  Home <- SplitHome
  MaxClock = 3
  MaxLate = 1
PROPERTIES GoneAfterDelete
