SPECIFICATION BSpec
CONSTANTS
  r1 = r1
  r2 = r2
  A = A
  B = B
  k1 = k1
  Servers = {A}
  Reqs = {r1, r2}
  Keys = {k1}
  Home <- PairHome
  MaxClock = 3
  MaxLate = 1
INVARIANTS TypeOK OnlyStored NeverGoesBack 
