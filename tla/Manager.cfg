SPECIFICATION FairSpec
CONSTANTS
  r1 = r1
  r2 = r2
  A = A
  k1 = k1
  NoReq = NoReq
  Servers = {A}
  Reqs = {r1, r2}
  Keys = {k1}
  Home <- PairHome
  UseSF = TRUE
  ReadReplicas = TRUE
  MaxClock = 3
INVARIANTS TypeOK OneFlight NoOrphanWaiter
PROPERTIES RequestsComplete GetFailsByCancelOnly
