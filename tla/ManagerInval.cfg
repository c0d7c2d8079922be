SPECIFICATION WSpec
CONSTANTS
  r1 = r1
  r2 = r2
  A = A
  NoReq = NoReq
  k1 = k1
  Servers = {A}
  Reqs = {r1, r2}
  Keys = {k1}
  Home <- PairHome
  UseSF = TRUE
  ReadReplicas = FALSE
  MaxClock = 3
PROPERTIES InvalidateRemovesBoth
