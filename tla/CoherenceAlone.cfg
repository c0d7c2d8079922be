SPECIFICATION CSpec
CONSTANTS
  r1 = r1
  r2 = r2
  A = A
  B = B
  k1 = k1
  NoReq = NoReq
  Servers = {A, B}
  Reqs = {r1, r2}
  Keys = {k1}
  Home <- SplitHome
  UseSF = FALSE
  ReadReplicas = FALSE
  MaxClock = 3
INVARIANTS IsolatedWritesStick
