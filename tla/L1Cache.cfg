SPECIFICATION Spec
CONSTANTS
  a = a
  b = b
  p1 = p1
  p2 = p2
  u = u
  v = v
  None = None
  Keys = {a, b}
  Values = {u, v}
  Procs = {p1, p2}
  NumShards = 2
  MinPerShard = 1
  MaxSize = 1
  TTL = 0
  ShardOf <- Collide
  MaxTime = 1
  MaxSlots = 5
SYMMETRY Alike
INVARIANTS TypeOK SizeBound SlotsAhead
PROPERTIES ImplementsLossyMap
