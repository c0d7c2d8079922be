SPECIFICATION Spec
CONSTANTS
  r1 = r1
  r2 = r2
  k1 = k1
  NoReq = NoReq
  Reqs = {r1, r2}
  Keys = {k1}
  UseSF = TRUE
  Latencies = {3, 4}
  MaxBatch = 2
  MaxReqs = 2
SYMMETRY Alike
INVARIANTS TypeOK TiersBalance RequestsBalance CoalescedBounds HitsWithinRequests AverageCovers
