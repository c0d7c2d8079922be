SPECIFICATION FairSpec
CONSTANTS
  r1 = r1
  r2 = r2
  Reqs = {r1, r2}
  Envs <- ShortLists
  Latencies = {3, 4}
  MaxBatch = 2
CHECK_DEADLOCK FALSE
INVARIANTS TypeOK AddrsRead DrainedBeforeClose
PROPERTIES ShutdownEnds RequestsAnswered
