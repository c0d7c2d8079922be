SPECIFICATION Spec
CONSTANTS
  r1 = r1
  r2 = r2
  Reqs = {r1, r2}
  Envs <- OneAddress
  Latencies = {4}
  MaxBatch = 2
CHECK_DEADLOCK FALSE
INVARIANTS DegradedModeRuns
