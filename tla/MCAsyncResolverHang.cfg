CONSTANTS
  r1 = r1
  r2 = r2
  r3 = r3
  bad = bad
  Requests = {r1, r2, bad}
  Invalid = {bad}
  QueueCap = 2
  MaxBatch = 3
  MaxRefused = 3
SPECIFICATION FairSpec
PROPERTIES InvalidReported
CHECK_DEADLOCK FALSE
