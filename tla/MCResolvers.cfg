CONSTANTS
  r1 = r1
  r2 = r2
  r3 = r3
  bad = bad
  Requests = {r1, r2, r3, bad}
  Invalid = {bad}
  QueueCap = 2
  MaxBatch = 3
  MaxRefused = 2
  MaxFinishes = 1
SPECIFICATION AllSpec
INVARIANTS AnswersTheQuestion
PROPERTIES EveryFinishEnds InvalidReported PromiseKept
