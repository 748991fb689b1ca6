CONSTANTS
  NJobs = 2
  Workers = {w1, w2}
  Stale = {10}
  MaxRuns = 2
  w1 = w1
  w2 = w2
SPECIFICATION GenSpec
SYMMETRY WorkerSymmetry
INVARIANTS ExitZeroMeansExact
PROPERTIES OnlyStaleRemoved
