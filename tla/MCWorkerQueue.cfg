CONSTANTS
  w1 = w1
  w2 = w2
  NJobs = 3
  Workers = {w1, w2}
SPECIFICATION FairSpec
INVARIANTS ErrorsOnce NoSendAfterClose ReturnsEverything StartBeforeFinish
PROPERTIES Termination PoolSpec
