CONSTANTS
  Bars = {1, 2}
  Callers = {"main", "signal"}
  PipeCap = 1
  MaxLines = 2
  Signals = TRUE
SPECIFICATION FairBuildSpec
PROPERTIES EveryStopReturns
CHECK_DEADLOCK FALSE
