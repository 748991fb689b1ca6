CONSTANTS
  Bars = {1, 2}
  Callers = {"main", "signal"}
  PipeCap = 1
  MaxLines = 2
  Signals = TRUE
SPECIFICATION FairBuildSpec
INVARIANTS BuildTypeOK QuietAfterStop NothingLost ChildNotForgotten
PROPERTIES RunReturns UndisturbedStopReturns
CHECK_DEADLOCK FALSE
