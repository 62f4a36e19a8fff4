\* An old process writes out its chain beside the new one; a batch is lost; the host goes away.
SPECIFICATION SweepSpec
CONSTANTS
  p1 = p1
  Players = {p1}
  Rounds <- Detector
  ReviewOn = TRUE
  ReadTime = 0
  AnswerTime = 0
  ExtraTime = 0
  Grace = 0
  None = None
  ExtraTimers = {}
  MaxQueue = 1
  MaxTime = 0
  MaxLate = 0
  MaxRestarts = 0
  MaxDeploys = 1
  MaxFailures = 1
  MaxAdds = 0
  MaxAways = 1
  MaxRemovals = 0
  MaxTaps = 1
PROPERTIES EndedIsFinal IdleSessionEnds
CHECK_DEADLOCK FALSE
