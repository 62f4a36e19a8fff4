\* Timers, late timers, pauses, added and extra time on one question.
SPECIFICATION ClockSpec
CONSTANTS
  p1 = p1
  p2 = p2
  Players = {p1, p2}
  Rounds <- Question
  ReviewOn = TRUE
  ReadTime = 1
  AnswerTime = 1
  ExtraTime = 3
  Grace = 1
  None = None
  ExtraTimers = {p2}
  MaxQueue = 1
  MaxTime = 2
  MaxLate = 1
  MaxRestarts = 0
  MaxDeploys = 0
  MaxFailures = 0
  MaxAdds = 1
  MaxAways = 0
  MaxRemovals = 1
  MaxTaps = 0
PROPERTIES NobodyCutShort QuestionCloses
CHECK_DEADLOCK FALSE
