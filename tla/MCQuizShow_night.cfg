\* A quiz round and a caption round, with one crash.
SPECIFICATION Spec
CONSTANTS
  Players = {p1, p2}
  Rounds <- OneOfEach
  ReviewOn = FALSE
  ReadTime = 0
  AnswerTime = 0
  ExtraTime = 0
  Grace = 0
  None = None
  ExtraTimers = {}
  MaxQueue = 1
  MaxTime = 0
  MaxLate = 0
  MaxRestarts = 1
  MaxDeploys = 0
  MaxFailures = 0
  MaxAdds = 0
  MaxAways = 0
  MaxRemovals = 1
  MaxTaps = 0
SYMMETRY Symmetry
PROPERTY ImplementsNight
INVARIANTS QuizTypeOK ScoresAddUp StoredMatchesMemory ReloadLosesNothing
CHECK_DEADLOCK FALSE
