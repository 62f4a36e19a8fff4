\* The member, moderators and the sweeps, two calls in flight at a time.
SPECIFICATION Spec
CONSTANTS
  Calls = {c1, c2}
  Moderators = {m1, m2}
  Deletions = {1, 2}
  Holds = {1, 2}
  DeletionGrace = 1
  WarningLead = 1
  HoldWindow = 1
  Suspension = 1
  MaxTime = 1
  PastOvertaking = FALSE
  Null = Null
SYMMETRY Symmetry
INVARIANTS StandingTypeOK SanctionSurvivesLeaving BansAreRatified HiddenWhileLeaving OneOpenOfEach
PROPERTIES HoldsAreSettledOnce OnlyAStandingRequestErases
CHECK_DEADLOCK FALSE
