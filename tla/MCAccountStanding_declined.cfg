\* Expected to fail: one call at a time.  A ban is declined while its target
\* waits out a deletion request, and cancelling that suspends them for good.
SPECIFICATION Spec
CONSTANTS
  Calls = {c1}
  Moderators = {m1, m2}
  Deletions = {1}
  Holds = {1}
  DeletionGrace = 2
  WarningLead = 1
  HoldWindow = 1
  Suspension = 2
  MaxTime = 2
  PastOvertaking = TRUE
  Null = Null
SYMMETRY Symmetry
INVARIANT NoBanWithoutASecondModerator
CHECK_DEADLOCK FALSE
