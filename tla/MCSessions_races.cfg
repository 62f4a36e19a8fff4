\* Every route that clients drive and the erasure, two of them in flight at a time; the clock
\* runs just past the grace window, so a replay is inside it or outside it.
SPECIFICATION Spec
CONSTANTS
  Users = {u1, u2}
  Requests = {q1, q2}
  Routes = {"signIn", "signInOver", "refresh", "logout", "revokeAll", "revokeSession", "revokeOthers", "erase", "fail"}
  MaxRows = 3
  MaxTime = 2
  Grace = 1
  RefreshTtl = 3
  Null = Null
SYMMETRY Symmetry
INVARIANTS TypeOK RotationLineage OneFamilyOneOwner
PROPERTIES RevocationIsPermanent ClosedStaysClosed ImplementsLedger
CHECK_DEADLOCK FALSE
