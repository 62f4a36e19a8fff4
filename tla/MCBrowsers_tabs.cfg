\* Refreshes, sign-outs and sign-ins over a session from the tabs of two browsers together.
SPECIFICATION BrowsersSpec
CONSTANTS
  b1 = b1
  b2 = b2
  u1 = u1
  Users = {u1}
  Requests = {q1, q2}
  Browser <- Jars
  OwnerOf <- Owner
  Routes = {"signIn", "signInOver", "refresh", "logout", "revokeOthers", "fail"}
  MaxRows = 3
  MaxTime = 3
  Grace = 1
  RefreshTtl = 3
  Null = Null
SYMMETRY Symmetry
INVARIANT TabsNeverLookLikeTheft
CHECK_DEADLOCK FALSE
