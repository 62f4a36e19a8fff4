\* Every request runs to its end and a detected reuse takes effect; the purge comes round
\* while the clock runs past expiry and retention.
SPECIFICATION FairSpec
CONSTANTS
  Users = {u1}
  Requests = {q1, q2}
  Routes = {"signIn", "refresh", "logout", "purge"}
  MaxRows = 3
  MaxTime = 3
  Grace = 0
  RefreshTtl = 2
  Null = Null
PROPERTIES RequestsFinish ReuseBurnsLiveRows PurgeForgetsOnlyExpiredTokens
CHECK_DEADLOCK FALSE
