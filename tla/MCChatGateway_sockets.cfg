\* Two devices of a member on two connections, signed out and renewed, while lockdowns come
\* and go.
SPECIFICATION Spec
CONSTANTS
  u1 = u1
  f1 = f1
  f2 = f2
  Users = {u1}
  Staff = {}
  Followed = {}
  Sessions = {f1, f2}
  Owner <- OneMember
  Sockets = {s1, s2}
  Checks = {a1}
  AccessTTL = 1
  PresenceGrace = 1
  CacheTTL = 1
  MayLock = TRUE
  MaySuspend = FALSE
  MaxNews = 0
  Null = Null
SYMMETRY DeviceSymmetry
INVARIANTS GatewayTypeOK PresenceIsTrue OneTimerForItsToken EndsReachEverySocket
CHECK_DEADLOCK FALSE
