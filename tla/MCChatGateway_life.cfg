\* Time passes and due timers run; the status sweep comes round while the member is made
\* inactive and active again; broadcasts are in flight.
SPECIFICATION SweptSpec
CONSTANTS
  u1 = u1
  f1 = f1
  f2 = f2
  Users = {u1}
  Staff = {}
  Followed = {u1}
  Sessions = {f1}
  Owner <- Single
  Sockets = {s1}
  Checks = {a1}
  AccessTTL = 2
  PresenceGrace = 1
  CacheTTL = 1
  MayLock = FALSE
  MaySuspend = TRUE
  MaxNews = 0
  Null = Null
INVARIANT PresenceIsReported
PROPERTIES SocketsEndWithTheirSession InactiveGoDark
CHECK_DEADLOCK FALSE
