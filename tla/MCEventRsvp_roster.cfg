\* Three members compete for the seats of a small room, two requests at once.
SPECIFICATION Spec
CONSTANTS
  Members = {h, m1, m2, m3}
  Host = h
  Cohosts = {}
  Capacities = {3}
  MaxGuests = 1
  MaxPos = 4
  Requests = {q1, q2}
  Routes = {"rsvp", "cancel", "remove", "promote", "raise", "lower", "checkIn"}
  Null = Null
SYMMETRY Symmetry
INVARIANTS RosterTypeOK WaitlistIsAQueue
PROPERTIES WaitlistKeepsOrder NoOverbooking
CHECK_DEADLOCK FALSE
