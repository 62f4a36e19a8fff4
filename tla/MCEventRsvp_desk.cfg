\* The organisers edit, bar, lift, check in and cancel while members RSVP.
SPECIFICATION Spec
CONSTANTS
  Members = {h, c, m1}
  Host = h
  Cohosts = {c}
  Capacities = {1, 2, Null}
  MaxGuests = 1
  MaxPos = 2
  Requests = {q1, q2}
  Routes = {"rsvp", "cancel", "bar", "lift", "checkIn", "update", "cancelEvent", "passTime"}
  Null = Null
SYMMETRY Symmetry
INVARIANTS HostHoldsSeat
PROPERTIES NoOverbooking BarredStaysOff
CHECK_DEADLOCK FALSE
