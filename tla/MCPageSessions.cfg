SPECIFICATION Spec
CONSTANTS
  mine = mine
  other = other
  a = a
  b = b
  ann = ann
  bea = bea
  Phones = {mine}
  Others = {other}
  Accounts = {ann, bea}
  Fetches = {a, b}
  MaxSessions = 3
  Capacity = 1
  Resend = 1
  Keep = 3
  Budget = 6
  HourCosts = 2
  EventCosts = 3
CHECK_DEADLOCK FALSE
SYMMETRY Alike
INVARIANTS TypeOK OwnPages NamedInTime
