SPECIFICATION Spec
CONSTANTS
  Emails = {e1, e2}
  Codes = {c1, c2, c3}
  Users = {u1, u2}
  Handlers = {h1, h2}
  Minute = 1
  Lifetime = 2
  MaxTime = 3
  None = None
SYMMETRY Symmetry
INVARIANTS OneCodePerMinute
CHECK_DEADLOCK FALSE
