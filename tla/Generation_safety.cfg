SPECIFICATION Spec
CONSTANTS
  Users = {u1}
  Handlers = {h1, h2}
  FreeRequests = 2
  FreeAdvanced = 1
  DayLength = 2
  MaxTime = 3
  Plans <- MCPlans
  MaxArchives = 5
  None = None
SYMMETRY Symmetry
INVARIANTS TypeOK OvershootBounded ArchivedAreCounted
CHECK_DEADLOCK FALSE
