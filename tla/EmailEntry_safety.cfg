SPECIFICATION Spec
CONSTANTS
  Ips = {i1}
  MaxRequests = 2
  Window = 2
  MaxTime = 3
  MaxRestarts = 1
  Users = {u1}
  Handlers = {h1, h2}
  Patterns = {1, 2}
  Positions = {0, 1}
  MaxRefusals = 1
  Bodies <- MCBodies
  None = None
SYMMETRY Symmetry
INVARIANTS TypeOK BelowTwiceLimit RestartsAddOneLimit VerdictsAreExact MissesFollowRefusals
CHECK_DEADLOCK FALSE
