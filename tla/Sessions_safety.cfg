SPECIFICATION Spec
CONSTANTS
  Users = {u1, u2}
  Jti = {j1, j2, j3}
  Handlers = {h1, h2}
  None = None
SYMMETRY Symmetry
INVARIANTS TypeOK SuccessorsOverlap LogoutMissesOnlyErrors
CHECK_DEADLOCK FALSE
