SPECIFICATION FairSpec
CONSTANTS
  Users = {u1}
  Jti = {j1, j2}
  Handlers = {h1, h2}
  None = None
PROPERTIES ImplementsLifecycle RequestsEnd
CHECK_DEADLOCK FALSE
