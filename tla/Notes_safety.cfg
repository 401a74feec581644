SPECIFICATION Spec
CONSTANTS
  Users = {u1, u2}
  NoteIds = {n1, n2}
  Handlers = {h1, h2, h3}
  MaxFlips = 3
  None = None
SYMMETRY Symmetry
INVARIANTS TypeOK TogglesCount
PROPERTIES ImplementsOwnedRows
CHECK_DEADLOCK FALSE
