SPECIFICATION Spec
CONSTANTS
  Users = {u1, u2}
  MaxRows = 3
  Handlers = {h1, h2}
  retentionDays <- MCretentionDays
  maxCount <- MCmaxCount
  MaxDay = 1
  None = None
SYMMETRY Symmetry
INVARIANTS TypeOK OldestGoFirst CleanupComplete ExcessAsCounted
PROPERTIES ImplementsOwnedRows
CHECK_DEADLOCK FALSE
