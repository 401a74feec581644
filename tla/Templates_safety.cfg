SPECIFICATION Spec
CONSTANTS
  Users = {u1, u2}
  TemplateIds = {t1, t2, t3}
  Archives = {a1}
  Handlers = {h1, h2}
  FreeCount = 1
  MaxCredit = 1
  None = None
SYMMETRY Symmetry
INVARIANTS TypeOK OverdraftBounded FreeBounded OneTemplatePerArchive LedgerCoversPaid
PROPERTIES ImplementsOwnedRows
CHECK_DEADLOCK FALSE
