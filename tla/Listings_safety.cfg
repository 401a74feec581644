SPECIFICATION Spec
CONSTANTS
  MaxRows = 3
  Limit = 1
  Predefined = {"formal"}
  Custom = {"own"}
  None = None
INVARIANTS TypeOK PagesMissNothing PagesRepeatNothing TotalFitsPage
CHECK_DEADLOCK FALSE
