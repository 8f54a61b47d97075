CONSTANTS
  Repos = {r1, r2}
  Installs = {i1, i2}
  Handlers = {h1, h2}
  None = None
  MaxRetry = 0
  MaxHead = 3
  MaxSent = 3
  MaxAgain = 0
  MaxId = 3
SPECIFICATION Spec
SYMMETRY Symmetry
INVARIANTS TypeOK FreshOrExcused UninstalledIsGone SearchMatchesRow
PROPERTIES RowsNeverGoBack SearchNeverGoesBack
CHECK_DEADLOCK FALSE
