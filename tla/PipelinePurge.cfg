CONSTANTS
  Repos = {r1}
  Installs = {i1, i2}
  Handlers = {h1, h2}
  None = None
  MaxRetry = 0
  MaxHead = 2
  MaxSent = 3
  MaxAgain = 0
  MaxId = 2
SPECIFICATION Spec
SYMMETRY Symmetry
INVARIANT PurgeSparesServedRows
CHECK_DEADLOCK FALSE
