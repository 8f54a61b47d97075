CONSTANTS
  Repos = {r1}
  Installs = {i1}
  Handlers = {h1, h2}
  None = None
  MaxRetry = 1
  MaxHead = 3
  MaxSent = 3
  MaxAgain = 1
  MaxId = 3
SPECIFICATION FairSpec
INVARIANT RoutedOnce
PROPERTY Converges
CHECK_DEADLOCK FALSE
