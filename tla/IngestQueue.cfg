CONSTANTS
  Repos = {r1}
  Clients = {c1, c2}
  MaxRetry = 1
  Concurrency = 1
  MaxHead = 3
SPECIFICATION FairSpec
INVARIANTS TypeOK AcceptedCovered ReenqueueConflictCovered
PROPERTIES ImplementsJobSlot AcceptedSettles CallsReturn
