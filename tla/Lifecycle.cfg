CONSTANTS
  Hooks = {h1}
  Cli = Cli
  OIDC = {"okta"}
  MaxRetry = 1
  MaxStarts = 3
SPECIFICATION FairSpec
INVARIANTS TypeOK ReleasedAtExit ServingIsReady OrderlyShutdownLosesNothing
PROPERTIES SignalEnds AcceptedJobsEnd
CHECK_DEADLOCK FALSE
