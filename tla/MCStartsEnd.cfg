SPECIFICATION FairSpec
CONSTANTS
  Starts = {p1}
  Closing = TRUE
  RunFaults = TRUE
  DeleteFaults = FALSE
INVARIANTS
  RunningIsLogged
  FailedStartCleanedUp
PROPERTIES
  StartReturns
  GoroutinesEnd
