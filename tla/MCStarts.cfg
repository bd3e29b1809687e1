SPECIFICATION Spec
CONSTANTS
  Starts = {p1, p2}
  Closing = FALSE
  RunFaults = FALSE
  DeleteFaults = TRUE
SYMMETRY Symmetry
INVARIANTS
  OnlineWasReached
  CancelReachesOwnProbe
  RunningIsLogged
