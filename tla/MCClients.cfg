SPECIFICATION Spec
CONSTANTS
  Handlers = {h1, h2}
  Host = host
  Nodes = {n1}
  NoNode = nonode
  None = none
  MaxSuites = 1
  MaxTests = 2
  CrossSuite = FALSE
  ShareBack = FALSE
  ClientFaults = TRUE
  DiskFaults = TRUE
SYMMETRY Symmetry
CHECK_DEADLOCK FALSE
INVARIANTS
  EndedTestOwnsNothing
  SingleOwner
  RunningClientOwned
  VersionKnown
  OnlyInversionDeadlocks
PROPERTIES
  FirstVerdictStands
