SPECIFICATION FairSpec
CONSTANTS
  Handlers = {h1}
  Host = host
  Nodes = {n1}
  NoNode = nonode
  None = none
  MaxSuites = 2
  MaxTests = 1
  CrossSuite = TRUE
  ShareBack = TRUE
  ClientFaults = FALSE
  DiskFaults = TRUE
CHECK_DEADLOCK FALSE
PROPERTIES
  LedgerImplemented
  TerminateReturns
  RequestsAnswered
