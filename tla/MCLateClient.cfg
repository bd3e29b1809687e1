SPECIFICATION Spec
CONSTANTS
  Handlers = {h1, h2}
  Host = host
  Nodes = {n1}
  NoNode = nonode
  None = none
  MaxSuites = 1
  MaxTests = 1
  CrossSuite = FALSE
  ShareBack = FALSE
  ClientFaults = FALSE
  DiskFaults = FALSE
INVARIANT StartedClientRegistered
