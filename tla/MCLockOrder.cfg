SPECIFICATION FairSpec
CONSTANTS
  Handlers = {h1}
  Host = host
  None = none
  Suites = {s1}
  Names = {a}
  Containers = {c}
  MaxNetworks = 1
  Overlap = TRUE
  Duplicates = FALSE
  Faulty = FALSE
PROPERTIES
  TerminateReturns
CHECK_DEADLOCK FALSE
