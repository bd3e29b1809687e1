SPECIFICATION Spec
CONSTANTS
  Handlers = {h1, h2}
  Host = host
  None = none
  Suites = {s1}
  Names = {a, b}
  Containers = {c}
  MaxNetworks = 3
  Overlap = TRUE
  Duplicates = FALSE
  Faulty = TRUE
SYMMETRY Symmetry
INVARIANTS
  RecordedNetworkExists
  SuiteNetworksRecorded
  CallTargetExists
  OnlyInversionDeadlocks
CHECK_DEADLOCK FALSE
