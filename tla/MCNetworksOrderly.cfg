SPECIFICATION FairSpec
CONSTANTS
  Handlers = {h1, h2}
  Host = host
  None = none
  Suites = {s1}
  Names = {a, b}
  Containers = {c}
  MaxNetworks = 2
  Overlap = FALSE
  Duplicates = FALSE
  Faulty = FALSE
INVARIANTS
  EndedSuiteHasNoNetwork
PROPERTIES
  RequestsAnswered
