SPECIFICATION Spec
CONSTANTS
  a = a
  a1 = a1
  b = b
  None = none
  NumSuites = 2
  NumSims = 2
  TimeLimit = TRUE
  Crashes = TRUE
  Faulty = TRUE
  Tests <- ThreeTests
  SuiteOf <- SuitesOfThree
  Parent <- ParentsOfThree
INVARIANTS
  FailureReported
  SummaryCountsRun
  SuiteEndAccepted
