SPECIFICATION Spec
CONSTANTS
  Logs <- MCLogs
  Nexts <- MCNexts
  Limits <- MCLimits
  MaxBytes = 7
CHECK_DEADLOCK FALSE
INVARIANT HeadIsPrefix TailIsSuffix CompleteIfNoTail SplitConserves RangeHasItsLines
PROPERTIES LoadEnds
