SPECIFICATION Spec
CONSTANTS
  Scan = {"first", "second"}
  Key = {k1, k2}
  None = none
  Before <- InTurn
  Results = {"passed", "error", "skipped"}
  Formats = {"text", "json"}
  MaxLost = 2
INVARIANTS
  SpanTree
  EveryResultTraced
  MetricsAgree
  FirstErrorKept
CHECK_DEADLOCK FALSE
