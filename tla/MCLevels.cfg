CONSTANTS
  Check <- Checks
  Unknown = 0
  MaxEntries = 4
  Inputs <- MCInputs
SPECIFICATION Spec
INVARIANTS
  DependenciesFirst
  NoNeedlessWait
  VerdictRight
PROPERTY
  Terminates
CHECK_DEADLOCK FALSE
