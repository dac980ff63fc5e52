CONSTANTS
  Check <- Checks
  Resource = {"r1", "r2", "r3"}
  None = "none"
  DependsOn <- Deps
  Order <- Levels
  Depth = 3
  GlobalChecks <- Globals
  Outcomes <- Results
  MaxConcurrency = 2
  ResConcurrency <- PerCheck
  Rejections = {"rejected"}
SPECIFICATION Spec
INVARIANTS
  EveryCheckAccounted
  DependenciesVisible
  SameLevelInvisible
  ObservationsOnce
  AggregateFaithful
  ConcurrencyBounds
  ReporterProtocol
  ProgressBarFills
PROPERTIES
  ResourcesAppend
  NothingAfterScanComplete
  Completes
CHECK_DEADLOCK FALSE
