CONSTANTS
  Count = 3
  Schedules <- AllSchedules
  Returns <- AllReturns
SPECIFICATION Spec
INVARIANTS
  EveryAttemptLeft
  RollUpInOrder
  EndStopsTheRest
CHECK_DEADLOCK FALSE
