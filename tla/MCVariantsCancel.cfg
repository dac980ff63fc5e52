CONSTANTS
  Count = 3
  Schedules <- AllSchedules
  Returns <- AllReturns
SPECIFICATION Spec
INVARIANT
  EndStopsEveryVariant
CHECK_DEADLOCK FALSE
