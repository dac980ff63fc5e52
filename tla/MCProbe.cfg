SPECIFICATION Spec
CONSTANTS
  MaxRetries = 3
  RetryDelay = 3
  MaxWait = 4
  ShiftCap = 1
  MaxInt = 7
  Headers <- MCHeaders
  BodyLengths = {1}
  BodySizes = {3}
  Caps = {0, 2}
INVARIANTS
  NeverAppliedTwice
  OutcomeFaithful
  NothingLeaks
  WholeBodyEachTime
  CancelStops
  WaitBounded
CHECK_DEADLOCK FALSE
