SPECIFICATION Spec
CONSTANTS
  MaxRetries = 2
  RetryDelay = 3
  MaxWait = 4
  ShiftCap = 1
  MaxInt = 7
  Headers <- MCHeaders
  BodyLengths = {1}
  BodySizes <- MCBodySizes
  Caps <- MCWidest
INVARIANT KeptWithinCap
CHECK_DEADLOCK FALSE
