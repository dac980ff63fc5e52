CONSTANTS
  Client = {g1, g2, g3}
  N = 2
SPECIFICATION Spec
PROPERTIES
  ImplementsSlots
  EveryCallReturns
CHECK_DEADLOCK FALSE
