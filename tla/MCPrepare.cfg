SPECIFICATION Spec
CONSTANTS
  ID <- IDSet
  Registrar = {p1, p2}
  Batches <- SomeBatches
  Initial <- SomeInitial
  Invalid = {"bad"}
  New = new
  None = none
  Scenarios <- SomeScenarios
  Graphs <- ThreeGraphs
  Options <- MCOptions
INVARIANTS
  AllOrNothing
  LeastClosure
PROPERTY
  Terminates
CHECK_DEADLOCK FALSE
