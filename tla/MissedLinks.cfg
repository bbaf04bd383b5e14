\* Two scenarios of two rows each; three passes.
SPECIFICATION Spec
CONSTANTS
  h1 = h1
  h2 = h2
  i1 = i1
  i2 = i2
  Scenarios <- MCScenarios
  Window = 2
  FailThreshold = 2
  RowLimit = 2
  MaxLate = 0
  MaxAhead = 0
  MaxPasses = 3
  MaxErrors = 0
INVARIANT DocumentedLinksAreMade
CHECK_DEADLOCK FALSE
