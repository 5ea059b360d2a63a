SPECIFICATION Spec
CONSTANTS
  ReturnsOnError = FALSE
  MaxEvents = 1
  MaxRuns = 1
CHECK_DEADLOCK FALSE
INVARIANTS
  NoPanic
