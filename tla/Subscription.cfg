SPECIFICATION FairSpec
CONSTANTS
  ReturnsOnError = FALSE
  MaxEvents = 3
  MaxRuns = 3
CHECK_DEADLOCK FALSE
INVARIANTS
  TypeOK
  NoSendOnClosed
  ConsumerDrains
  PipelineInv
PROPERTIES
  InOrder
  CallbackReturns
