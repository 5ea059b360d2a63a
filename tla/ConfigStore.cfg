SPECIFICATION FairSpec
CONSTANTS
  NULL = NULL
  token = token
  Types <- MCTypes
  Tokens <- MCTokens
  Bodies <- MCBodies
  MaxId = 2
  MaxPosts = 2
  MaxEdits = 2
CHECK_DEADLOCK FALSE
INVARIANTS
  TypeOK
  RowAsRequested
PROPERTIES
  AppWritesItsRow
  EventuallyStored
