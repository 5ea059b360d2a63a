SPECIFICATION Spec
CONSTANTS
  Words = {}
  NoValue = NoValue
  p1 = p1
  p2 = p2
  Assets <- MCAssets
  Projects <- MCProjects
  MaxChanges = 2
  MaxRequests = 1
INVARIANTS TypeOK ElementsKnown TruePicture
CHECK_DEADLOCK FALSE
