SPECIFICATION FairSpec
CONSTANTS
  Configs = {c1, c2}
  MaxDevices = 0
  MaxEdits = 0
  MaxStops = 0
  Unanswered = {c2}
  SlowRelease = TRUE
PROPERTIES
  EnabledResubscribes
