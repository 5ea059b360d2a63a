SPECIFICATION FairSpec
CONSTANTS
  Configs = {c1}
  MaxDevices = 1
  MaxEdits = 1
  MaxStops = 0
  Unanswered = {}
  SlowRelease = FALSE
PROPERTIES
  DisabledUnsubscribes
