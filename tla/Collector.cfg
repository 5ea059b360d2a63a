SPECIFICATION FairSpec
CONSTANTS
  Configs = {c1}
  MaxDevices = 1
  MaxEdits = 2
  MaxStops = 1
  Unanswered = {}
  SlowRelease = FALSE
INVARIANTS
  TypeOK
  NoLostResync
  WakeInv
PROPERTIES
  ActiveSettles
  DisabledCollectorDrains
  RestartCatchesUp
