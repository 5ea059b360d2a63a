SPECIFICATION FairSpec
CONSTANTS
  Functions = {"switch", "dimmer", "set_temperature", "set_scene"}
  WithInput = {"switch", "set_temperature", "set_scene"}
  Reported = {"switch", "set_temperature"}
  Values = {0, 1}
  High = 2
  MaxCommands = 2
  MaxChanges = 1
  MaxFailures = 1
CHECK_DEADLOCK FALSE
INVARIANTS
  TypeOK
  TemperatureSetWithoutFailure
PROPERTIES
  ComesToRest
  AgreeWithoutFailure
  SceneReturnsToZero
