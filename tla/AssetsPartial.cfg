SPECIFICATION FairSpec
CONSTANTS
  c1 = c1
  c2 = c2
  root = root
  system = system
  channel1 = channel1
  channel2 = channel2
  Configs = {c1}
  Assets <- MCAssets
  Parent <- MCParent
  Locations = {root}
  Channels = {channel1, channel2}
  Sees <- MCSees
  Inputs = {"input"}
  Outputs = {"output"}
  NoConfig = NoConfig
  MaxFailures = 1
  MaxDeletes = 0
PROPERTIES
  EventuallyComplete
