SPECIFICATION FairSpec
CONSTANTS
  Clients = {c1}
  Commands = {"ENABLE"}
  ChipEvents = {}
  DriverMerges = FALSE
  Fallible = {}
  QueueBound = 2
PROPERTIES UnplugTracksCable
