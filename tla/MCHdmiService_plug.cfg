SPECIFICATION FairSpec
CONSTANTS
  Clients = {c1}
  Commands = {"FB_RELEASE", "EXIT"}
  ChipEvents = {}
  DriverMerges = TRUE
  Fallible = {"evread", "evclr", "edid"}
  QueueBound = 1
PROPERTIES
  PlugTracksCable
  ExitCompletes
