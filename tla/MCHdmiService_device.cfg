SPECIFICATION Spec
CONSTANTS
  Clients = {c1}
  Commands = {"ENABLE", "DISABLE", "FB_RELEASE", "EDIDREQ", "EXIT"}
  ChipEvents = {}
  DriverMerges = TRUE
  Fallible = {"evopen", "evread", "evwakeup", "evclr", "edid", "fbcreate", "fbclose", "plugdeten", "malloc"}
  QueueBound = 1
INVARIANTS
  TypeOK
  NoLostWakeup
  FbAccounted
  PluggedOnce
  KeventGone
PROPERTIES
  ClosedUntilUnplug
