SPECIFICATION Spec
CONSTANTS
  Clients = {c1}
  Commands = {"CECSEND", "EDIDREQ"}
  ChipEvents = {}
  DriverMerges = FALSE
  Fallible = {}
  QueueBound = 2
INVARIANTS AllMessagesHandled
