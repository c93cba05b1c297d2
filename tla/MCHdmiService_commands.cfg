SPECIFICATION FairSpec
CONSTANTS
  Clients = {c1, c2}
  Commands = {"CECSEND", "EDIDREQ", "EXIT"}
  ChipEvents = {"CEC"}
  DriverMerges = FALSE
  Fallible = {"malloc"}
  QueueBound = 1
PROPERTIES
  StalledOnlyByRefusal
  ImplementsCommandService
