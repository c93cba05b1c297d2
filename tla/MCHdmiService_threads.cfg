SPECIFICATION Spec
CONSTANTS
  Clients = {c1, c2}
  Commands = {"CECSEND", "EXIT"}
  ChipEvents = {}
  DriverMerges = FALSE
  Fallible = {}
  QueueBound = 2
INVARIANTS ThreadsDestroyed
