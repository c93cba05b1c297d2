SPECIFICATION FairSpec
CONSTANTS
  Ids = {0, 257}
  MaxCommands = 3
  MaxReceived = 1
CHECK_DEADLOCK FALSE
INVARIANTS
  TypeOK
  ErrorsAttributed
  NoneInvented
  
PROPERTIES
  PassedOn
