SPECIFICATION FairSpec
CONSTANTS
  Clients = {c1}
  MaxLives = 2
  MaxFd = 3
  MaxConn = 1
CHECK_DEADLOCK FALSE
INVARIANTS
  TypeOK
  ServedByItsThread
  DescriptorsOwned
  ClientSocketOwned
  NotifiesCaller
  PathLeads
  EndsOnlyIfAsked
PROPERTIES
  ConnectionServed
  ListenThreadEnds
  FailsOnlyIfLate
