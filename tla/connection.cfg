SPECIFICATION FairSpec
CONSTANTS
  NTasks = 3
  RETRY_CONNECT = 2
  Backlog = 2
  INVALID_SOCKET = INVALID_SOCKET
  Listener = Listener
  Faults <- MCFaults
CHECK_DEADLOCK FALSE
INVARIANTS
  TypeOK
  Paired
  ListenerKept
  NoneLeft
PROPERTIES
  ClientReturns
  Connects
