SPECIFICATION SdkSpec
CONSTANTS
  Devices = {d1, d2}
  ContainerIds = {NULL, id}
  NULL = NULL
  MaxQueued = 1
  MaxLost = 1
  LogThreads <- SdkThreads
  Callbacks = {"cb"}
  Contexts = {"x", "y"}
  Messages = {1, 3}
  Environments <- MCEnvironments
  MaxLogging = 2
SYMMETRY Symmetry
INVARIANTS
  
  FlagTellsRunning
  ClosedLeavesNothing
  LoggersStayWhileUsed
