SPECIFICATION Spec
CONSTANTS
  Buses <- SmallBuses
  Ids = {"a", "b"}
  Indexes = {0, 1}
  WantedIds = {"b"}
  Callers = {c1, c2}
  Controller = c1
  IdModulus = 4
  InboxMax = 1
  PipeMax = 3
  MaxCommands = 5
  DestroyDuring = {"command", "data", "response"}
INVARIANTS
  
  DeviceOutlivesCommands
  
  OpensOneOrNothing
CHECK_DEADLOCK FALSE
