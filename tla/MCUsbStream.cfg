SPECIFICATION FairSpec
CONSTANTS
  Threads = {e1, e2}
  Transfers = {x1, x2}
  Slots = 2
  Pool = 3
  FaultSets = {{"submit"}, {"alloc", "submit", "events"}}
  None = None
INVARIANTS
  TransfersAlive
  StoppedIsQuiet
PROPERTY StopReturns
