SPECIFICATION FairSpec
CONSTANTS
  fps_period = 4
  Delays <- DelaysBothSigns
  OwnDepth = 1
  SyncDepth = 2
  TsSteps = {3, 9}
  MaxTs = 8
  None = None
INVARIANTS
  ArrivalOrderKept
  DeliversPairs
  NothingStranded
  RefsMatchHolders
PROPERTY CallsReturn
CHECK_DEADLOCK FALSE
