SPECIFICATION FairSpec
CONSTANTS
  Callers = {c1, c2}
  Workers = {w1, w2}
  MaxReads = 2
  MaxKept = 1
  MaxLost = 1
  OwnContainer = "own"
  CameraLists <- MCCameraLists
INVARIANTS
  
  StreamNeverStalls
  
  
PROPERTIES
  ImplementsColorReader
  CallsReturn
