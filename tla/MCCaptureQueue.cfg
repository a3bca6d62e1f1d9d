SPECIFICATION Spec
CONSTANTS
  Poppers = {p1, p2, p3}
  Controllers = {k1, k2}
  Captures = {c1, c2}
  QueueDepth = 2
  MaxRefs = 3
  SpuriousWakeups = TRUE
  Nil = Nil
SYMMETRY Symmetry
INVARIANTS
  
  DisabledPopAttended
  DestroyedQuiescent
  RefsConserved
 
