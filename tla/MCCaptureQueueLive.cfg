SPECIFICATION FairSpec
CONSTANTS
  Poppers = {p1, p2, p3}
  Controllers = {k1}
  Captures = {c1}
  QueueDepth = 1
  MaxRefs = 3
  SpuriousWakeups = FALSE
  Nil = Nil
PROPERTY
  DisableCompletes
