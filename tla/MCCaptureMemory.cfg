SPECIFICATION Spec
CONSTANTS
  Threads = {t1, t2}
  Images = {i1, i2}
  Captures = {c1}
  Buffers = {b1, b2}
  ImageTypes = {color, ir}
  Sources = {user}
  Hooks = {default_hook, app_hook}
  DefaultHook = default_hook
  SharedSetters = FALSE
  MaxRefs = 1
  MaxFailures = 1
  MaxSessions = 1
  None = None
SYMMETRY Symmetry
INVARIANTS
  FreedByItsAllocator
  ImageRefsExact
  NothingDangling
  
CHECK_DEADLOCK FALSE
