SPECIFICATION Spec
CONSTANTS
  Images = {i1, i2}
  Captures = {k1, k2}
  Transformations = {t1, t2}
  Devices = {d1, d2}
  ImageHandles = {g1, g2, g3}
  CaptureHandles = {c1}
  OwnedHandles = {h1, h2}
  nullptr = nullptr
  Kinds = {color}
  ColorKind = color
  Modes <- MCModes
  Layouts <- MCLayouts
  Brought <- MCBrought
  Resolutions <- MCResolutions
  Garbage <- MCGarbage
SYMMETRY Symmetry
INVARIANTS
  CountsAreHolders
  OwnedOnce
  
