SPECIFICATION Spec
CONSTANTS
  Pixels = {p, q}
  Values = {dark, light}
  Blank = dark
  Configs <- MCConfigs
  Orderly = TRUE
INVARIANTS TypeOK MapsHeld
PROPERTIES ImplementsFrameBuffer
SYMMETRY SymmetricPixels
