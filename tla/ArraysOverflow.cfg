CONSTANTS
  Mem <- MCMem
  Values = {x, y}
  Size = 4
  PageSize = 1
  Buffers = {1}
  Vaos = {1}
  Kits <- MCKitsFar
  Orderly = TRUE
  Near = FALSE
  MaxQueue = 2
  MaxContexts = 2
SPECIFICATION Spec
INVARIANT OverflowReported
