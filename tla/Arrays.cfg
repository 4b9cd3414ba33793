CONSTANTS
  Mem <- MCMem
  Values = {x, y}
  Size = 4
  PageSize = 1
  Buffers = {1}
  Vaos = {1}
  Kits <- MCKits
  Orderly = TRUE
  Near = TRUE
  MaxQueue = 2
  MaxContexts = 2
SPECIFICATION Spec
INVARIANTS TypeOK InStep CopiesFit DrawsRight
