SPECIFICATION Spec
CONSTANTS
  MaxLevel = 4
  MaxPbuffer = 2
  Attribs <- MCAttribs
  ContextZero = FALSE
  Orderly = TRUE
  MaxCreated = 4
  Kits <- MCKits
INVARIANT NoUnhandledWrite
