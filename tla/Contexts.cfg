SPECIFICATION Spec
CONSTANTS
  MaxLevel = 4
  MaxPbuffer = 2
  Attribs <- MCAttribs
  ContextZero = FALSE
  Orderly = TRUE
  MaxCreated = 6
  Kits <- MCKits
INVARIANTS TypeOK HandleDenotes CurrentHonoured NothingLeft
