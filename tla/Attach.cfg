SPECIFICATION Spec
CONSTANTS
  MaxProcs = 4
  Pages = {a, b}
  Orderly = TRUE
  MaxQueue = 2
  MaxStray = 2
INVARIANTS TypeOK LastUnloads TrapsReach CallsStayHome
PROPERTIES ScreenReturned
CHECK_DEADLOCK FALSE
