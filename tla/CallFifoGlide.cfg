SPECIFICATION Spec
CONSTANTS
  Funcs <- MCFuncs
  Queued <- MCQueued
  Ungated = {}
  NumArgs <- MCNumArgs
  HeadBytes <- MCHeadBytes
  BodyBytes <- MCBodyBytes
  FirstFifo = 4
  MaxFifo = 11
  MaxData = 9
  Window = 14
  Gated = FALSE
  GuestObeysGL = TRUE
  MaxCalls = 5
  MaxContexts = 0
INVARIANTS TypeOK OwnWords PositionsAgree DataInWindow
PROPERTIES ImplementsCallQueue
CHECK_DEADLOCK FALSE
