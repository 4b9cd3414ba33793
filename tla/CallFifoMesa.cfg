SPECIFICATION Spec
CONSTANTS
  Funcs <- MesaFuncs
  Queued <- MesaQueued
  Ungated <- MesaUngated
  NumArgs <- MesaNumArgs
  HeadBytes <- MesaHeadBytes
  BodyBytes <- MesaBodyBytes
  FirstFifo = 4
  MaxFifo = 9
  MaxData = 10
  Window = 16
  Gated = TRUE
  GuestObeysGL = TRUE
  MaxCalls = 4
  MaxContexts = 2
INVARIANTS OwnContext NoDataLeak
PROPERTIES ImplementsCallQueue
CHECK_DEADLOCK FALSE
