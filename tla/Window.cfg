SPECIFICATION Spec
CONSTANTS
  Sizes <- MCSizes
  Orderly = TRUE
  MaxOpens = 6
INVARIANTS TypeOK OwnCallback GlideHasWindow MesaHasWindow NoneLost GuiShown
PROPERTIES CallsReturn GuiRestored
