SPECIFICATION Spec
CONSTANTS
  Targets <- MCTargets
  Size <- PageSizes
  Hvas <- Banks
  Accels = {"unpack", "all"}
  Buffers = {1, 2, 3}
  Unpack = "unpack"
  Bo = 2
  FbtSize = 16
  FbtBase = 64
  Page = 2
  MbufoSize = 20
  LastBound = TRUE
  Programs = {"tidy"}
  MaxMaps = 3
  MaxWrites = 1
INVARIANTS SlotsDisjoint ReadsCurrent NoLostWrite
