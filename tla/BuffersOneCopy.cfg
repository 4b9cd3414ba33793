SPECIFICATION Spec
CONSTANTS
  Targets <- MCTargets
  Size <- OddSizes
  Hvas <- Apart
  Accels = {"none"}
  Buffers = {1, 2}
  Unpack = "unpack"
  Bo = 2
  FbtSize = 16
  FbtBase = 64
  Page = 2
  MbufoSize = 20
  LastBound = TRUE
  Programs = {"tidy", "careless"}
  MaxMaps = 3
  MaxWrites = 2
INVARIANTS TypeOK OwnRegion ReadsCurrent NoLostWrite Reclaimed
