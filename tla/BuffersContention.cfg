SPECIFICATION Spec
CONSTANTS
  Targets <- MCTargets
  Size <- OddSizes
  Hvas <- Apart
  Accels = {"none"}
  Buffers = {1, 2, 3}
  Unpack = "unpack"
  Bo = 2
  FbtSize = 16
  FbtBase = 64
  Page = 2
  MbufoSize = 20
  LastBound = FALSE
  Programs = {"tidy"}
  MaxMaps = 3
  MaxWrites = 1
PROPERTIES NoContention
