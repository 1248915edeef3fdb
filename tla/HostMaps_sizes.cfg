SPECIFICATION Spec
CONSTANTS
  Buffers = {A, B}
  NoBuffer = NoBuffer
  Targets = {"unpack"}
  UnpackTarget = "unpack"
  Settings <- MCSettingsAll
  Hvas = {4, 36}
  Sizes = {6}
  PageSize = 4
  BoAlign = 2
  MbufoSize = 32
  FbtSize = 12
  FbtAddress = 64
  MaxMaps = 4
  MaxMixed = 2
  DeletesMapped = FALSE
  EndsMapped = FALSE
  FlushesElsewhere = FALSE
SYMMETRY Symmetry
INVARIANT RegionsDisjoint
