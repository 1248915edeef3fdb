SPECIFICATION Spec
CONSTANTS
  Buffers = {A, B, C}
  NoBuffer = NoBuffer
  Targets = {"array", "unpack"}
  UnpackTarget = "unpack"
  Settings <- MCSettings
  Hvas = {0, 18, 22, 90}
  Sizes = {4, 6}
  PageSize = 4
  BoAlign = 2
  MbufoSize = 64
  FbtSize = 24
  FbtAddress = 64
  MaxMaps = 3
  MaxMixed = 2
  DeletesMapped = FALSE
  EndsMapped = FALSE
  FlushesElsewhere = FALSE
SYMMETRY Symmetry
INVARIANTS TypeOK MeetInPartPages RegionsAccounted PointerRight OwnArea StagingFreed
