SPECIFICATION Spec
CONSTANTS
  Buffers = {A, B}
  NoBuffer = NoBuffer
  NotTracked = NotTracked
  Targets = {"element"}
  ElementTarget = "element"
  Contexts = {c, d}
  VAOs = {"v0", "v1"}
  VAO0 = "v0"
  SlotCount = 1
  TrackedMax = 2
  BufferSize = 1
  MaxLength = 1
  Align = 2
  Accesses <- MCAccessesTwo
  MaxSteps = 4
  UntrackedBinds = {}
  RebindsToMap = FALSE
  RebindsToUnmap = TRUE
  Respecifies = TRUE
SYMMETRY Symmetry
INVARIANTS DataAsPromised OwnSlot TrackedTrue
