SPECIFICATION Spec
CONSTANTS
  Buffers = {A}
  NoBuffer = NoBuffer
  NotTracked = NotTracked
  Targets = {"feedback", "element"}
  ElementTarget = "element"
  Contexts = {c}
  VAOs = {"v0"}
  VAO0 = "v0"
  SlotCount = 1
  TrackedMax = 2
  BufferSize = 3
  MaxLength = 2
  Align = 2
  Accesses <- MCAccesses
  MaxSteps = 4
  UntrackedBinds = {"feedback"}
  RebindsToMap = FALSE
  RebindsToUnmap = TRUE
  Respecifies = TRUE
INVARIANTS TypeOK DataAsPromised
