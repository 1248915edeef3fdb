SPECIFICATION Spec
CONSTANTS
  Names = {"Color", "TexCoord"}
  Attribs = {6, 9}
  Ptrs = {0, 1, 2}
  BadPtrs = {2}
  Buffers = {1}
  Vaos = {1}
  Units = 2
  Draws <- MCDraws
  MaxQueue = 2
  MaxCalls = 4
  DiesInContext = FALSE
  FormatInContext = FALSE
INVARIANTS TypeOK SameRecord StreamAligned DrawReadsSent
CHECK_DEADLOCK FALSE
