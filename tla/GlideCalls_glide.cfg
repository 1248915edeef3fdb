SPECIFICATION Spec
CONSTANTS
  Calls = {"grDrawPoint", "grHints"}
  Asks = {"grTexTextureMemRequired"}
  Args <- MCArgs
  Words <- MCWords
  Addresses = {1, 2}
  FirstFifo = 3
  MaxFifo = 9
  MaxData = 6
  DataTop = 8
  DataFirst = FALSE
  AddressesDiffer = FALSE
  DllMainsOverlap = FALSE
  DiesIn = {"found", "up", "leaving"}
  QueriesLate = FALSE
  MaxCalls = 6
  MaxProcesses = 3
INVARIANTS TypeOK InArea RefsCount
PROPERTY GlideIsDirect
CHECK_DEADLOCK FALSE
