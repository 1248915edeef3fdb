SPECIFICATION Spec
CONSTANTS
  Calls = {"vertex", "fence", "clear", "message"}
  Args <- MCArgs
  HostArgs <- MCHostArgs
  Pushed <- MCPushed
  Taken <- MCTaken
  Sync = {"message"}
  Unconditional = {"message"}
  Draws = {}
  Uploads = {}
  FirstFifo = 3
  MaxFifo = 8
  MaxData = 8
  DataTop = 10
  MaxCalls = 3
  MaxRefs = 1
  StrayCalls = {}
  HostMayFail = TRUE
  RenderThreadOwnsWindow = TRUE
  DiesInDetach = FALSE
PROPERTY TrapReturns
CHECK_DEADLOCK FALSE
