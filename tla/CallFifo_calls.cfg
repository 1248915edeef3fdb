SPECIFICATION Spec
CONSTANTS
  Calls = {"uniform", "getloc", "draw", "upload"}
  Args <- MCArgs
  HostArgs <- MCHostArgs
  Pushed <- MCPushed
  Taken <- MCTaken
  Sync = {"getloc"}
  Unconditional = {}
  Draws = {"draw"}
  Uploads = {"upload"}
  FirstFifo = 3
  MaxFifo = 8
  MaxData = 8
  DataTop = 10
  MaxCalls = 3
  MaxRefs = 2
  StrayCalls = {}
  HostMayFail = FALSE
  RenderThreadOwnsWindow = TRUE
  DiesInDetach = FALSE
INVARIANTS TypeOK OwnData DataAllTaken InArea UploadFits
PROPERTY IsDirect
CHECK_DEADLOCK FALSE
