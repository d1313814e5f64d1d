SPECIFICATION Spec
CONSTANTS
  Locations = {}
  NoLocation = "nowhere"
  LocationCosts = FALSE
  Costs <- NoCosts
  Jobs = {"a", "b", "c"}
  Robots = {1}
  Tools = {"welder"}
  NoTool = "none"
  Keys = {"ka", "kb"}
  NoKey = "nokey"
  Keep = Keep
  Requests <- ChainRequests
  Reports <- PlainReports
  ReplanConfigs <- Off
  FreshnessOn = FALSE
  ToolsChecked = FALSE
  StoreMayFail = FALSE
  ArchiveOn = TRUE
  RouteSweeps = TRUE
  MaxSeq = 4
  MaxAttempt = 2
INVARIANTS
  TypeOK
  DependenciesDone
  WaitingSettled
  Acyclic
  OneJobPerKey
CHECK_DEADLOCK FALSE
