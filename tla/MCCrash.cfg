SPECIFICATION DurableSpec
CONSTANTS
  Locations = {}
  NoLocation = "nowhere"
  LocationCosts = FALSE
  Costs <- NoCosts
  Jobs = {"a", "b"}
  Robots = {1, 2}
  Tools = {}
  NoTool = "none"
  Keys = {"ka", "kb"}
  NoKey = "nokey"
  Keep = Keep
  Requests <- StageRequests
  Reports <- StopReports
  ReplanConfigs <- Full
  FreshnessOn = FALSE
  ToolsChecked = FALSE
  StoreMayFail = FALSE
  ArchiveOn = TRUE
  RouteSweeps = TRUE
  MaxCrash = 1
  MaxSeq = 3
  MaxAttempt = 1
INVARIANTS
  Reserved
  DiskIsCurrent
  WaitsForSomething
PROPERTIES
  LivesAsPromised
CHECK_DEADLOCK FALSE
