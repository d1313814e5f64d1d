SPECIFICATION FairSpec
CONSTANTS
  Locations = {}
  NoLocation = "nowhere"
  LocationCosts = FALSE
  Costs <- NoCosts
  Jobs = {"a", "b"}
  Robots = {1}
  Tools = {"welder"}
  NoTool = "none"
  Keys = {"ka", "kb"}
  NoKey = "nokey"
  Keep = Keep
  Requests <- PairRequests
  Reports <- StopReports
  ReplanConfigs <- AllReplan
  FreshnessOn = TRUE
  ToolsChecked = FALSE
  StoreMayFail = TRUE
  ArchiveOn = FALSE
  RouteSweeps = FALSE
  MaxSeq = 2
  MaxAttempt = 2
INVARIANTS
  NotStranded
PROPERTIES
  SilenceNoticed
CHECK_DEADLOCK FALSE
