SPECIFICATION WorldSafety
CONSTANTS
  Locations = {}
  NoLocation = "nowhere"
  LocationCosts = FALSE
  Costs <- NoCosts
  Jobs = {"a"}
  Robots = {1, 2}
  Tools = {"welder"}
  NoTool = "none"
  Keys = {"ka"}
  NoKey = "nokey"
  Keep = Keep
  Requests <- OneRequest
  Reports <- BridgeReports
  ReplanConfigs <- AskFirst
  FreshnessOn = TRUE
  ToolsChecked = FALSE
  StoreMayFail = FALSE
  ArchiveOn = FALSE
  RouteSweeps = FALSE
  MaxSeq = 1
  MaxAttempt = 2
  LateStops = FALSE
PROPERTIES
  ConfirmedStopCounts
CHECK_DEADLOCK FALSE
