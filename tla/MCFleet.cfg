SPECIFICATION Spec
CONSTANTS
  Locations = {}
  NoLocation = "nowhere"
  LocationCosts = FALSE
  Costs <- NoCosts
  Jobs = {"a", "b"}
  Robots = {1, 2}
  Tools = {"welder"}
  NoTool = "none"
  Keys = {"ka", "kb"}
  NoKey = "nokey"
  Keep = Keep
  Requests <- RivalRequests
  Reports <- RivalReports
  ReplanConfigs <- Full
  FreshnessOn = FALSE
  ToolsChecked = FALSE
  StoreMayFail = FALSE
  ArchiveOn = FALSE
  RouteSweeps = TRUE
  MaxSeq = 2
  MaxAttempt = 2
INVARIANTS
  Reserved
  OneJobPerRobot
  HeldNotOffered
PROPERTIES
  NoOvertaking
  NothingLeftOver
CHECK_DEADLOCK FALSE
