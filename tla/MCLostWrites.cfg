SPECIFICATION DurableSpec
CONSTANTS
  Locations = {}
  NoLocation = "nowhere"
  LocationCosts = FALSE
  Costs <- NoCosts
  Jobs = {"a"}
  Robots = {1}
  Tools = {"welder"}
  NoTool = "none"
  Keys = {"ka"}
  NoKey = "nokey"
  Keep = Keep
  Requests <- OneRequest
  Reports <- PlainReports
  ReplanConfigs <- Reloaded
  FreshnessOn = TRUE
  ToolsChecked = FALSE
  StoreMayFail = TRUE
  ArchiveOn = TRUE
  RouteSweeps = FALSE
  MaxCrash = 2
  MaxSeq = 2
  MaxAttempt = 3
INVARIANTS
  SameJobs
PROPERTIES
  NoAttemptTwice
CHECK_DEADLOCK FALSE
