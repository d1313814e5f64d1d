SPECIFICATION Spec
CONSTANTS
  Subjects = {"choice", "verdicts", "estimates", "maintenance", "tools", "dispatch", "index", "heartbeats"}
  Sources = {"x", "y"}
  BoardConfigs <- SomeConfigs
  MaxProposals = 3
  MaxTime = 4
  Carriers = {"r"}
  Heads = {"drill", "welder"}
  Calls = {"p", "q"}
  Lifetime = 1
  MaxPasses = 2
  MaxNow = 2
  Jobs = {"a", "b", "c"}
  Locations = {"dock", "near", "far"}
  NoLocation = "nowhere"
  LocationCosts = TRUE
  Costs <- SomeCosts
  Robots = {1, 2, 3}
  MaxLoad = 1
  Orders <- SomeOrders
  Bodies <- SomeBodies
  Dependences <- SomeDependences
  Lengths <- SomeLengths
  Starts = {0, 2}
  Now = 2
  Fittings = {"drill"}
  NoFitting = "none"
  LastAttempt = 2
  Situations <- SomeSituations
  Timeout = 2
  Skew = 1
  Errors <- SomeErrors
  MaxReal = 10
INVARIANTS
  KeepsTheBest
  OrderDoesNotMatter
  PlanFits
  AgreesWithDispatch
  IndexFindsAll
  OfferedBriefly
PROPERTIES
  Ends
  ApprovedInTime
  RestsBetweenProposals
  LastWord
  PassIsOneStep
CHECK_DEADLOCK FALSE
