SPECIFICATION Spec
CONSTANTS
  Subjects = {"events", "production", "health", "state"}
  Streams = {"c"}
  Hooks = {"h"}
  Buffer = 2
  SubscriberSize = 1
  MaxAttempts = 2
  WireSize = 1
  MaxEvents = 3
  MaxRestart = 1
  Producers = {"p1", "p2"}
  Stoppers = {"s1", "s2"}
  QueueSize = 2
  MaxOffers = 4
  Watchers = {"w"}
  Checkers = {"k"}
  MaxWatchers = 1
  Documents = {"d", "e"}
  MaxFaults = 2
INVARIANTS
  NoHole
  NeverSendsOnClosed
  EmptiedWhenStopped
PROPERTIES
  KeepsUp
  HooksEnd
  Recovers
  StopEnds
  RetainedCatchesUp
CHECK_DEADLOCK FALSE
