SPECIFICATION FairSpec
CONSTANTS
  NThreads = 2
  Connectors = {"api", "cli", "cli2"}
  Http = {"api"}
  First = "api"
  HasRefs = TRUE
  MaxAttempts = 3
  MaxHandoffs = 2
  MaxTries = 2
  Headers <- MCHeaders
INVARIANTS HandoffsBounded NeverReplays SendsBounded OneResult
PROPERTY ThreadsEnd
CHECK_DEADLOCK FALSE
