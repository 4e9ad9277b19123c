SPECIFICATION RepoSpec
CONSTANTS
  Edits = 3
  MaxFaults = 2
  MaxWrites = 2
INVARIANTS
  EarlyChangeStops
  AllOrNothing
CHECK_DEADLOCK FALSE
