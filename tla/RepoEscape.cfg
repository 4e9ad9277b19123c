SPECIFICATION RepoSpec
CONSTANTS
  Edits = 2
  MaxFaults = 1
  MaxWrites = 0
INVARIANTS
  EscapedIsRolledBack
CHECK_DEADLOCK FALSE
