SPECIFICATION FairSpec
CONSTANTS
  N = 4
  Deps <- Diamond
  Cacheable = {1, 2, 3}
  Contexts = {"as before", "changed"}
  Earlier <- Left
  MaxAttempts = 2
  MaxParallel = 2
  MaxResumes = 1
INVARIANTS
  SuccessNeedsDependencies
  CancelBoundsWork
PROPERTIES
  ScheduleEnds
  MatchingCheckpointIsReused
CHECK_DEADLOCK FALSE
