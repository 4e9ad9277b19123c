SPECIFICATION FairSpec
CONSTANTS
  MaxLines = 2
  MaxAsked = 1
  Workers = 1
  AsyncWorkers = 1
  DaemonThreads = 1
INVARIANTS AnsweredOnce EarlyCancelSticks
PROPERTIES RequestsAnswered AcceptedRunsEnd
CHECK_DEADLOCK FALSE
