SPECIFICATION FairSpec
CONSTANTS
  cli = cli
  http = http
  Attempts <- MCAttempts
  Protected <- MCProtected
  MaxHandoffs = 1
  Ceiling = 2
  Quotes <- MCQuotes
  Bills <- MCBills
INVARIANTS
  InTimeAnswerIsCharged
  TimedOutCallHoldsNothing
  LedgerWithinCeiling
PROPERTIES
  EveryReservationIsClosed
  ImplementsBudget
CHECK_DEADLOCK FALSE
