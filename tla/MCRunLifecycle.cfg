SPECIFICATION FairSpec
CONSTANTS
  run = run
  r1 = r1
  c1 = c1
  First = run
  Resumes <- OneResume
  Cancellers <- OneCancel
  Nobody = Nobody
  MaxFaults = 1
INVARIANTS
  ReceiptMatchesBundle
  FinalStateMatchesReceipt
  StoredCancelStops
PROPERTIES
  RunSettles
  CancelTakesEffect
CHECK_DEADLOCK FALSE
