SPECIFICATION Spec
CONSTANTS
  e1 = e1
  e2 = e2
  e3 = e3
  p = p
  q = q
  Executions <- Three
  Owners <- Processes
  OwnerOf <- Shared
  NoLease = NoLease
  Ttl = 1
  Attempts <- OneAttempt
INVARIANTS
  CompletedIsStored
  OneHolder
  WorkLostOnlyWithLease
CHECK_DEADLOCK FALSE
