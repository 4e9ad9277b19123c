SPECIFICATION Spec
CONSTANTS
  a1 = a1
  a2 = a2
  a3 = a3
  p = p
  Attempts <- Three
  Brokers <- OneProcess
  BrokerOf <- Together
  MaxCalls = 2
  Limit = 2
  Nobody = Nobody
INVARIANTS
  NeverOvercounted
  ExactWhileTimely
CHECK_DEADLOCK FALSE
