SPECIFICATION FairSpec
CONSTANTS
  r1 = r1  r2 = r2  p1 = p1  p2 = p2  o1 = o1  o2 = o2
  Runs = {r1}
  Procs = {p1}
  Operators = {}
  TypeOf <- OneType
  StartMaxAttempts = {1}
  FaultKinds = {"crash"}
  MaxFaults = 1
  MaxPauses = 0
  AttemptCap = 1
PROPERTY QueuedIsResolved
CHECK_DEADLOCK FALSE
