SPECIFICATION Spec
CONSTANTS
  r1 = r1  r2 = r2  p1 = p1  p2 = p2  o1 = o1  o2 = o2
  Runs = {r1}
  Procs = {p1}
  Operators = {o1}
  TypeOf <- OneType
  StartMaxAttempts = {1}
  FaultKinds = {}
  MaxFaults = 0
  MaxPauses = 0
  AttemptCap = 2
PROPERTY CommittedClaimsLaunch
CHECK_DEADLOCK FALSE
