SPECIFICATION Spec
CONSTANTS
  r1 = r1  r2 = r2  p1 = p1  p2 = p2  o1 = o1  o2 = o2
  Runs = {r1}
  Procs = {p1, p2}
  Operators = {o1}
  TypeOf <- OneType
  StartMaxAttempts = {2}
  FaultKinds = {"crash", "query_error", "lost_ack", "slow_start", "slow_release", "renewal_stall", "clock_skew"}
  MaxFaults = 2
  MaxPauses = 0
  AttemptCap = 2
INVARIANTS OneOwner TokensOrdered
PROPERTIES WritersFenced OwnerDecides
SYMMETRY Symmetry
CHECK_DEADLOCK FALSE
