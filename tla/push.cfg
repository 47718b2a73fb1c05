SPECIFICATION Spec
CONSTANTS
  e1 = e1  e2 = e2  p1 = p1  p2 = p2
  Events = {e1, e2}
  Procs = {p1, p2}
  MaxAttempts = 2
  FaultKinds = {"crash", "slow", "stall", "query_error"}
  MaxFaults = 1
  MaxMoves = 1
INVARIANTS TypeOK SentIsTrue ClaimIsOwn ClaimedPayloadKept EventKept OneSender SendsBounded InvalidIsGone
PROPERTY ImplementsNotificationLifecycle
SYMMETRY PushSymmetry
CHECK_DEADLOCK FALSE
