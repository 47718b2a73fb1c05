SPECIFICATION Spec
CONSTANTS
  r1 = r1  r2 = r2  p1 = p1  p2 = p2
  Runs = {r1}
  Procs = {p1}
  FaultKinds = {}
  MaxFaults = 0
  MoveKinds = {}
  MaxMoves = 0
  MaxRequests = 1
PROPERTIES RejectionSurvives
CHECK_DEADLOCK FALSE
