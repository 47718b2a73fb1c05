SPECIFICATION FairSpec
CONSTANTS
  r1 = r1  r2 = r2  p1 = p1  p2 = p2
  Runs = {r1}
  Procs = {p1, p2}
  FaultKinds = {"crash", "stall", "network", "query_error"}
  MaxFaults = 2
  MoveKinds = {"retry", "cancel", "reopen", "reingest"}
  MaxMoves = 1
  MaxRequests = 1
INVARIANTS OnePostPerRun RefusedNeverSent ClosedIsFinal
PROPERTIES AbandonedPreparationSettles
CHECK_DEADLOCK FALSE
