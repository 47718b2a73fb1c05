SPECIFICATION Spec
CONSTANTS
  r1 = r1  r2 = r2  p1 = p1  p2 = p2
  Runs = {r1, r2}
  Procs = {p1, p2}
  FaultKinds = {"crash", "stall", "network"}
  MaxFaults = 1
  MoveKinds = {"reopen", "reingest"}
  MaxMoves = 1
  MaxRequests = 2
INVARIANTS TypeOK OneUncertainRequest ReceiptIsTrue DownloadingIsOwned
PROPERTY ImplementsDownloadRequest
SYMMETRY Symmetry
CHECK_DEADLOCK FALSE
