SPECIFICATION FairSpec
CONSTANTS
  scan = scan  cleanup = cleanup
  Runs = {scan, cleanup}
  Owned = {scan}
  MaxRequests = 1
INVARIANTS TypeOK PoolOutlivesWork DrainedMeansQuiet HandoffNeverRefused OneLateLaunch FailurePrecedence
PROPERTIES ShutdownEnds ImplementsDrain
CHECK_DEADLOCK FALSE
