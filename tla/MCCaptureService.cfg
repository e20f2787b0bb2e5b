SPECIFICATION FairSpec
CONSTANTS
  a = a
  b = b
  Clients = {a, b}
  Source <- UploadAndReplay
  MaxSessions = 2
  MaxBlocks = 2
  MaxRestarts = 1
  Faults <- StartFaults
INVARIANTS LiveCaptureHoldsLease
PROPERTIES UnloadSparesCaptures OutcomesAreFinal LeaseReleased
CHECK_DEADLOCK FALSE
