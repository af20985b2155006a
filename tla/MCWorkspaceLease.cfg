\* MCWorkspaceLease: the leases of one run.
SPECIFICATION Spec
CONSTANTS
  Leases = {w1, w2}
  Executions = {e1, e2}
  Retention = Retention
  Late = Late
  None = None
  Tries = 1
  MaxCleanups = 2
  MaxLate = 1
  MaxAttempts = 2
  HeartbeatsWritten = FALSE
INVARIANTS
  LeftoverIsStale
PROPERTIES
  RemovalIsForOldLease
  RequestedIsReleased
CHECK_DEADLOCK FALSE
