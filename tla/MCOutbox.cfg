CONSTANTS
  NumRows = 2
  BatchSize = 2
  MaxAttempts = 2
  MaxTries = 2
  MaxAbandoned = 1
SPECIFICATION FairSpec
INVARIANTS
  DispatchedWasDelivered
PROPERTIES
  PendingIsSettled
