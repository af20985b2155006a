CONSTANTS
  v1 = v1
  Reviews = {v1}
  Runs = {1, 2}
  Executions = {1}
  PrOf <- MCPrOf
  Mutexes = {1}
  TTL = 1
  NoRun = NoRun
  NoReview = NoReview
  NoMutex = NoMutex
  NoExecution = NoExecution
SPECIFICATION Spec
CHECK_DEADLOCK FALSE
INVARIANTS
  NoReviewLost
