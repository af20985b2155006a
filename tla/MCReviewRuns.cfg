CONSTANTS
  Reviews = {v1, v2}
  Runs = {r1, r2, r3}
  NoRun = NoRun
  NoReview = NoReview
  PersistAttempts = 1
  RecordAttempts = 1
SPECIFICATION Spec
SYMMETRY Symmetry
CHECK_DEADLOCK FALSE
INVARIANTS
  ActiveRunIsCurrent
  LineageConsistent
  EventStreamExplainsState
PROPERTIES
  WritesMoveForward
  RunsHoldOneSlot
