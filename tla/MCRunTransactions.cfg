SPECIFICATION Spec
CONSTANTS
  Review = Review
  LastRun = 2
  MaxRows = 6
  Slots = {s1, s2, s3}
  NoRun = NoRun
  NoReview = NoReview
  NoOp = NoOp
SYMMETRY Symmetry
INVARIANTS
  SequenceIsGapless
  DeadlockNeedsLateLocker
PROPERTIES
  TransactionsAreAtomic
CHECK_DEADLOCK FALSE
