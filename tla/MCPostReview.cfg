CONSTANTS
  Runs = {1, 2}
  Findings = {f1}
  MaxAttempts = 2
  HttpTries = 2
SPECIFICATION Spec
CHECK_DEADLOCK FALSE
INVARIANTS
  InlineDeliveredHasComment
  CapturedTextWasShown
PROPERTIES
  BotHasOnePoster
