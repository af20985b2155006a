SPECIFICATION EmbedderSpec
CONSTANTS
  Operators = {p1, p2}
  Generations = {1, 2, 3}
  Processes = {c1}
  LastConfig = 3
  NoGeneration = NoGeneration
INVARIANT SingleActive
CHECK_DEADLOCK FALSE
