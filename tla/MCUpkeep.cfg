SPECIFICATION UpkeepSpec
CONSTANTS
  q1 = q1
  Workflows = {w1, w2}
  Prs = {q1}
  PrOf <- MCPrOf
  Mutexes = {m1, m2, m3}
  TTL = 2
  NoPr = NoPr
  NoMutex = NoMutex
  Nobody = Nobody
  Pages = {p1}
  LastEdit = 3
  Cap = 1
  Ingest = Ingest
  Others = {o1}
  MaxChanges = 2
  MaxLateSyncs = 1
INVARIANTS
  OneLiveRow
  ConfirmedClaimIsExclusive
  DefaultCorpusIsBounded
PROPERTIES
  AbandonedRowIsReleased
  CorpusIsCurrent
CHECK_DEADLOCK FALSE
