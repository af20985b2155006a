SPECIFICATION Spec
CONSTANTS
  Admins = {a1, a2}
  RoleRequests = {1, 2}
  Subjects = {s1, t1}
  Teams = {t1}
  RoleNames = {"owner", "reader"}
  RequestTTL = 1
  LastTick = 2
  NoAdmin = NoAdmin
  NoRequest = NoRequest
  Owners = {o1, o2, o3}
  FlagValues = {"on", "off"}
  LastVersion = 2
  NoOwner = NoOwner
  Operators = {p1, p2}
  Generations = {1, 2}
  Processes = {c1}
  LastConfig = 4
  NoGeneration = NoGeneration
  Repos = {r1}
  MaxSent = 4
  Hydrations = {1, 2}
  NoHydration = NoHydration
  LlmRoles = {"primary"}
  LlmCalls = {1, 2}
  LastRotation = 3
  Accounts = {i1, i2}
  Requests = {1, 2}
  MaxCacheEntries = 1
  MaxExchanges = 2
  MaxTries = 2
  MaxTokens = 2
INVARIANTS
  RoleIsLastApplied
  StagedOnLiveValue
  CacheIsItsVersion
  RepositoryStaysOff
  CooldownHasRepair
  ClientIsItsFingerprint
  DisabledRoleIsSilent
  OldKeyWasStoredLate
  
PROPERTIES
  DecisionIsFinal
CHECK_DEADLOCK FALSE
